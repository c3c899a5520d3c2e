CONSTANT SleepSuffices = TRUE
SPECIFICATION Spec
INVARIANT ServesOnceStarted
