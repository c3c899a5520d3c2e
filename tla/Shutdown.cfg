CONSTANT SleepSuffices = TRUE
SPECIFICATION Spec
INVARIANT NoUseAfterDelete
