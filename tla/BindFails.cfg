CONSTANT SleepSuffices = TRUE
SPECIFICATION Spec
INVARIANT InitializedOrExited
