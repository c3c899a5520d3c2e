CONSTANT SleepSuffices = FALSE
SPECIFICATION Spec
INVARIANT TypeOK MainUsesLiveServer NoCrashBeforeCleanup ReleasedAtExit
PROPERTY ExitsOnSignal
