SPECIFICATION FairSpec
CONSTANTS
    Children = 2
    Captured <- AllCaptured
    MaxAttempts = 3
    MaxCrashes = 1
    MaxLate = 2
CHECK_DEADLOCK FALSE
INVARIANTS DataSafe SwapComplete
PROPERTIES SwapsOnce TaskEnds
