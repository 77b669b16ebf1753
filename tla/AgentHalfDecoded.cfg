SPECIFICATION FairASpec
CONSTANTS
    Files <- SomeFiles
    NoDef = NoDef
    MaxEdits = 1
    MaxCrashes = 0
    MaxCloneErrors = 0
INVARIANT NeverHalfConfigured
CHECK_DEADLOCK FALSE
