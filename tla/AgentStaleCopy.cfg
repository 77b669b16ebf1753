\* A copy of the configuration fails once, after the first one.
SPECIFICATION ASpec
CONSTANTS
    Files <- SomeFiles
    NoDef = NoDef
    MaxEdits = 1
    MaxCrashes = 0
    MaxCloneErrors = 1
INVARIANT SourceIsOfHeldConfig
CHECK_DEADLOCK FALSE
