\* Five contents of the file, three edits, a restart, a failed copy.
SPECIFICATION FairASpec
CONSTANTS
    Files <- SomeFiles
    NoDef = NoDef
    MaxEdits = 3
    MaxCrashes = 1
    MaxCloneErrors = 1
INVARIANTS ATypeOK HeldMatchesRevision SourceIsOfLastConfig
PROPERTIES AgentFollowsFile UnparsableIsIgnored
\* A file that cannot be loaded keeps the process down.
CHECK_DEADLOCK FALSE
