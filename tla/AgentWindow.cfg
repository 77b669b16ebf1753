SPECIFICATION FairASpec
CONSTANTS
    Files <- SomeFiles
    NoDef = NoDef
    MaxEdits = 1
    MaxCrashes = 0
    MaxCloneErrors = 0
PROPERTY AgentFollowsEveryEdit
CHECK_DEADLOCK FALSE
