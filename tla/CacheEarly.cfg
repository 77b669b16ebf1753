SPECIFICATION LSpec
CONSTANTS
    Callers = {c1, rec}
    EarlyCallers = {rec}
    Settings = {s1}
    Malformed = {}
    NoSettings = NoSettings
    MaxChanges = 0
INVARIANT NeverPanics
CHECK_DEADLOCK FALSE
