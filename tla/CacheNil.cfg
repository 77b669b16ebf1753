\* Every caller waits for Init and every configuration parses; one change.
SPECIFICATION LSpec
CONSTANTS
    Callers = {c1}
    EarlyCallers = {}
    Settings = {s1, s2}
    Malformed = {}
    NoSettings = NoSettings
    MaxChanges = 1
INVARIANT NeverPanics
CHECK_DEADLOCK FALSE
