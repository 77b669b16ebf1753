SPECIFICATION FairLSpec
CONSTANTS
    Callers = {c1, c2}
    EarlyCallers = {}
    Settings = {s1, s2}
    Malformed = {}
    NoSettings = NoSettings
    MaxChanges = 1
PROPERTY SettingsTakeEffect
CHECK_DEADLOCK FALSE
