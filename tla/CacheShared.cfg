\* Three callers, one of them the reconciler, two changes of the configuration.
SPECIFICATION FairLSpec
CONSTANTS
    Callers = {c1, c2, rec}
    EarlyCallers = {rec}
    Settings = {s1, s2}
    Malformed = {bad}
    NoSettings = NoSettings
    MaxChanges = 2
INVARIANTS LTypeOK OneClusterCache PanicHasCause
\* A panic ends the process.
CHECK_DEADLOCK FALSE
PROPERTIES SettingsTakeEffectInOrder
