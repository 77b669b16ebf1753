SPECIFICATION FairQSpec
CONSTANTS
    Keys = {k1, k2}
    Workers = {w1, w2}
    NoKey = NoKey
    Vanishing = {}
    CanCancel = TRUE
PROPERTY SynchronizerStops
\* After Cancel the synchronizer ends.
CHECK_DEADLOCK FALSE
