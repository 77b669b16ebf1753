\* One GitSync may be found deleted by a worker.
SPECIFICATION FairQSpec
CONSTANTS
    Keys = {k1, k2}
    Workers = {w1, w2}
    NoKey = NoKey
    Vanishing = {k1}
    CanCancel = FALSE
PROPERTY EveryWatchedKeyIsAssigned
CHECK_DEADLOCK FALSE
