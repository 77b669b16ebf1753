\* Any GitSync may be found deleted by a worker, shutdown at any moment.
SPECIFICATION FairQSpec
CONSTANTS
    Keys = {k1, k2}
    Workers = {w1, w2}
    NoKey = NoKey
    Vanishing = {k1, k2}
    CanCancel = TRUE
PROPERTIES AssignedUnlessBlocked ReconcilerCallReturns WorkersStop
\* After Cancel the synchronizer ends.
CHECK_DEADLOCK FALSE
