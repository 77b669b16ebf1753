\* Three keys, two workers, any GitSync may vanish, shutdown at any moment;
\* no interval, more keys than milliseconds, an interval that does not divide.
SPECIFICATION PSpec
CONSTANTS
    Keys = {k1, k2, k3}
    Workers = {w1, w2}
    NoKey = NoKey
    Vanishing = {k1, k2, k3}
    CanCancel = TRUE
    TaskIntervals = {0, 2, 5}
INVARIANTS QTypeOK ListMatchesMap InFlightIsWatched BoundedOvertaking
PROPERTIES ImplementsWatchSet TurnTakesInterval
\* The synchronizer ends after Cancel, and may block for good (see QueueStuck.cfg).
CHECK_DEADLOCK FALSE
