SPECIFICATION Spec
CONSTANTS
    Keys = {k1}
    NoKey = NoKey
    ClusterName = "ours"
    Workers = {w1, w2}
    Specs <- TwoPaths
    Hashes = {1, 2}
    Configs <- OnlyCascading
    Resources <- TwoResources
    Contents <- TwoContents
    Manifests <- TwoManifests
    Budgets <- SafetyBudgets
SYMMETRY WorkerSymmetry
INVARIANTS TypeOK RunningHasFinalizer SyncedWasApplied
PROPERTIES OnlyWorkersWriteCommit OnlyReconcilerWritesPhase GoneIsUnwatched
\* With no GitSync left and the environment's budget used up the controller idles.
CHECK_DEADLOCK FALSE
