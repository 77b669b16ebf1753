SPECIFICATION Spec
CONSTANTS
    Keys = {k1}
    NoKey = NoKey
    ClusterName = "ours"
    Workers = {w1, w2}
    Specs <- OnePath
    Hashes = {1, 2}
    Configs <- OnlyHealing
    Resources <- TwoResources
    Contents <- TwoContents
    Manifests <- BothChange
    Budgets <- CreatePush
SYMMETRY WorkerSymmetry
INVARIANT NoMixture
\* With the environment's budget used up the controller may idle.
CHECK_DEADLOCK FALSE
