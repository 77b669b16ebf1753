SPECIFICATION FairSpec
CONSTANTS
    Keys = {k1}
    NoKey = NoKey
    ClusterName = "ours"
    Workers = {w1, w2}
    Specs <- TwoPaths
    Hashes = {1, 2}
    Configs <- OnlyHealing
    Resources <- TwoResources
    Contents <- TwoContents
    Manifests <- TwoManifests
    Budgets <- ConvergeBudgets
PROPERTY Converges
