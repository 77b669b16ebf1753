SPECIFICATION FairSpec
CONSTANTS
    Keys = {k1}
    NoKey = NoKey
    ClusterName = "ours"
    Workers = {w1}
    Specs <- OneOrUnusable
    Hashes = {1}
    Configs <- CascadingOrNot
    Resources <- TwoResources
    Contents <- TwoContents
    Manifests <- TwoManifests
    Budgets <- DeletionBudgets
PROPERTIES DeletionCompletes GoneEndsUnwatched PauseTakesEffect HealOffLeavesDrift
\* Once no GitSync is left and the environment is done the controller idles.
CHECK_DEADLOCK FALSE
