SPECIFICATION FairSpec
CONSTANTS
    Keys = {k1}
    NoKey = NoKey
    ClusterName = "ours"
    Workers = {w1, w2}
    Specs <- PathOrElsewhere
    Hashes = {1}
    Configs <- OnlyHealing
    Resources <- OneResource
    Contents <- OneContent
    Manifests <- OneManifest
    Budgets <- CreateEditDelete
PROPERTY EveryDeletionCompletes
\* Once no GitSync is left and the environment is done the controller idles.
CHECK_DEADLOCK FALSE
