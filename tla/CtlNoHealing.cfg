SPECIFICATION FairSpec
CONSTANTS
    Keys = {k1}
    NoKey = NoKey
    ClusterName = "ours"
    Workers = {w1, w2}
    Specs <- OnePath
    Hashes = {1}
    Configs <- OnlyNoHealing
    Resources <- OneResource
    Contents <- OneContent
    Manifests <- OneManifest
    Budgets <- CreateFault
PROPERTY Converges
\* Once no GitSync is left and the environment is done the controller idles.
CHECK_DEADLOCK FALSE
