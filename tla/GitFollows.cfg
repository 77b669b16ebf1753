\* One user, every kind of target, every kind of source, faults, restarts, a forced push.
SPECIFICATION FairGSpec
CONSTANTS
    main = main
    dev = dev
    v1 = v1
    a1 = a1
    Users = {u1}
    Branches = {main, dev}
    Default = main
    MainNames = {main}
    Tags = {v1}
    Annotated = {a1}
    FirstTargets <- AllTargets
    Sources = {{}, {"helm"}, {"raw", "kustomize"}}
    NoBranch = NoBranch
    MaxCommits = 1
    Budgets <- Mixed
INVARIANTS GTypeOK HashIsOfTarget RunIsFresh BranchManifestsMatchHash
PROPERTIES BranchIsFollowed TagIsSynced
