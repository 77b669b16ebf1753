\* The target is an annotated tag.
SPECIFICATION FairGSpec
CONSTANTS
    main = main
    dev = dev
    v1 = v1
    a1 = a1
    Users = {u1}
    Branches = {main, dev}
    Default = main
    MainNames = {main}
    Tags = {}
    Annotated = {a1}
    FirstTargets = {a1}
    Sources = {{"raw"}}
    NoBranch = NoBranch
    MaxCommits = 1
    Budgets <- Quiet
PROPERTY AnnotatedIsSynced
