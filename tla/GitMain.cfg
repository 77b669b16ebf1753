\* The target is main and the default branch is another one.
SPECIFICATION FairGSpec
CONSTANTS
    main = main
    dev = dev
    v1 = v1
    a1 = a1
    Users = {u1}
    Branches = {main, dev}
    Default = dev
    MainNames = {main}
    Tags = {}
    Annotated = {}
    FirstTargets = {main}
    Sources = {{"raw"}}
    NoBranch = NoBranch
    MaxCommits = 1
    Budgets <- Quiet
PROPERTY FollowsMain
