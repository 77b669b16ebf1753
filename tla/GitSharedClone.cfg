\* Two GitSyncs with the same name follow different branches in one clone.
SPECIFICATION GSpec
CONSTANTS
    main = main
    dev = dev
    v1 = v1
    a1 = a1
    Users = {u1, u2}
    Branches = {main, dev}
    Default = main
    MainNames = {main}
    Tags = {}
    Annotated = {}
    FirstTargets = {main, dev}
    Sources = {{"raw"}}
    NoBranch = NoBranch
    MaxCommits = 1
    Budgets <- Quiet
INVARIANT HashIsOfTarget
