\* The target is a tag and the files are built.
SPECIFICATION GSpec
CONSTANTS
    main = main
    dev = dev
    v1 = v1
    a1 = a1
    Users = {u1}
    Branches = {main, dev}
    Default = main
    MainNames = {main}
    Tags = {v1}
    Annotated = {}
    FirstTargets = {v1}
    Sources = {{"kustomize"}}
    NoBranch = NoBranch
    MaxCommits = 1
    Budgets <- Quiet
INVARIANT ManifestsMatchHash
