\* The target is main, the default branch, and its history is rewritten.
SPECIFICATION FairGSpec
CONSTANTS
    main = main
    dev = dev
    v1 = v1
    a1 = a1
    Users = {u1}
    Branches = {main, dev}
    Default = main
    MainNames = {main}
    Tags = {}
    Annotated = {}
    FirstTargets = {main}
    Sources = {{"raw"}}
    NoBranch = NoBranch
    MaxCommits = 1
    Budgets <- OneRewrite
PROPERTY RewriteIsFollowed
