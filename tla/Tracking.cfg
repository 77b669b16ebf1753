\* Two GitSyncs of one destination namespace, two manifests that move between
\* them, four texts of the filter, two of them malformed.
SPECIFICATION FairTSpec
CONSTANTS
    GitSyncs = {g1, g2}
    First = g1
    Made <- NothingOrAll
    NameOf <- OwnNames
    DestOf <- SameNamespace
    Manifests <- TwoManifests
    KindOf <- KindOfEach
    Layouts <- SomeLayouts
    Texts <- SomeTexts
    NoLabel = NoLabel
    Budgets <- TrackingBudgets
INVARIANTS TTypeOK LabelHasOwner FilterFollowsFormat
PROPERTIES ForeignIsUntouched TargetsApplied
\* A malformed filter keeps the process down.
CHECK_DEADLOCK FALSE
