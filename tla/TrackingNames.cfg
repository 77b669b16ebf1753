\* Two GitSyncs of the same name (in different namespaces) and one destination.
SPECIFICATION FairTSpec
CONSTANTS
    GitSyncs = {g1, g2}
    First = g1
    Made <- NothingOrAll
    NameOf <- SameName
    DestOf <- SameNamespace
    Manifests <- TwoManifests
    KindOf <- KindOfEach
    Layouts <- SomeLayouts
    Texts <- SomeTexts
    NoLabel = NoLabel
    Budgets <- Quiet
PROPERTIES TargetsApplied
\* A malformed filter keeps the process down.
CHECK_DEADLOCK FALSE
