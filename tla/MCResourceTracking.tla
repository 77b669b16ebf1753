------------------------ MODULE MCResourceTracking ------------------------
(* Instances of ResourceTracking for TLC.                                  *)
EXTENDS ResourceTracking, TLC

CONSTANT First  \* one of the GitSyncs

\* A Deployment and a Job: moved between two GitSyncs, added and removed.
TwoManifests == {"dep", "job"}
KindOfEach == [m \in TwoManifests |-> IF m = "dep"
                                      THEN [group |-> "apps", kind |-> "Deployment"]
                                      ELSE [group |-> "batch", kind |-> "Job"]]
SameNamespace == [g \in GitSyncs |-> "ns"]
OwnNames == [g \in GitSyncs |-> ToString(g)]
SameName == [g \in GitSyncs |-> "name"]

Layout(first, second) == [g \in GitSyncs |-> IF g = First THEN first ELSE second]
\* No manifest is in two GitSyncs of one destination at the same time.
SomeLayouts == { Layout({"dep"}, {}), Layout({}, {"dep"}),
                 Layout({"dep"}, {"job"}), Layout({"dep", "job"}, {}) }
NothingOrAll == {{}, Resources}

Both == <<Rule("apps", ""), Rule("batch", "Job")>>
OnlyApps == <<Rule("apps", "Deployment")>>
Unparsable == <<Rule("apps", ""), <<<<"kind", "Job">>>>>>
WithoutEquals == <<<<<<"group">>, <<"kind", "Job">>>>>>
SomeTexts == {Both, OnlyApps, Unparsable, WithoutEquals}

Nothing == [f \in BudgetFields |-> 0]
TrackingBudgets ==
    { [Nothing EXCEPT !["pushes"] = 1, !["faults"] = 1],
      [Nothing EXCEPT !["pushes"] = 1, !["deletes"] = 1],
      [Nothing EXCEPT !["deletes"] = 1, !["faults"] = 1],
      [Nothing EXCEPT !["deletes"] = 1, !["reloads"] = 1],
      [Nothing EXCEPT !["tampers"] = 1],
      [Nothing EXCEPT !["reloads"] = 2] }
Pushed == {[Nothing EXCEPT !["pushes"] = 1]}
Quiet == {Nothing}
=============================================================================
