---------------------------- MODULE MCNumaplane ----------------------------
(* Instances of Numaplane for TLC.                                         *)
EXTENDS Numaplane, TLC

\* Specs: two paths of the repository on this cluster, one on another cluster,
\* one that validate() refuses.
PathA == [cluster |-> "ours", valid |-> TRUE, path |-> "a"]
PathB == [cluster |-> "ours", valid |-> TRUE, path |-> "b"]
Elsewhere == [cluster |-> "other", valid |-> TRUE, path |-> "a"]
Invalid == [cluster |-> "ours", valid |-> FALSE, path |-> "a"]

OnePath == {PathA}
TwoPaths == {PathA, PathB}
PathOrElsewhere == {PathA, Elsewhere}
OneOrUnusable == {PathA, Elsewhere, Invalid}
PathOrInvalid == {PathA, Invalid}

\* Two resources.  The second commit changes one of them under path a, and path
\* b has only the other one.
TwoResources == {"r1", "r2"}
TwoContents == {"x", "y"}
TwoManifests ==
    [a |-> [h \in Hashes |-> [r1 |-> IF h = 1 THEN "x" ELSE "y", r2 |-> "x"]],
     b |-> [h \in Hashes |-> [r1 |-> Absent, r2 |-> IF h = 1 THEN "x" ELSE "y"]]]

\* Two resources, both of which the second commit changes.
BothChange == [a |-> [h \in Hashes |-> [r \in TwoResources |-> IF h = 1 THEN "x" ELSE "y"]]]

\* One resource, where the resources do not matter.
OneResource == {"r1"}
OneContent == {"x"}
OneManifest == [a |-> [h \in Hashes |-> [r1 |-> "x"]]]

\* Configurations.
Healing == [automatedSyncDisabled |-> FALSE, autoHealDisabled |-> FALSE, cascadeDeletion |-> FALSE]
NoHealing == [Healing EXCEPT !.autoHealDisabled = TRUE]
Cascading == [Healing EXCEPT !.cascadeDeletion = TRUE]
Paused == [Healing EXCEPT !.automatedSyncDisabled = TRUE]
OnlyHealing == {Healing}
OnlyNoHealing == {NoHealing}
OnlyCascading == {Cascading}
CascadingOrNot == {Cascading, NoHealing, Paused}

\* Workers are interchangeable: sound for invariants and action properties.
WorkerSymmetry == Permutations(Workers)

\* Budgets of the environment: what may happen, in any order, in one behaviour.
Nothing == [f \in BudgetFields |-> 0]
Created == [Nothing EXCEPT !["creates"] = 1]

SafetyBudgets ==
    { [Created EXCEPT !["deletes"] = 1, !["pushes"] = 1],
      [Created EXCEPT !["edits"] = 1, !["faults"] = 1],
      [Created EXCEPT !["edits"] = 1, !["deletes"] = 1],
      [Created EXCEPT !["edits"] = 1, !["restarts"] = 1],
      [Created EXCEPT !["deletes"] = 1, !["restarts"] = 1],
      [Created EXCEPT !["creates"] = 2, !["deletes"] = 1] }

ConvergeBudgets ==
    { [Created EXCEPT !["edits"] = 1],
      [Created EXCEPT !["pushes"] = 1],
      [Created EXCEPT !["faults"] = 1],
      [Created EXCEPT !["drifts"] = 1],
      [Created EXCEPT !["restarts"] = 1] }

DeletionBudgets ==
    { [Created EXCEPT !["edits"] = 1, !["deletes"] = 1],
      [Created EXCEPT !["deletes"] = 1, !["faults"] = 1],
      [Created EXCEPT !["deletes"] = 1, !["restarts"] = 1],
      [Created EXCEPT !["drifts"] = 1, !["reloads"] = 1],
      [Created EXCEPT !["drifts"] = 1, !["restarts"] = 1] }

CreatePush == {[Created EXCEPT !["pushes"] = 1]}
CreateFault == {[Created EXCEPT !["faults"] = 1]}
CreateEdit == {[Created EXCEPT !["edits"] = 1]}
CreateDelete == {[Created EXCEPT !["deletes"] = 1]}
CreateEditDelete == {[Created EXCEPT !["edits"] = 1, !["deletes"] = 1]}
DeleteRecreate == {[Created EXCEPT !["creates"] = 2, !["deletes"] = 1]}
=============================================================================
