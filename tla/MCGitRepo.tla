----------------------------- MODULE MCGitRepo -----------------------------
(* Instances of GitRepo for TLC: two branches, a plain and an annotated tag. *)
EXTENDS GitRepo

CONSTANTS main, dev, v1, a1

\* The revisions users ask for: every branch and tag, the commit the branches
\* start from, and one that is made later.
AllTargets == {main, dev, v1, a1, <<main, 0>>, <<dev, 1>>}

Nothing == [f \in BudgetFields |-> 0]
\* A change of the target with a failure and a restart, or with a forced push.
Mixed == { [Nothing EXCEPT !["edits"] = 1, !["faults"] = 1, !["crashes"] = 1],
           [Nothing EXCEPT !["rewrites"] = 1, !["edits"] = 1],
           [Nothing EXCEPT !["rewrites"] = 1, !["faults"] = 1] }
Quiet == {Nothing}
OneCrash == {[Nothing EXCEPT !["crashes"] = 1]}
OneRewrite == {[Nothing EXCEPT !["rewrites"] = 1]}
=============================================================================
