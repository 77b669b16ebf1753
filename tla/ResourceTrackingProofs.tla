----------------------- MODULE ResourceTrackingProofs -----------------------
(***************************************************************************)
(* Proofs about resource tracking, for any set of GitSyncs (also of equal  *)
(* names and destinations), manifests, layouts of the repository, filters  *)
(* and budgets: a tracking label is always one that a sync of the resource *)
(* has put there, and nothing else is ever changed or deleted, however far *)
(* the cluster cache lags behind.                                          *)
(***************************************************************************)
EXTENDS ResourceTracking, TLAPS

\* r is, or was, in git for g or for a GitSync of the same name.
OwnedUnder(n, r) == \E h \in GitSyncs : NameOf[h] = n /\ r \in ever[h]

\* The history covers what git holds.
LayoutInv == \A g \in GitSyncs : Place(g, layout[g]) \subseteq ever[g]

\* A run applies what its GitSync had in git, and prunes what had its label.
RunInv == \A g \in GitSyncs :
             /\ run[g].target \subseteq ever[g]
             /\ run[g].apply \subseteq ever[g]
             /\ \A r \in run[g].prune : OwnedUnder(NameOf[g], r)

\* The inductive invariant.
TInv == TTypeOK /\ LayoutInv /\ RunInv /\ LabelHasOwner

\* The manifests of a GitSync are resources.
LEMMA PlaceIsResources ==
    ASSUME NEW g \in GitSyncs, NEW ms \in SUBSET Manifests
    PROVE  Place(g, ms) \in SUBSET Resources
BY DEF Place, Resources

\* Every set of labels and contents that the actions write is a resource state.
LEMMA StatesOfResources ==
    /\ Absent \in ResourceStates /\ Unlabelled \in ResourceStates
    /\ \A g \in GitSyncs : Desired(g) \in ResourceStates
    /\ \A v \in ResourceStates : v # Absent => [v EXCEPT !.content = "other"] \in ResourceStates
BY DEF Absent, Unlabelled, Desired, ResourceStates, Names

\* No run is a run, and any part of a run may be replaced by one of its type.
LEMMA NoRunIsRun == NoRun \in Runs
BY DEF NoRun, Runs

\* Initially nothing has a label.
LEMMA InitEstablishesTInv == TInit => TInv
<1> SUFFICES ASSUME TInit PROVE TInv
    OBVIOUS
<1> USE DEF TInit
<1>1. layout \in [GitSyncs -> SUBSET Manifests]
      BY LayoutsAssumption
<1>2. ever \in [GitSyncs -> SUBSET Resources]
      BY <1>1, PlaceIsResources
<1>3. PICK rs \in Made :
         cluster = [r \in Resources |-> IF r \in rs THEN Unlabelled ELSE Absent]
      OBVIOUS
<1>4. cluster \in [Resources -> ResourceStates] /\ cached = cluster
      BY <1>3, StatesOfResources
<1>5. TTypeOK
      BY <1>1, <1>2, <1>4, NoRunIsRun, TrackingBudgetsAssumption DEF TTypeOK
<1>6. \A r \in Resources : cluster[r].label = NoLabel
      BY <1>3 DEF Unlabelled, Absent
<1>7. LabelHasOwner
      BY <1>4, <1>6 DEF LabelHasOwner
<1>8. LayoutInv /\ RunInv
      BY DEF LayoutInv, RunInv, NoRun
<1> QED
    BY <1>5, <1>7, <1>8 DEF TInv

-----------------------------------------------------------------------------
(* What the cluster and the cache hold after a step.                       *)

\* Whichever state of the cluster the controller looks at, what it takes for
\* managed by g was in git for a GitSync of this name.
LEMMA ManagedIsOwned ==
    ASSUME TInv, NEW g \in GitSyncs, NEW types
    PROVE  /\ Managed(g, types, CacheInUse) \subseteq Resources
           /\ \A r \in Managed(g, types, CacheInUse) : OwnedUnder(NameOf[g], r)
<1>1. CacheInUse = cached \/ CacheInUse = cluster
      BY DEF CacheInUse
<1>2. NameOf[g] # NoLabel
      BY NamesAssumption DEF Names
<1> QED
    BY <1>1, <1>2 DEF TInv, LabelHasOwner, Managed, OwnedUnder

\* The cache in use is a cache.
LEMMA CacheInUseOK ==
    ASSUME TTypeOK
    PROVE  /\ CacheInUse \in [Resources -> ResourceStates]
           /\ \A r \in Resources : CacheInUse[r] \in {cached[r], cluster[r]}
BY DEF CacheInUse, TTypeOK

\* The history only grows, and it covers what git holds after a push.
LEMMA HistoryGrows ==
    ASSUME TInv, [TNext]_vars
    PROVE  /\ layout' \in [GitSyncs -> SUBSET Manifests]
           /\ ever' \in [GitSyncs -> SUBSET Resources]
           /\ \A g \in GitSyncs : ever[g] \subseteq ever'[g]
           /\ LayoutInv'
<1>1. layout \in [GitSyncs -> SUBSET Manifests] /\ ever \in [GitSyncs -> SUBSET Resources]
      BY DEF TInv, TTypeOK
<1>2. CASE Push
  <2>1. layout' \in [GitSyncs -> SUBSET Manifests]
        BY <1>2, LayoutsAssumption DEF Push
  <2>2. \A g \in GitSyncs : Place(g, layout'[g]) \in SUBSET Resources
        BY <2>1, PlaceIsResources
  <2>3. ever' = [g \in GitSyncs |-> ever[g] \cup Place(g, layout'[g])]
        BY <1>2 DEF Push
  <2>4. ever' \in [GitSyncs -> SUBSET Resources]
        BY <1>1, <2>2, <2>3
  <2>5. \A g \in GitSyncs : ever[g] \subseteq ever'[g] /\ Place(g, layout'[g]) \subseteq ever'[g]
        BY <1>1, <2>3
  <2> QED
      BY <2>1, <2>4, <2>5 DEF LayoutInv, Place
<1>3. CASE UNCHANGED <<layout, ever>>
      BY <1>1, <1>3 DEF TInv, LayoutInv, Place
<1>4. Push \/ UNCHANGED <<layout, ever>>
      BY DEF TNext, vars, SyncStep, Fetch, Compare, PruneStep, ApplyStep, SyncFails,
             MarkDeleted, CascadeDeletion, CascadeFails, CacheSees, Tamper, Restart, Reconfigure
<1> QED
    BY <1>2, <1>3, <1>4

\* Who had a resource in git keeps having had it.
LEMMA OwnedStays ==
    ASSUME TInv, [TNext]_vars, NEW n, NEW r, OwnedUnder(n, r)
    PROVE  OwnedUnder(n, r)'
BY HistoryGrows DEF OwnedUnder

\* What a step can make of a resource in the cluster: only an apply of a
\* GitSync that had it in git, the deletion of an owned one, or somebody's
\* hand (which never writes a label) changes it.
ChangeOK(r) ==
    \/ cluster'[r] = cluster[r]
    \/ \E g \in GitSyncs : r \in ever[g] /\ cluster'[r] = Desired(g)
    \/ cluster'[r] = Absent /\ \E n \in Names : OwnedUnder(n, r)
    \/ /\ budget'["tampers"] # budget["tampers"]
       /\ cluster'[r] = Absent \/ cluster'[r] = [cluster[r] EXCEPT !.content = "other"]

\* The deletion of owned resources is such a change.
LEMMA DeletesOwned ==
    ASSUME TInv, NEW n \in Names, NEW rs, Delete(rs), \A r \in rs : OwnedUnder(n, r)
    PROVE  /\ cluster' \in [Resources -> ResourceStates]
           /\ \A r \in Resources : ChangeOK(r)
<1>1. cluster' \in [Resources -> ResourceStates]
      BY StatesOfResources DEF Delete, TInv, TTypeOK
<1>2. \A r \in Resources : ChangeOK(r)
      BY DEF Delete, ChangeOK
<1> QED
    BY <1>1, <1>2

\* So is the application of targets.
LEMMA AppliesOwned ==
    ASSUME TInv, NEW g \in GitSyncs, NEW rs \in SUBSET run[g].apply, Apply(g, rs)
    PROVE  /\ cluster' \in [Resources -> ResourceStates]
           /\ \A r \in Resources : ChangeOK(r)
<1>1. \A r \in Resources : cluster'[r] = IF r \in rs THEN Desired(g) ELSE cluster[r]
      BY DEF Apply
<1>2. rs \subseteq ever[g]
      BY DEF TInv, RunInv
<1>3. cluster' \in [Resources -> ResourceStates]
      BY StatesOfResources DEF Apply, TInv, TTypeOK
<1>4. \A r \in Resources : ChangeOK(r)
      BY <1>1, <1>2 DEF ChangeOK
<1> QED
    BY <1>3, <1>4

\* No step does anything else to the cluster.
LEMMA StepChangesOwned ==
    ASSUME TInv, [TNext]_vars
    PROVE  /\ cluster' \in [Resources -> ResourceStates]
           /\ \A r \in Resources : ChangeOK(r)
<1> DEFINE Good == /\ cluster' \in [Resources -> ResourceStates]
                   /\ \A r \in Resources : ChangeOK(r)
<1> SUFFICES Good
    OBVIOUS
<1>1. CASE UNCHANGED cluster
      BY <1>1 DEF TInv, TTypeOK, ChangeOK
<1>2. ASSUME NEW g \in GitSyncs, PruneStep(g)
      PROVE  Good
      BY <1>2, DeletesOwned DEF PruneStep, TInv, RunInv, Names
<1>3. ASSUME NEW g \in GitSyncs, ApplyStep(g)
      PROVE  Good
      BY <1>3, AppliesOwned DEF ApplyStep
<1>4. ASSUME NEW g \in GitSyncs, SyncFails(g)
      PROVE  Good
  <2>1. CASE \E rs \in SUBSET run[g].prune : Delete(rs)
    <3>1. PICK rs \in SUBSET run[g].prune : Delete(rs)
          BY <2>1
    <3> QED
        BY <3>1, DeletesOwned DEF TInv, RunInv, Names
  <2>2. CASE \E rs \in SUBSET run[g].apply : Apply(g, rs)
        BY <2>2, AppliesOwned
  <2> QED
      BY <1>4, <2>1, <2>2 DEF SyncFails
<1>5. ASSUME NEW g \in GitSyncs, CascadeDeletion(g)
      PROVE  Good
  <2>1. CASE Dies
        BY <2>1, <1>1 DEF Dies
  <2>2. CASE Delete(Managed(g, Loaded.types, CacheInUse))
        BY <2>2, DeletesOwned, ManagedIsOwned DEF Names
  <2> QED
      BY <1>5, <2>1, <2>2 DEF CascadeDeletion
<1>6. ASSUME NEW g \in GitSyncs, CascadeFails(g)
      PROVE  Good
  <2>1. PICK rs \in SUBSET Managed(g, Loaded.types, CacheInUse) : Delete(rs)
        BY <1>6 DEF CascadeFails
  <2> QED
      BY <2>1, DeletesOwned, ManagedIsOwned DEF Names
<1>7. ASSUME NEW r \in Resources, Tamper(r)
      PROVE  Good
  <2>1. PICK v \in {Absent, [cluster[r] EXCEPT !.content = "other"]} :
           cluster' = [cluster EXCEPT ![r] = v]
        BY <1>7 DEF Tamper
  <2>2. v \in ResourceStates
        BY <1>7, <2>1, StatesOfResources DEF Tamper, TInv, TTypeOK
  <2>3. cluster' \in [Resources -> ResourceStates]
        BY <2>1, <2>2 DEF TInv, TTypeOK
  <2>4. budget'["tampers"] # budget["tampers"]
        BY <1>7 DEF Tamper, Spend, TInv, TTypeOK, BudgetFields
  <2>5. \A q \in Resources : ChangeOK(q)
        BY <2>1, <2>4 DEF ChangeOK, TInv, TTypeOK
  <2> QED
      BY <2>3, <2>5
<1> QED
    BY <1>1, <1>2, <1>3, <1>4, <1>5, <1>6, <1>7
    DEF TNext, vars, SyncStep, Fetch, Compare, Dies, MarkDeleted, CacheSees, Restart,
        Push, Reconfigure

\* No step puts anything into the cache that was not there or in the cluster.
LEMMA StepKeepsCache ==
    ASSUME TInv, [TNext]_vars
    PROVE  /\ cached' \in [Resources -> ResourceStates]
           /\ \A r \in Resources : cached'[r] \in {cached[r], cluster[r]}
<1>1. \/ cached' = cached \/ cached' = CacheInUse \/ cached' = cluster
      \/ \E r \in Resources : cached' = [cached EXCEPT ![r] = cluster[r]]
      BY DEF TNext, vars, SyncStep, Fetch, Compare, Dies, PruneStep, ApplyStep, SyncFails,
             MarkDeleted, CascadeDeletion, CascadeFails, CacheSees, Tamper, Restart,
             Push, Reconfigure
<1>2. TTypeOK
      BY DEF TInv
<1> QED
    BY <1>1, <1>2, CacheInUseOK DEF TTypeOK

\* Labels keep their owners.
LEMMA StepKeepsLabelHasOwner ==
    ASSUME TInv, [TNext]_vars
    PROVE  LabelHasOwner'
<1>1. \A r \in Resources : \A n : OwnedUnder(n, r) => OwnedUnder(n, r)'
      BY OwnedStays
<1>2. \A r \in Resources : /\ cluster[r].label # NoLabel => OwnedUnder(cluster[r].label, r)
                           /\ cached[r].label # NoLabel => OwnedUnder(cached[r].label, r)
      BY DEF TInv, LabelHasOwner, OwnedUnder
<1>3. ASSUME NEW r \in Resources, cluster'[r].label # NoLabel
      PROVE  OwnedUnder(cluster'[r].label, r)
  <2>1. cluster'[r] # Absent
        BY <1>3 DEF Absent
  <2>2. CASE cluster'[r] = cluster[r]
        BY <1>2, <1>3, <2>2
  <2>3. CASE \E g \in GitSyncs : r \in ever[g] /\ cluster'[r] = Desired(g)
        BY <2>3 DEF Desired, OwnedUnder
  <2>4. CASE cluster'[r] = [cluster[r] EXCEPT !.content = "other"]
    <3>1. cluster[r] \in ResourceStates
          BY DEF TInv, TTypeOK
    <3>2. cluster'[r].label = cluster[r].label
          BY <2>4, <3>1 DEF ResourceStates, Absent
    <3> QED
        BY <1>2, <1>3, <3>2
  <2> QED
      BY <2>1, <2>2, <2>3, <2>4, StepChangesOwned DEF ChangeOK
<1>4. ASSUME NEW r \in Resources, cached'[r].label # NoLabel
      PROVE  OwnedUnder(cached'[r].label, r)
      BY <1>2, <1>4, StepKeepsCache
<1> QED
    BY <1>1, <1>3, <1>4 DEF LabelHasOwner, OwnedUnder

-----------------------------------------------------------------------------
(* The runs and the types.                                                 *)

\* The parts of a run may be replaced by others of their types.
LEMMA EditedRun ==
    ASSUME NEW f \in [GitSyncs -> Runs], NEW g \in GitSyncs,
           NEW a \in SUBSET Resources, NEW b \in SUBSET Resources
    PROVE  /\ [f EXCEPT ![g].pc = "compare", ![g].target = a] \in [GitSyncs -> Runs]
           /\ [f EXCEPT ![g].pc = "prune", ![g].prune = a, ![g].apply = b]
                 \in [GitSyncs -> Runs]
           /\ [f EXCEPT ![g].pc = "apply", ![g].prune = {}] \in [GitSyncs -> Runs]
<1> DEFINE S == SUBSET Resources
<1>1. {} \in S /\ a \in S /\ b \in S
      OBVIOUS
<1>2. Runs = [pc : {"out", "compare", "prune", "apply"}, target : S, prune : S, apply : S]
      BY DEF Runs
<1> HIDE DEF S
<1>3. [f EXCEPT ![g].pc = "compare", ![g].target = a] \in [GitSyncs -> Runs]
      BY <1>1, <1>2
<1>4. [f EXCEPT ![g].pc = "prune", ![g].prune = a, ![g].apply = b] \in [GitSyncs -> Runs]
      BY <1>1, <1>2
<1>5. [f EXCEPT ![g].pc = "apply", ![g].prune = {}] \in [GitSyncs -> Runs]
      BY <1>1, <1>2
<1> QED
    BY <1>3, <1>4, <1>5

\* Any step leaves every run as it was, ends it, or is one of the three that
\* fetch, compare and prune for one GitSync.
LEMMA StepKeepsRuns ==
    ASSUME TInv, [TNext]_vars
    PROVE  /\ run' \in [GitSyncs -> Runs]
           /\ RunInv'
           /\ ~up' => run' = [g \in GitSyncs |-> NoRun]
<1> DEFINE Kept(h, f) == /\ f.target \subseteq ever[h]
                      /\ f.apply \subseteq ever[h]
                      /\ \A r \in f.prune : OwnedUnder(NameOf[h], r)
<1> USE DEF Kept
<1>0. /\ run \in [GitSyncs -> Runs]
      /\ ever \in [GitSyncs -> SUBSET Resources]
      /\ \A h \in GitSyncs : Kept(h, run[h]) /\ Kept(h, NoRun)
      BY DEF TInv, TTypeOK, RunInv, NoRun
<1>1. SUFFICES /\ run' \in [GitSyncs -> Runs]
               /\ \A h \in GitSyncs : Kept(h, run'[h])
               /\ ~up' => run' = [g \in GitSyncs |-> NoRun]
  <2>1. ASSUME NEW h \in GitSyncs, Kept(h, run'[h])
        PROVE  /\ run'[h].target \subseteq ever'[h]
               /\ run'[h].apply \subseteq ever'[h]
               /\ \A r \in run'[h].prune : OwnedUnder(NameOf[h], r)'
        BY <2>1, HistoryGrows, OwnedStays
  <2> QED
      BY <2>1 DEF RunInv, OwnedUnder
<1>2. CASE UNCHANGED <<run, up>>
      BY <1>0, <1>2 DEF TInv, TTypeOK
<1>3. CASE run' = [g \in GitSyncs |-> NoRun]
      BY <1>0, <1>3, NoRunIsRun
<1>4. ASSUME NEW g \in GitSyncs, run' = [run EXCEPT ![g] = NoRun], up' = up, up = TRUE
      PROVE  /\ run' \in [GitSyncs -> Runs]
             /\ \A h \in GitSyncs : Kept(h, run'[h])
             /\ up' = TRUE
      BY <1>0, <1>4, NoRunIsRun
<1>5. ASSUME NEW g \in GitSyncs, Fetch(g)
      PROVE  /\ run' \in [GitSyncs -> Runs]
             /\ \A h \in GitSyncs : Kept(h, run'[h])
             /\ up' = TRUE
  <2>1. Place(g, layout[g]) \in SUBSET Resources /\ Place(g, layout[g]) \subseteq ever[g]
        BY PlaceIsResources DEF TInv, TTypeOK, LayoutInv
  <2>2. run' = [run EXCEPT ![g].pc = "compare", ![g].target = Place(g, layout[g])]
        BY <1>5 DEF Fetch
  <2>3. run' \in [GitSyncs -> Runs]
        BY <2>1, <2>2, EditedRun DEF TInv, TTypeOK
  <2>4. \A h \in GitSyncs : Kept(h, run'[h])
        BY <1>0, <2>1, <2>2 DEF Runs
  <2>5. up' = TRUE
        BY <1>5 DEF Fetch, TInv, TTypeOK
  <2> QED
      BY <2>3, <2>4, <2>5
<1>6. ASSUME NEW g \in GitSyncs, Compare(g), ~Dies
      PROVE  /\ run' \in [GitSyncs -> Runs]
             /\ \A h \in GitSyncs : Kept(h, run'[h])
             /\ up' = TRUE
  <2> DEFINE P == Managed(g, Loaded.types, CacheInUse) \ run[g].target
             A == {r \in run[g].target : Differs(g, LiveObj(r, Loaded.types, CacheInUse))}
  <2>1. P \in SUBSET Resources /\ \A r \in P : OwnedUnder(NameOf[g], r)
        BY ManagedIsOwned
  <2>2. A \in SUBSET Resources /\ A \subseteq ever[g]
        BY <1>0 DEF Runs
  <2>3. run' = [run EXCEPT ![g].pc = "prune", ![g].prune = P, ![g].apply = A]
        BY <1>6 DEF Compare
  <2> HIDE DEF P, A
  <2>4. run' \in [GitSyncs -> Runs]
    <3>1. /\ run \in [GitSyncs -> Runs]
          /\ P \in SUBSET Resources /\ A \in SUBSET Resources
          BY <1>0, <2>1, <2>2
    <3>2. [run EXCEPT ![g].pc = "prune", ![g].prune = P, ![g].apply = A] \in [GitSyncs -> Runs]
          BY <3>1, EditedRun
    <3> QED
        BY <2>3, <3>2
  <2>5. \A h \in GitSyncs : Kept(h, run'[h])
        BY <1>0, <2>1, <2>2, <2>3 DEF Runs
  <2>6. up' = TRUE
        BY <1>6 DEF Compare, TInv, TTypeOK
  <2> QED
      BY <2>4, <2>5, <2>6
<1>7. ASSUME NEW g \in GitSyncs, PruneStep(g)
      PROVE  /\ run' \in [GitSyncs -> Runs]
             /\ \A h \in GitSyncs : Kept(h, run'[h])
             /\ up' = TRUE
  <2>1. run' = [run EXCEPT ![g].pc = "apply", ![g].prune = {}]
        BY <1>7 DEF PruneStep
  <2>2. run' \in [GitSyncs -> Runs]
        BY <2>1, EditedRun DEF TInv, TTypeOK
  <2>3. \A h \in GitSyncs : Kept(h, run'[h])
        BY <1>0, <2>1 DEF Runs
  <2>4. up' = TRUE
        BY <1>7 DEF PruneStep, TInv, TTypeOK
  <2> QED
      BY <2>2, <2>3, <2>4
<1>8. ASSUME NEW g \in GitSyncs, ApplyStep(g) \/ SyncFails(g)
      PROVE  run' = [run EXCEPT ![g] = NoRun] /\ up' = up /\ up = TRUE
      BY <1>8 DEF ApplyStep, SyncFails, TInv, TTypeOK
<1>9. CASE Restart
  <2>1. run' = run /\ up' = TRUE
        BY <1>9 DEF Restart
  <2> QED
      BY <1>0, <2>1
<1>10. Dies => run' = [g \in GitSyncs |-> NoRun]
      BY DEF Dies
<1>11. ASSUME NEW g \in GitSyncs, CascadeDeletion(g), ~Dies
      PROVE  UNCHANGED <<run, up>>
      BY <1>11 DEF CascadeDeletion
<1> QED
    BY <1>2, <1>3, <1>4, <1>5, <1>6, <1>7, <1>8, <1>9, <1>10, <1>11
    DEF TNext, vars, SyncStep, MarkDeleted, CascadeFails, CacheSees, Tamper, Push, Reconfigure

\* Every step keeps the types.
LEMMA StepKeepsTTypeOK ==
    ASSUME TInv, [TNext]_vars
    PROVE  TTypeOK'
<1>0. \A f \in BudgetFields : Spend(f) => budget' \in [BudgetFields -> Nat]
      BY DEF Spend, TInv, TTypeOK
<1> USE DEF TNext, vars, SyncStep, Fetch, Compare, Dies, PruneStep, ApplyStep, SyncFails,
            MarkDeleted, CascadeDeletion, CascadeFails, CacheSees, Tamper, Restart,
            Push, Reconfigure
<1>1. exists' \subseteq GitSyncs /\ deleting' \subseteq exists'
      BY DEF TInv, TTypeOK
<1>2. text' \in Texts
      BY DEF TInv, TTypeOK
<1>3. up' \in BOOLEAN
      BY DEF TInv, TTypeOK
<1>4. budget' \in [BudgetFields -> Nat]
  <2>1. budget' = budget \/ \E f \in BudgetFields : Spend(f)
        BY DEF BudgetFields
  <2> QED
      BY <1>0, <2>1 DEF TInv, TTypeOK
<1> QED
    BY <1>1, <1>2, <1>3, <1>4, HistoryGrows, StepChangesOwned, StepKeepsCache, StepKeepsRuns
    DEF TTypeOK

-----------------------------------------------------------------------------
\* The inductive invariant of resource tracking.
THEOREM TrackingInvariant == TSpec => []TInv
<1>1. TInv /\ [TNext]_vars => TInv'
      BY HistoryGrows, StepKeepsRuns, StepKeepsTTypeOK, StepKeepsLabelHasOwner DEF TInv
<1> QED
    BY InitEstablishesTInv, <1>1, PTL DEF TSpec

\* Every variable keeps its type, and a process that has ended runs nothing.
THEOREM TrackingTypes == TSpec => []TTypeOK
<1>1. TInv => TTypeOK
      BY DEF TInv
<1> QED
    BY TrackingInvariant, <1>1, PTL

\* A tracking label in the cluster or in the lagging cache is that of a GitSync
\* which has had the resource in git.
THEOREM LabelsAreEarned == TSpec => []LabelHasOwner
<1>1. TInv => LabelHasOwner
      BY DEF TInv
<1> QED
    BY TrackingInvariant, <1>1, PTL

\* Syncs, pruning and cascade deletion never touch a resource that no GitSync
\* has had in git.
THEOREM ForeignIsSafe == TSpec => ForeignIsUntouched
<1>1. ASSUME TInv, [TNext]_vars, NEW r \in Resources,
             cluster'[r] # cluster[r], budget'["tampers"] = budget["tampers"]
      PROVE  \E g \in GitSyncs : r \in ever[g]
  <2>1. ChangeOK(r)
        BY <1>1, StepChangesOwned
  <2> QED
      BY <1>1, <2>1 DEF ChangeOK, OwnedUnder
<1>2. TInv /\ [TNext]_vars
         => [\A r \in Resources :
               cluster'[r] # cluster[r] /\ budget'["tampers"] = budget["tampers"]
                  => \E g \in GitSyncs : r \in ever[g]]_vars
      BY <1>1
<1> QED
    BY TrackingInvariant, <1>2, PTL DEF TSpec, ForeignIsUntouched

-----------------------------------------------------------------------------
(* The resource filter.                                                    *)

\* A rule of the documented format is good, and its second words are its group
\* and its kind.
LEMMA DocumentedRule ==
    ASSUME NEW group, NEW kind
    PROVE  /\ RuleVerdict(Rule(group, kind)) = "ok"
           /\ Rule(group, kind)[1][2] = group
           /\ Rule(group, kind)[2][2] = kind
BY DEF RuleVerdict, Rule, GroupWords, KindWords

\* If every rule is good then the filter is loaded, rule by rule.
LEMMA GoodRulesAreLoaded ==
    ASSUME \A i \in DOMAIN text : RuleVerdict(text[i]) = "ok"
    PROVE  /\ Loaded.outcome = "ok"
           /\ Loaded.types = [i \in DOMAIN text |->
                                 [group |-> text[i][1][2], kind |-> text[i][2][2]]]
<1>1. {i \in DOMAIN text : RuleVerdict(text[i]) # "ok"} = {}
      OBVIOUS
<1> QED
    BY <1>1 DEF Loaded, ParseResourceFilter

\* For texts of any length, of any groups and kinds: the documented format is
\* accepted and means what it says.
THEOREM FilterIsAsDocumented == TSpec => []FilterFollowsFormat
<1>1. FilterFollowsFormat
  <2> SUFFICES ASSUME \A i \in DOMAIN text :
                         \E gk \in Groups \X Kinds : text[i] = Rule(gk[1], gk[2])
               PROVE  /\ Loaded.outcome = "ok"
                      /\ \A r \in Resources :
                            Watched(Loaded.types, r)
                               <=> \E i \in DOMAIN text :
                                      text[i] \in {Rule(KindOf[r[2]].group, KindOf[r[2]].kind),
                                                   Rule(KindOf[r[2]].group, "")}
      BY DEF FilterFollowsFormat
  <2>1. \A i \in DOMAIN text : /\ RuleVerdict(text[i]) = "ok"
                               /\ text[i] = Rule(text[i][1][2], text[i][2][2])
        BY DocumentedRule
  <2>2. /\ Loaded.outcome = "ok"
        /\ Loaded.types = [i \in DOMAIN text |->
                              [group |-> text[i][1][2], kind |-> text[i][2][2]]]
        BY <2>1, GoodRulesAreLoaded
  <2>3. ASSUME NEW r \in Resources, NEW k, k = KindOf[r[2]]
        PROVE  Watched(Loaded.types, r)
                  <=> \E i \in DOMAIN text :
                         text[i] \in {Rule(k.group, k.kind), Rule(k.group, "")}
    <3> DEFINE G(i) == text[i][1][2]
               K(i) == text[i][2][2]
    <3>1. Watched(Loaded.types, r)
             <=> \E i \in DOMAIN text : G(i) = k.group /\ K(i) \in {"", k.kind}
      <4> DEFINE T == [i \in DOMAIN text |-> [group |-> G(i), kind |-> K(i)]]
      <4>1. Loaded.types = T
            BY <2>2
      <4>2. DOMAIN T = DOMAIN text /\ \A i \in DOMAIN text : T[i].group = G(i) /\ T[i].kind = K(i)
            OBVIOUS
      <4> HIDE DEF T, G, K
      <4>3. Watched(T, r) <=> \E i \in DOMAIN T : T[i].group = k.group /\ T[i].kind \in {"", k.kind}
            BY <2>3 DEF Watched, IsExcludedResource
      <4> QED
          BY <4>1, <4>2, <4>3
    <3>2. ASSUME NEW i \in DOMAIN text
          PROVE  text[i] \in {Rule(k.group, k.kind), Rule(k.group, "")}
                    <=> G(i) = k.group /\ K(i) \in {"", k.kind}
      <4>1. text[i] = Rule(G(i), K(i))
            BY <2>1
      <4>2. Rule(G(i), K(i)) = Rule(k.group, k.kind) <=> G(i) = k.group /\ K(i) = k.kind
            BY DEF Rule
      <4>3. Rule(G(i), K(i)) = Rule(k.group, "") <=> G(i) = k.group /\ K(i) = ""
            BY DEF Rule
      <4> HIDE DEF G, K
      <4> QED
          BY <4>1, <4>2, <4>3
    <3> QED
        BY <3>1, <3>2
  <2> QED
      BY <2>2, <2>3
<1> QED
    BY <1>1, PTL
=============================================================================
