------------------------------ MODULE KubeApi ------------------------------
(***************************************************************************)
(* The Kubernetes API as the controller uses it: the stored GitSync        *)
(* objects with optimistic concurrency (resourceVersion), the informer     *)
(* cache that every client.Get of the manager's client reads and that lags *)
(* behind, and the work queue of the controller with its                   *)
(* GenerationChangedPredicate.  All of it is external code.                *)
(***************************************************************************)
EXTENDS Naturals, Sequences, FiniteSets

CONSTANTS
    Keys,         \* the "namespace/name" keys of GitSync objects
    NoKey,        \* no key
    ClusterName,  \* GlobalConfig.ClusterName
    Specs,        \* the GitSyncSpecs users write: [cluster, valid, path]
    Hashes,       \* the commit hashes of the target revision, 1 .. Commits
    Budgets       \* how often the environment does what (see below)

(***************************************************************************)
(* The environment is bounded by counters that only its actions consume:   *)
(* creates, edits and deletes by users, pushes to git, drifts of live      *)
(* resources, faults (failed calls), reloads of the configuration, and     *)
(* restarts of the controller.                                             *)
(***************************************************************************)
BudgetFields == {"creates", "edits", "deletes", "pushes", "drifts",
                 "faults", "reloads", "restarts"}

ASSUME KeysAssumption == NoKey \notin Keys
ASSUME SpecsAssumption == \A s \in Specs : s.valid \in BOOLEAN
ASSUME HashesAssumption == 0 \notin Hashes
ASSUME FirstHashAssumption == \E h \in Hashes : \A g \in Hashes : h <= g
ASSUME BudgetsAssumption == Budgets \subseteq [BudgetFields -> Nat]

VARIABLES
    versions,  \* versions[k]: the states of the object from the one the
               \* informer has seen (first) to the stored one (last)
    requests,  \* the work queue: keys for which Reconcile is due
    budget     \* what is left of one of the Budgets

apiVars == <<versions, requests, budget>>

NoSpec == [cluster |-> "", valid |-> FALSE, path |-> ""]
NoCommit == [hash |-> 0, synced |-> FALSE]

\* CommitStatus: SyncTime is left out, Error is set exactly when Synced is false.
Commits == [hash : Hashes, synced : BOOLEAN] \cup {NoCommit}
\* Phase stands for the whole of what SetPhase and the Mark functions write:
\* Message and the condition Configured (True for Running only) follow it.
Phases == {"", "Pending", "Running", "Failed", "NotApplicable"}

\* One state of a GitSync object.  Versions with here = FALSE are deletions.
Version == [here : BOOLEAN, rv : Nat, gen : Nat, deleting : BOOLEAN,
            finalizer : BOOLEAN, spec : Specs \cup {NoSpec},
            phase : Phases, commit : Commits]

Gone(rv) == [here |-> FALSE, rv |-> rv, gen |-> 0, deleting |-> FALSE,
             finalizer |-> FALSE, spec |-> NoSpec, phase |-> "", commit |-> NoCommit]

Cached(k) == versions[k][1]
Stored(k) == versions[k][Len(versions[k])]

ApiInit == /\ versions = [k \in Keys |-> <<Gone(0)>>]
           /\ requests = {}
           /\ budget \in Budgets

Spend(field) == /\ budget[field] > 0
                /\ budget' = [budget EXCEPT ![field] = @ - 1]

\* The server accepts a write and gives it the next resourceVersion.
Write(k, v) ==
    versions' = [versions EXCEPT ![k] = Append(@, [v EXCEPT !.rv = Stored(k).rv + 1])]

\* The resourceVersion check of Update and Status().Update: nobody has written
\* the object since the version the caller read.
Fresh(k, obj) == Stored(k).here /\ obj.rv = Stored(k).rv

\* client.Update: metadata and spec; status and generation are not touched
\* (the CRD has a status subresource, and finalizers are metadata).  An object
\* that is being deleted goes with its last finalizer.
UpdateFinalizer(k, obj) ==
    Write(k, IF Stored(k).deleting /\ ~obj.finalizer
             THEN Gone(0)
             ELSE [Stored(k) EXCEPT !.finalizer = obj.finalizer])

\* client.Status().Update: the whole status and nothing else.
UpdateStatus(k, obj) ==
    Write(k, [Stored(k) EXCEPT !.phase = obj.phase, !.commit = obj.commit])

-----------------------------------------------------------------------------
(* The informer delivers the next version; create, delete and generation   *)
(* changes pass the predicate and put the key on the work queue.           *)

Enqueues(old, new) == old.here # new.here \/ old.gen # new.gen

Informer(k) ==
    /\ Len(versions[k]) > 1
    /\ versions' = [versions EXCEPT ![k] = Tail(@)]
    /\ requests' = IF Enqueues(versions[k][1], versions[k][2])
                   THEN requests \cup {k} ELSE requests
    /\ UNCHANGED budget

-----------------------------------------------------------------------------
(* Users.                                                                  *)

UserCreates(k, s) ==
    /\ ~Stored(k).here
    /\ Spend("creates")
    /\ Write(k, [Gone(0) EXCEPT !.here = TRUE, !.gen = 1, !.spec = s])
    /\ UNCHANGED requests

UserEdits(k, s) ==
    /\ Stored(k).here
    /\ s # Stored(k).spec
    /\ Spend("edits")
    /\ Write(k, [Stored(k) EXCEPT !.spec = s, !.gen = @ + 1])
    /\ UNCHANGED requests

\* Deletion marks an object that has a finalizer and removes any other one.
UserDeletes(k) ==
    /\ Stored(k).here
    /\ ~Stored(k).deleting
    /\ Spend("deletes")
    /\ Write(k, IF Stored(k).finalizer
                THEN [Stored(k) EXCEPT !.deleting = TRUE, !.gen = @ + 1]
                ELSE Gone(0))
    /\ UNCHANGED requests

UserStep == \E k \in Keys : \/ UserDeletes(k)
                            \/ \E s \in Specs : UserCreates(k, s) \/ UserEdits(k, s)

ApiTypeOK ==
    /\ versions \in [Keys -> Seq(Version)]
    /\ \A k \in Keys : Len(versions[k]) > 0
    /\ requests \subseteq Keys
    /\ budget \in [BudgetFields -> Nat]
=============================================================================
