------------------------- MODULE GitSyncController -------------------------
(***************************************************************************)
(* The reconciler of internal/controller/gitsync_controller.go.  One       *)
(* goroutine takes keys from the work queue; a call of Reconcile is split  *)
(* at every point where another goroutine can see or change what it uses:  *)
(* the read of the cached object, the deletion of linked resources, the    *)
(* call of the syncer, the two writes to the API server.                   *)
(***************************************************************************)
EXTENDS ManagedResources

CONSTANT Workers  \* the syncer's workers, for WatchSet

VARIABLES
    watched,  \* the syncer's watched keys
    job,      \* the syncer's workers (WatchSet)
    rec       \* the reconciler: [pc, key, obj, dirty]

Syncer == INSTANCE WatchSet

recVars == <<watched, job, rec>>

\* obj is the deep copy Reconcile works on, dirty is needsUpdate(old, obj).
Idle == [pc |-> "idle", key |-> NoKey, obj |-> Gone(0), dirty |-> FALSE]

RecTypeOK ==
    rec \in [pc : {"idle", "cascade", "stop", "start", "update", "status"},
             key : Keys \cup {NoKey}, obj : Version, dirty : BOOLEAN]

RecInit == rec = Idle /\ Syncer!WSInit

-----------------------------------------------------------------------------
(* What Reconcile does to its copy of the object.                          *)

InitConditions(obj) == [obj EXCEPT !.phase = "Pending"]
MarkRunning(obj) == [obj EXCEPT !.phase = "Running"]
MarkNotApplicable(obj) == [obj EXCEPT !.phase = "NotApplicable"]
AddFinalizer(obj) == [obj EXCEPT !.finalizer = TRUE]
RemoveFinalizer(obj) == [obj EXCEPT !.finalizer = FALSE]

\* needsUpdate: the finalizers differ.
NeedsUpdate(old, new) == old.finalizer # new.finalizer

-----------------------------------------------------------------------------
(* The outcomes of Reconcile.                                              *)

\* return ctrl.Result{}, nil
Return == rec' = Idle

\* Mutant: the error is logged and swallowed.
ReturnSilently == rec' = Idle /\ UNCHANGED requests

\* return ctrl.Result{}, err: the key goes back to the work queue.
ReturnError == rec' = Idle /\ requests' = requests \cup {rec.key}

Continue(step, obj, dirty) ==
    rec' = [rec EXCEPT !.pc = step, !.obj = obj, !.dirty = dirty]

\* Mutant: needsUpdate never sees the finalizer.
SkipUpdate(obj, dirty) ==
    \/ ~obj.deleting /\ Continue("status", obj, dirty)
    \/ obj.deleting /\ Return

\* After reconcile(): Update if the finalizers changed, else Status().Update
\* unless the object is being deleted.
AfterReconcile(obj, dirty) ==
    \/ dirty /\ Continue("update", obj, dirty)
    \/ ~dirty /\ ~obj.deleting /\ Continue("status", obj, dirty)
    \/ ~dirty /\ obj.deleting /\ Return

-----------------------------------------------------------------------------
(* Reconcile: the read of the object, InitConditions, and the branch of    *)
(* reconcile() that the copy selects.                                      *)

TakeRequest(k) == /\ rec = Idle
                  /\ k \in requests

ReconcileMissing(k) ==
    /\ TakeRequest(k)
    /\ ~Cached(k).here
    /\ requests' = requests \ {k}
    /\ UNCHANGED <<versions, budget, live, watched, job, rec>>

ContainsClusterDestination(k) == Cached(k).spec.cluster = ClusterName

\* validate: the URL, the revision and the destination of the spec are usable.
Validate(k) == Cached(k).spec.valid

\* MarkNotApplicable and return, before anything else is looked at.
ReconcileMismatch(k) ==
    /\ TakeRequest(k)
    /\ Cached(k).here
    /\ ~ContainsClusterDestination(k)
    /\ requests' = requests \ {k}
    /\ LET obj == MarkNotApplicable(InitConditions(Cached(k)))
       IN rec' = IF obj.deleting THEN Idle
                 ELSE [pc |-> "status", key |-> k, obj |-> obj, dirty |-> FALSE]
    /\ UNCHANGED <<versions, budget, live, watched, job>>

\* Mutant: validate before looking at the deletion timestamp.
ReconcileDeletingLate(k) ==
    /\ TakeRequest(k)
    /\ Cached(k).here
    /\ ContainsClusterDestination(k)
    /\ Cached(k).deleting
    /\ Validate(k)
    /\ requests' = requests \ {k}
    /\ rec' = [pc |-> "cascade", key |-> k,
               obj |-> InitConditions(Cached(k)), dirty |-> FALSE]
    /\ UNCHANGED <<versions, budget, live, watched, job>>

ReconcileDeleting(k) ==
    /\ TakeRequest(k)
    /\ Cached(k).here
    /\ ContainsClusterDestination(k)
    /\ Cached(k).deleting
    /\ requests' = requests \ {k}
    /\ rec' = [pc |-> "cascade", key |-> k,
               obj |-> InitConditions(Cached(k)), dirty |-> FALSE]
    /\ UNCHANGED <<versions, budget, live, watched, job>>

\* MarkFailed on the copy, and return err: the copy is dropped, the key stays
\* in the work queue.
ReconcileInvalid(k) ==
    /\ TakeRequest(k)
    /\ Cached(k).here
    /\ ContainsClusterDestination(k)
    /\ ~Cached(k).deleting
    /\ ~Validate(k)
    /\ UNCHANGED <<versions, requests, budget, live, watched, job, rec>>

ReconcileValid(k) ==
    /\ TakeRequest(k)
    /\ Cached(k).here
    /\ ContainsClusterDestination(k)
    /\ ~Cached(k).deleting
    /\ Validate(k)
    /\ requests' = requests \ {k}
    /\ LET obj == AddFinalizer(InitConditions(Cached(k)))
       IN rec' = [pc |-> "start", key |-> k, obj |-> obj,
                  dirty |-> NeedsUpdate(Cached(k), obj)]
    /\ UNCHANGED <<versions, budget, live, watched, job>>

Reconcile(k) == \/ ReconcileMissing(k)
                \/ ReconcileMismatch(k)
                \/ ReconcileDeleting(k)
                \/ ReconcileInvalid(k)
                \/ ReconcileValid(k)

-----------------------------------------------------------------------------
(* The steps after the branch.                                             *)

RecCascades ==
    /\ rec.pc = "cascade"
    /\ ProcessGitSyncDeletion(rec.key)
    /\ Continue("stop", rec.obj, rec.dirty)
    /\ UNCHANGED <<versions, requests, budget, watched, job>>

RecCascadeFails ==
    /\ rec.pc = "cascade"
    /\ ProcessGitSyncDeletionFails(rec.key)
    /\ Spend("faults")
    /\ ReturnError
    /\ UNCHANGED <<versions, watched, job>>

\* Mutant: no StopWatching.
RecForgetsToStop ==
    /\ rec.pc = "stop"
    /\ AfterReconcile(RemoveFinalizer(rec.obj), NeedsUpdate(rec.obj, RemoveFinalizer(rec.obj)))
    /\ UNCHANGED <<versions, requests, budget, live, watched, job>>

\* StopWatching, then RemoveFinalizer on the copy.
RecStops ==
    /\ rec.pc = "stop"
    /\ Syncer!Unwatch(rec.key)
    /\ AfterReconcile(RemoveFinalizer(rec.obj), NeedsUpdate(rec.obj, RemoveFinalizer(rec.obj)))
    /\ UNCHANGED <<versions, requests, budget, live>>

\* StartWatching, then MarkRunning on the copy.
RecStarts ==
    /\ rec.pc = "start"
    /\ Syncer!Watch(rec.key)
    /\ AfterReconcile(MarkRunning(rec.obj), rec.dirty)
    /\ UNCHANGED <<versions, requests, budget, live>>

\* Update succeeded: the copy has the new resourceVersion, its status is
\* restored; Status().Update follows unless the object is being deleted.
RecUpdates ==
    /\ rec.pc = "update"
    /\ Fresh(rec.key, rec.obj)
    /\ UpdateFinalizer(rec.key, rec.obj)
    /\ AfterReconcile([rec.obj EXCEPT !.rv = @ + 1], FALSE)
    /\ UNCHANGED <<requests, budget, live, watched, job>>

\* Mutant: the copy is written with the newest resourceVersion.
RecForcesStatus ==
    /\ rec.pc = "status"
    /\ Stored(rec.key).here
    /\ UpdateStatus(rec.key, rec.obj)
    /\ Return
    /\ UNCHANGED <<requests, budget, live, watched, job>>

\* Status().Update with the copy: the whole status, refused if it is stale.
RecUpdatesStatus ==
    /\ rec.pc = "status"
    /\ Fresh(rec.key, rec.obj)
    /\ UpdateStatus(rec.key, rec.obj)
    /\ Return
    /\ UNCHANGED <<requests, budget, live, watched, job>>

\* A write is refused: the object has changed or is gone.
RecConflicts ==
    /\ rec.pc \in {"update", "status"}
    /\ ~Fresh(rec.key, rec.obj)
    /\ ReturnError
    /\ UNCHANGED <<versions, budget, live, watched, job>>

\* A write fails for any other reason.
RecWriteFails ==
    /\ rec.pc \in {"update", "status"}
    /\ Spend("faults")
    /\ ReturnError
    /\ UNCHANGED <<versions, live, watched, job>>

\* Everything the reconciler can do without the environment's help.
RecStep == \/ RecCascades \/ RecStops \/ RecStarts
           \/ RecUpdates \/ RecUpdatesStatus \/ RecConflicts

RecFault == RecCascadeFails \/ RecWriteFails
=============================================================================
