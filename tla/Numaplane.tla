----------------------------- MODULE Numaplane -----------------------------
(***************************************************************************)
(* The controller as a whole: the reconciler, the workers of the syncer    *)
(* (SyncRun, over the watched set that SyncQueue implements), the API      *)
(* server with its lagging cache, git, the live resources, users, faults   *)
(* and restarts.                                                           *)
(***************************************************************************)
EXTENDS SyncRun

VARIABLE applied  \* history: applied[k] has <<r, c>> if resource r of k was ever as c

vars == <<versions, requests, budget, config, live, head, watched, job, rec, run, applied>>

Init == /\ ApiInit /\ ResInit /\ RecInit /\ RunInit
        /\ applied = [k \in Keys |-> {<<r, Absent>> : r \in Resources}]

-----------------------------------------------------------------------------
(* The steps of the components, composed.                                  *)

ReconcilerTakes(k) == Reconcile(k) /\ UNCHANGED <<config, head, run>>
ReconcilerContinues == RecStep /\ UNCHANGED <<config, head, run>>
ReconcilerFails == RecFault /\ UNCHANGED <<config, head, run>>

WorkerTakes(w, k) == RunStarts(w, k) /\ UNCHANGED <<config, head>>
WorkerContinues(w) == RunStep(w) /\ UNCHANGED <<config, head>>
WorkerFails(w) == RunFault(w) /\ UNCHANGED <<config, head>>

InformerDelivers(k) == Informer(k) /\ UNCHANGED <<config, live, head, watched, job, rec, run>>
UserActs == UserStep /\ UNCHANGED <<config, live, head, watched, job, rec, run>>
OthersAct == /\ Push \/ ReloadConfig \/ \E k \in Keys : Drift(k)
             /\ UNCHANGED <<watched, job, rec, run>>

\* The process ends and a new one starts: memory is lost, the informer lists
\* the stored objects and delivers each of them as created.
StartsAgain ==
    /\ versions' = [k \in Keys |-> <<Stored(k)>>]
    /\ requests' = {k \in Keys : Stored(k).here}
    /\ watched' = {}
    /\ job' = [w \in Workers |-> NoKey]
    /\ rec' = Idle
    /\ run' = [w \in Workers |-> NoRun]
    /\ UNCHANGED <<config, live, head>>

Restart == Spend("restarts") /\ StartsAgain

\* compareState gets no resource operations, or sync gets no sync context: the
\* cleanup function that comes with the error is nil, the deferred call of it
\* panics, and nothing recovers a worker goroutine.
WorkerPanics(w) ==
    /\ Step(w, "compare")
    /\ Spend("faults")
    /\ StartsAgain

ComponentStep ==
    \/ \E k \in Keys : ReconcilerTakes(k) \/ InformerDelivers(k)
    \/ \E w \in Workers, k \in Keys : WorkerTakes(w, k)
    \/ \E w \in Workers : WorkerContinues(w) \/ WorkerFails(w) \/ WorkerPanics(w)
    \/ ReconcilerContinues \/ ReconcilerFails
    \/ UserActs \/ OthersAct \/ Restart

Remember ==
    applied' = [k \in Keys |-> applied[k] \cup {<<r, live'[k][r]>> : r \in Resources}]

Next == ComponentStep /\ Remember

Spec == Init /\ [][Next]_vars

(***************************************************************************)
(* Fairness: the informer delivers, the work queue and the reconciler make *)
(* progress, every run of a worker ends, and a watched key is handed to a  *)
(* worker (EveryWatchedKeyIsAssigned of SyncQueue).  Users, pushes,        *)
(* drifts, faults, reloads and restarts are not fair: they need not occur. *)
(***************************************************************************)
Fairness ==
    /\ WF_vars(ReconcilerContinues /\ Remember)
    /\ \A k \in Keys :
         /\ WF_vars(InformerDelivers(k) /\ Remember)
         /\ SF_vars(ReconcilerTakes(k) /\ Remember)
         /\ SF_vars((\E w \in Workers : WorkerTakes(w, k)) /\ Remember)
    /\ \A w \in Workers : WF_vars(WorkerContinues(w) /\ Remember)

FairSpec == Spec /\ Fairness

-----------------------------------------------------------------------------
(* Safety.                                                                 *)

\* Every variable of the controller has its type.
TypeOK == ApiTypeOK /\ ResTypeOK /\ RecTypeOK /\ RunTypeOK /\ Syncer!WSTypeOK

\* The finalizer is persisted before the status says Running: a GitSync that
\* reports Running cannot be deleted without the reconciler noticing.
RunningHasFinalizer ==
    \A k \in Keys : Stored(k).here /\ Stored(k).phase = "Running" => Stored(k).finalizer

\* The reconciler's whole-status writes never undo or invent a commit status:
\* what a worker recorded meanwhile survives (resourceVersion check).
OnlyWorkersWriteCommit ==
    [][(rec' # rec) => \A k \in Keys :
          Stored(k)'.here /\ Stored(k).here => Stored(k)'.commit = Stored(k).commit]_vars

\* A worker's whole-status write never undoes what the reconciler reported.
OnlyReconcilerWritesPhase ==
    [][(run' # run /\ budget'["restarts"] = budget["restarts"]) =>
          \A k \in Keys : Stored(k)'.phase = Stored(k).phase]_vars

\* The finalizer of a GitSync is removed only once its key is not watched:
\* no new synchronization starts for an object that has gone that way.
GoneIsUnwatched ==
    [][\A k \in Keys : (Stored(k).here /\ Stored(k).finalizer /\ ~Stored(k)'.here)
          => k \notin watched]_vars

\* Every resource of k has at some time been as one path has it at commit h.
WasApplied(k, h) ==
    \E s \in Specs : \A r \in Resources : <<r, Target(s, h)[r]>> \in applied[k]

\* A commit recorded as synced was applied to the last resource: each has been
\* as the manifests have it, and each that they do not have has been absent.
\* A failed sync, a refused write or a second worker on the key, whose stale
\* differences are applied late, never makes a success of a resource left out.
\* They need not all have been so at once: see NoMixture.
SyncedWasApplied ==
    \A k \in Keys : Stored(k).here /\ Stored(k).commit.synced
                        => WasApplied(k, Stored(k).commit.hash)

\* When nobody is applying anything, what is live is what one path has at one
\* commit (no drift, no faults).  Two workers on one key break it: each applies
\* only what differed at its own comparison, so they leave a mixture of two
\* commits and both report success, until the next sync of the key.
NoMixture ==
    \A k \in Keys :
        (\A w \in Workers : ~(job[w] = k /\ Step(w, "apply"))) =>
            live[k] \in {NoResources} \cup {Target(s, h) : s \in Specs, h \in Hashes}

\* While automated sync is disabled nothing is ever applied, whatever is
\* created: runOnce returns before it touches git.
PausedAppliesNothing ==
    ([](config.automatedSyncDisabled)) => [](\A k \in Keys : live[k] = NoResources)

\* Resource r of k was changed by hand after commit h was recorded, nobody
\* works on k and the informer has seen all of its versions.
Drifted(k, r, h) == /\ live[k][r] = Changed
                    /\ Len(versions[k]) = 1
                    /\ Cached(k).here /\ ~Cached(k).deleting /\ Cached(k).commit.hash = h
                    /\ rec.key # k /\ \A w \in Workers : job[w] # k

\* Auto heal is off, commit h is the one to synchronize and k is to be kept.
HealOff(k, h) == /\ head = h /\ config.autoHealDisabled
                 /\ Stored(k).here /\ ~Stored(k).deleting

\* With auto heal off it stays as it is: only a new commit, turning auto
\* heal on or deleting the GitSync changes that; an edit of the spec, a failure,
\* a restart or a reload of other settings does not.
HealOffLeavesDrift ==
    \A k \in Keys, r \in Resources, h \in Hashes :
        [](Drifted(k, r, h) => [](live[k][r] = Changed) \/ <>~HealOff(k, h))

-----------------------------------------------------------------------------
(* Liveness.                                                               *)

\* A GitSync that this controller must synchronize.
Wanted(k) == /\ Stored(k).here
             /\ ~Stored(k).deleting
             /\ Stored(k).spec.cluster = ClusterName
             /\ Stored(k).spec.valid

\* The resources are those of the last commit, and the status says so.
InSync(k) == /\ Stored(k).here
             /\ live[k] = Target(Stored(k).spec, head)
             /\ Stored(k).commit = [hash |-> head, synced |-> TRUE]
             /\ Stored(k).phase = "Running"

\* If a GitSync stays wanted, its resources end up and stay as the last commit
\* has them and its status ends up and stays saying so, whatever failed,
\* drifted, was edited, restarted or was raced by another worker before.
Converges == \A k \in Keys : <>[]Wanted(k) => <>[]InSync(k)

\* A run works towards, or at, the change of resources.
Synchronizing(w) == run[w].pc \in {"fetch", "decide", "compare", "apply"}

\* Once automated sync is disabled and stays so, also in the middle of a run
\* that has read the old configuration, the runs under way are the last ones
\* that apply anything: from some time on nobody synchronizes.
PauseTakesEffect ==
    <>[](config.automatedSyncDisabled) => <>[](\A w \in Workers : ~Synchronizing(w))

\* A wanted GitSync ends up watched by the syncer.
WantedIsWatched == \A k \in Keys : <>[]Wanted(k) => <>[](k \in watched)

\* A GitSync of this cluster that is marked for deletion goes, valid or not,
\* whatever fails on the way: the reconciler removes the finalizer.
DeletionCompletes ==
    \A k \in Keys : (Stored(k).deleting /\ Stored(k).spec.cluster = ClusterName)
                        ~> (~Stored(k).here \/ Stored(k).spec.cluster # ClusterName)

\* A GitSync marked for deletion goes, whichever cluster it is for by then.
EveryDeletionCompletes == \A k \in Keys : Stored(k).deleting ~> ~Stored(k).here

\* A GitSync that is gone for good ends up unwatched.
GoneEndsUnwatched ==
    \A k \in Keys : <>[](~Stored(k).here) => <>[](k \notin watched)

\* A GitSync whose destination is another cluster ends up unwatched.
ForeignEndsUnwatched ==
    \A k \in Keys : <>[](Stored(k).here /\ Stored(k).spec.cluster # ClusterName)
                        => <>[](k \notin watched)

\* A GitSync with an invalid spec ends up without the condition Configured,
\* that is, not Running.
InvalidIsNotConfigured ==
    \A k \in Keys : <>[](/\ Stored(k).here /\ ~Stored(k).deleting
                         /\ Stored(k).spec.cluster = ClusterName /\ ~Stored(k).spec.valid)
                        => <>[](Stored(k).phase # "Running")

\* With cascade deletion on, no linked resource is left once the GitSync is
\* gone and nobody works on it any more.
NoOrphans ==
    \A k \in Keys :
        (/\ Len(versions[k]) = 1 /\ ~Stored(k).here /\ config.cascadeDeletion
         /\ rec = Idle /\ k \notin requests /\ k \notin watched
         /\ \A w \in Workers : job[w] # k)
        => live[k] = NoResources
=============================================================================
