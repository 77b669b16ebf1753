------------------------------ MODULE SyncRun ------------------------------
(***************************************************************************)
(* One synchronization, Syncer.runOnce of internal/sync/syncer.go, as a    *)
(* worker executes it: split at every read of the informer cache, of git   *)
(* and of the cluster and at every write, because the reconciler, the      *)
(* other workers (also on the same key) and users act in between.  The     *)
(* resources are applied one by one.                                       *)
(***************************************************************************)
EXTENDS GitSyncController

VARIABLE run  \* run[w]: the local variables of runOnce, see Runs

Steps == {"none", "get", "fetch", "decide", "compare", "apply", "statusGet",
          "statusPut", "cascade", "stop"}

\* cfg: globalConfig; obj: the object last read; hash: commitHash; target: the
\* labelled manifests; todo: what diffResults lists as modified and is not yet
\* applied; synced: the outcome.
\* Each is reset as soon as no later step reads it.
Runs == [pc : Steps, cfg : Configs, obj : Version, hash : Hashes \cup {0},
         target : Live, todo : SUBSET Resources, synced : BOOLEAN]

NoRun == [pc |-> "none", cfg |-> CHOOSE c \in Configs : TRUE, obj |-> Gone(0),
          hash |-> 0, target |-> NoResources, todo |-> {}, synced |-> FALSE]

RunInit == run = [w \in Workers |-> NoRun]
RunTypeOK == run \in [Workers -> Runs]

Step(w, pc) == run[w].pc = pc
Goto(w, pc) == run' = [run EXCEPT ![w].pc = pc]

\* return from runOnce; the worker waits for the next key.
EndRun(w) == /\ run' = [run EXCEPT ![w] = NoRun]
             /\ Syncer!Finish(w)

-----------------------------------------------------------------------------
\* Mutant: the flag automatedSyncDisabled is not read.
StartsUnpaused(w, k) ==
    /\ Syncer!Pick(w, k)
    /\ run' = [run EXCEPT ![w].pc = "get",
                          ![w].cfg = [config EXCEPT !.automatedSyncDisabled = FALSE]]
    /\ UNCHANGED <<versions, requests, budget, live, rec>>

\* The worker receives a key and reads the configuration.  GetConfig copies a
\* GlobalConfig through JSON, which cannot fail for a struct of strings,
\* numbers and booleans: the branch that logs its error is left out.
RunStarts(w, k) ==
    /\ Syncer!Pick(w, k)
    /\ run' = [run EXCEPT ![w].pc = "get", ![w].cfg = config]
    /\ UNCHANGED <<versions, requests, budget, live, rec>>

\* Get, and the three branches that its result and the configuration select.
RunGets(w) ==
    /\ Step(w, "get")
    /\ LET obj == Cached(job[w]) IN
       \/ ~obj.here /\ Goto(w, "stop") /\ UNCHANGED <<watched, job>>
       \/ obj.here /\ obj.deleting /\ Goto(w, "cascade") /\ UNCHANGED <<watched, job>>
       \/ /\ obj.here /\ ~obj.deleting /\ run[w].cfg.automatedSyncDisabled
          /\ EndRun(w)
       \/ /\ obj.here /\ ~obj.deleting /\ ~run[w].cfg.automatedSyncDisabled
          /\ run' = [run EXCEPT ![w].pc = "fetch", ![w].obj = obj]
          /\ UNCHANGED <<watched, job>>
    /\ UNCHANGED <<versions, requests, budget, live, rec>>

\* CloneRepo and GetLatestManifests for the spec read by Get;
\* applyLabelAndNamespace puts the tracking label on the result.
RunFetches(w) ==
    /\ Step(w, "fetch")
    /\ run' = [run EXCEPT ![w].pc = "decide", ![w].hash = head,
                          ![w].target = Target(run[w].obj.spec, head),
                          ![w].obj = Gone(0)]
    /\ UNCHANGED <<versions, requests, budget, live, watched, job, rec>>

\* Mutant: the comparison of the hashes is inverted.
SkipsOthers(w) ==
    /\ run[w].cfg.autoHealDisabled
    /\ Cached(job[w]).commit # NoCommit
    /\ Cached(job[w]).commit.hash # run[w].hash

\* getCommitStatus: the status of the cached object, nil if there is none.
\* With auto heal off the sync is skipped when the hash is the recorded one.
Skips(w) ==
    /\ run[w].cfg.autoHealDisabled
    /\ Cached(job[w]).commit # NoCommit
    /\ Cached(job[w]).commit.hash = run[w].hash

RunDecides(w) ==
    /\ Step(w, "decide")
    /\ \/ Skips(w) /\ EndRun(w)
       \/ ~Skips(w) /\ Goto(w, "compare") /\ UNCHANGED <<watched, job>>
    /\ UNCHANGED <<versions, requests, budget, live, rec>>

\* StateDiffs, reduced to diffResults.Modified of each resource: it differs from
\* its manifest, is missing or is to be pruned; its status field is not compared.
StateDiffs(target, lives) == {r \in Resources : target[r] # lives[r]}

\* compareState: which of the resources differ from the target.
RunCompares(w) ==
    /\ Step(w, "compare")
    /\ run' = [run EXCEPT ![w].pc = "apply",
                          ![w].todo = StateDiffs(run[w].target, GetManagedLiveObjs(job[w]))]
    /\ UNCHANGED <<versions, requests, budget, live, watched, job, rec>>

\* syncCtx.Sync(), one task: apply or prune a resource that differed when it was
\* compared.  The modification checker skips the others, whatever they are now.
RunApplies(w) ==
    /\ Step(w, "apply")
    /\ \E r \in run[w].todo :
          /\ live' = [live EXCEPT ![job[w]][r] = run[w].target[r]]
          /\ run' = [run EXCEPT ![w].todo = @ \ {r}]
    /\ UNCHANGED <<versions, requests, budget, watched, job, rec>>

\* Where updateCommitStatus takes over.
EndSync(w, synced) ==
    run' = [run EXCEPT ![w].pc = "statusGet", ![w].synced = synced,
                       ![w].target = NoResources, ![w].todo = {}]

\* Mutant: the phase is read when tasks are left.
SyncsEarly(w) ==
    /\ Step(w, "apply")
    /\ EndSync(w, TRUE)
    /\ UNCHANGED <<versions, requests, budget, live, watched, job, rec>>

\* syncCtx.Sync() is through with its tasks and GetState says succeeded.
RunSyncs(w) ==
    /\ Step(w, "apply") /\ run[w].todo = {}
    /\ EndSync(w, TRUE)
    /\ UNCHANGED <<versions, requests, budget, live, watched, job, rec>>

\* compareState fails, or the sync fails with what it has applied so far.
RunSyncFails(w) ==
    /\ run[w].pc \in {"compare", "apply"}
    /\ Spend("faults")
    /\ EndSync(w, FALSE)
    /\ UNCHANGED <<versions, requests, live, watched, job, rec>>

\* Mutant: the hash is not recorded.
NoHash(w) == [hash |-> 0, synced |-> run[w].synced]

\* The CommitStatus that updateCommitStatus writes.
NewCommit(w) == [hash |-> run[w].hash, synced |-> run[w].synced]

\* updateCommitStatus, the read: nothing to do if the object is gone or its
\* status has this content already.
RunGetsStatus(w) ==
    /\ Step(w, "statusGet")
    /\ LET obj == Cached(job[w]) IN
       \/ (~obj.here \/ obj.commit = NewCommit(w)) /\ EndRun(w)
       \/ /\ obj.here /\ obj.commit # NewCommit(w)
          /\ run' = [run EXCEPT ![w].pc = "statusPut",
                                ![w].obj = [obj EXCEPT !.commit = NewCommit(w)]]
          /\ UNCHANGED <<watched, job>>
    /\ UNCHANGED <<versions, requests, budget, live, rec>>

\* Mutant: the copy is written with the newest resourceVersion.
RunForcesStatus(w) ==
    /\ Step(w, "statusPut")
    /\ \/ Stored(job[w]).here /\ UpdateStatus(job[w], run[w].obj)
       \/ ~Stored(job[w]).here /\ UNCHANGED versions
    /\ EndRun(w)
    /\ UNCHANGED <<requests, budget, live, rec>>

\* updateCommitStatus, the write: refused if the object has changed.
RunPutsStatus(w) ==
    /\ Step(w, "statusPut")
    /\ \/ Fresh(job[w], run[w].obj) /\ UpdateStatus(job[w], run[w].obj)
       \/ ~Fresh(job[w], run[w].obj) /\ UNCHANGED versions
    /\ EndRun(w)
    /\ UNCHANGED <<requests, budget, live, rec>>

\* ProcessGitSyncDeletion for an object that is being deleted.
RunCascades(w) ==
    /\ Step(w, "cascade")
    /\ ProcessGitSyncDeletion(job[w])
    /\ Goto(w, "stop")
    /\ UNCHANGED <<versions, requests, budget, watched, job, rec>>

RunCascadeFails(w) ==
    /\ Step(w, "cascade")
    /\ ProcessGitSyncDeletionFails(job[w])
    /\ Spend("faults")
    /\ EndRun(w)
    /\ UNCHANGED <<versions, requests, rec>>

\* Mutant: the worker only ends its run.
EndsWithoutStop(w) ==
    /\ Step(w, "stop")
    /\ EndRun(w)
    /\ UNCHANGED <<versions, requests, budget, live, rec>>

\* StopWatching, the last statement before return.
RunStops(w) ==
    /\ Step(w, "stop")
    /\ Syncer!FinishUnwatch(w)
    /\ run' = [run EXCEPT ![w] = NoRun]
    /\ UNCHANGED <<versions, requests, budget, live, rec>>

\* git, the API server or the status write fails: runOnce returns the error.
RunFails(w) ==
    /\ run[w].pc \in {"get", "fetch", "decide", "statusGet", "statusPut"}
    /\ Spend("faults")
    /\ EndRun(w)
    /\ UNCHANGED <<versions, requests, live, rec>>

RunStep(w) == \/ RunGets(w) \/ RunFetches(w) \/ RunDecides(w) \/ RunCompares(w)
              \/ RunApplies(w) \/ RunSyncs(w) \/ RunGetsStatus(w) \/ RunPutsStatus(w)
              \/ RunCascades(w) \/ RunStops(w)

RunFault(w) == RunSyncFails(w) \/ RunFails(w) \/ RunCascadeFails(w)
=============================================================================
