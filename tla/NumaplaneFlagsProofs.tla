------------------------ MODULE NumaplaneFlagsProofs ------------------------
(***************************************************************************)
(* Proofs about the flags of the configuration, under the assumptions of   *)
(* NumaplaneProofs: a paused controller applies nothing, and with auto     *)
(* heal off resources that were changed by hand stay as they are.  Both    *)
(* are safety in the form of temporal formulas: a state predicate is       *)
(* inductive as long as the flag stays as it is.                           *)
(***************************************************************************)
EXTENDS NumaplaneProofs

\* Every step of the controller is one of these, for the variables live and run.
LEMMA StepOnResources ==
    ASSUME ComponentStep
    PROVE  \/ UNCHANGED <<live, run, job>>
           \/ (RecCascades \/ RecCascadeFails \/ \E k \in Keys : Drift(k)) /\ UNCHANGED <<run, job>>
           \/ StartsAgain
           \/ \E w \in Workers : RunStep(w) \/ RunFault(w) \/ \E k \in Keys : RunStarts(w, k)
<1>1. ASSUME (\E k \in Keys : Reconcile(k)) \/ RecStep \/ RecFault
      PROVE  UNCHANGED live \/ RecCascades \/ RecCascadeFails
      BY <1>1 DEF Reconcile, ReconcileMissing, ReconcileMismatch, ReconcileDeleting,
         ReconcileInvalid, ReconcileValid, RecStep, RecFault, RecStops, RecStarts, RecUpdates,
         RecUpdatesStatus, RecConflicts, RecWriteFails
<1>2. CASE \/ (\E k \in Keys : ReconcilerTakes(k)) \/ ReconcilerContinues \/ ReconcilerFails
      BY <1>1, <1>2, ReconcilerLeavesJobs
         DEF ReconcilerTakes, ReconcilerContinues, ReconcilerFails
<1>3. CASE (\E k \in Keys : InformerDelivers(k)) \/ UserActs \/ OthersAct
      BY <1>3 DEF InformerDelivers, UserActs, OthersAct, Push, ReloadConfig
<1> QED
    BY <1>2, <1>3 DEF ComponentStep, WorkerTakes, WorkerContinues, WorkerFails, WorkerPanics,
       Restart

-----------------------------------------------------------------------------
(* automatedSyncDisabled.                                                  *)

\* Nothing is live, and no run gets past the check of the flag.
PausedInv ==
    /\ \A k \in Keys : live[k] = NoResources
    /\ \A w \in Workers : /\ run[w].pc \in {"none", "get", "cascade", "stop"}
                          /\ run[w].pc = "get" => run[w].cfg.automatedSyncDisabled

\* A deletion finds nothing to delete.
LEMMA DeletingNothing ==
    ASSUME live \in [Keys -> Live], \A k \in Keys : live[k] = NoResources, NEW j,
           ProcessGitSyncDeletion(j) \/ ProcessGitSyncDeletionFails(j)
    PROVE  \A k \in Keys : live'[k] = NoResources
<1>1. CASE ProcessGitSyncDeletion(j)
      BY <1>1 DEF ProcessGitSyncDeletion, CascadeDeletion
<1>2. CASE ProcessGitSyncDeletionFails(j)
  <2>1. PICK d \in SUBSET Resources :
           live' = [live EXCEPT ![j] = [r \in Resources |->
                       IF r \in d THEN Absent ELSE live[j][r]]]
        BY <1>2 DEF ProcessGitSyncDeletionFails
  <2>2. ASSUME j \in Keys
        PROVE  [r \in Resources |-> IF r \in d THEN Absent ELSE live[j][r]] = NoResources
    <3>1. \A r \in Resources : live[j][r] = Absent
          BY <2>2 DEF NoResources
    <3> QED
        BY <3>1 DEF NoResources
  <2> QED
      BY <2>1, <2>2
<1> QED
    BY <1>1, <1>2

\* The step of a worker while the controller is paused.
LEMMA WorkerKeepsPaused ==
    ASSUME NInv, PausedInv, config.automatedSyncDisabled, NEW w \in Workers,
           RunStep(w) \/ RunFault(w) \/ \E k \in Keys : RunStarts(w, k)
    PROVE  PausedInv'
<1>1. /\ live \in [Keys -> Live] /\ run \in [Workers -> Runs] /\ run[w] \in Runs
      BY DEF NInv, TypeOK, ResTypeOK, RunTypeOK
<1>2. /\ run[w].pc \in {"none", "get", "cascade", "stop"}
      /\ run[w].pc = "get" => run[w].cfg.automatedSyncDisabled
      /\ \A k \in Keys : live[k] = NoResources
      BY DEF PausedInv
<1>3. NoRun.pc = "none"
      BY DEF NoRun
<1>4. CASE \E k \in Keys : RunStarts(w, k)
  <2>1. live' = live /\ run' = [run EXCEPT ![w].pc = "get", ![w].cfg = config]
        BY <1>4 DEF RunStarts
  <2>2. run'[w].pc = "get" /\ run'[w].cfg = config
        BY <1>1, <2>1 DEF Runs
  <2> QED
      BY <1>4, <2>1, <2>2, WorkersAreApart DEF PausedInv
<1>5. CASE RunGets(w) \/ RunStops(w) \/ RunFails(w)
  <2>1. live' = live
        BY <1>5 DEF RunGets, RunStops, RunFails
  <2>2. run'[w].pc \in {"none", "cascade", "stop"}
        BY <1>1, <1>2, <1>3, <1>5 DEF RunGets, RunStops, RunFails, EndRun, Goto, Step, Runs
  <2> QED
      BY <1>5, <2>1, <2>2, WorkersAreApart DEF PausedInv, RunStep, RunFault
<1>6. CASE RunCascades(w) \/ RunCascadeFails(w)
  <2>1. \A k \in Keys : live'[k] = NoResources
        BY <1>1, <1>2, <1>6, DeletingNothing DEF RunCascades, RunCascadeFails
  <2>2. run'[w].pc \in {"none", "stop"}
        BY <1>1, <1>3, <1>6 DEF RunCascades, RunCascadeFails, EndRun, Goto, Runs
  <2> QED
      BY <1>6, <2>1, <2>2, WorkersAreApart DEF PausedInv, RunStep, RunFault
<1> QED
    BY <1>2, <1>4, <1>5, <1>6 DEF RunStep, RunFault, RunFetches, RunDecides, RunCompares,
       RunApplies, RunSyncs, RunGetsStatus, RunPutsStatus, RunSyncFails, Step

\* Every step while the controller is paused.
LEMMA StepKeepsPaused ==
    ASSUME NInv, PausedInv, config.automatedSyncDisabled, [Next]_vars
    PROVE  PausedInv'
<1>1. live \in [Keys -> Live] /\ \A k \in Keys : live[k] = NoResources
      BY DEF NInv, TypeOK, ResTypeOK, PausedInv
<1>2. CASE UNCHANGED <<live, run, job>>
      BY <1>2 DEF PausedInv
<1>3. CASE (RecCascades \/ RecCascadeFails \/ \E k \in Keys : Drift(k)) /\ UNCHANGED <<run, job>>
  <2>1. \A k \in Keys : live'[k] = NoResources
    <3>1. CASE RecCascades \/ RecCascadeFails
          BY <1>1, <3>1, DeletingNothing DEF RecCascades, RecCascadeFails
    <3>2. ASSUME NEW k \in Keys, Drift(k) PROVE FALSE
          BY <1>1, <3>2 DEF Drift, NoResources
    <3> QED
        BY <1>3, <3>1, <3>2
  <2> QED
      BY <1>3, <2>1 DEF PausedInv
<1>4. CASE StartsAgain
      BY <1>1, <1>4 DEF StartsAgain, NoRun, PausedInv
<1> QED
    BY <1>2, <1>3, <1>4, StepOnResources, WorkerKeepsPaused DEF Next, vars

\* While automated sync is disabled nothing is applied, whatever is created,
\* edited or deleted, and however often the process restarts.
THEOREM PausedIsIdle == Spec => PausedAppliesNothing
<1>1. Init => PausedInv
      BY DEF Init, ResInit, RunInit, NoRun, PausedInv
<1>2. NInv /\ PausedInv /\ config.automatedSyncDisabled /\ [Next]_vars => PausedInv'
      BY StepKeepsPaused
<1>3. PausedInv => \A k \in Keys : live[k] = NoResources
      BY DEF PausedInv
<1> QED
    BY <1>1, <1>2, <1>3, ControllerInvariant, PTL DEF Spec, PausedAppliesNothing

-----------------------------------------------------------------------------
(* autoHealDisabled.                                                       *)

\* A version of a GitSync that is to be kept and has recorded commit h.
Records(v, h) == v.here /\ ~v.deleting /\ v.commit.hash = h

\* No version of k that anybody may still read or write says anything else, and
\* no run on k gets past the comparison of the hashes.
VersionsRecord(k, h) == \A i \in 1 .. Len(versions[k]) : Records(versions[k][i], h)
CopyRecords(k, h) == rec.key = k => /\ rec.pc \notin {"cascade", "stop"}
                                    /\ ~rec.obj.deleting /\ rec.obj.commit.hash = h
RunSkips(w, h) == /\ run[w].cfg.autoHealDisabled
                  /\ run[w].pc \in {"get", "fetch", "decide"}
                  /\ run[w].pc = "decide" => run[w].hash = h
RunsSkip(k, h) == \A w \in Workers : job[w] = k => RunSkips(w, h)

DriftInv(k, r, h) == /\ live[k][r] = Changed
                     /\ VersionsRecord(k, h) /\ CopyRecords(k, h) /\ RunsSkip(k, h)

\* The first and the last version among them.
LEMMA EndsRecord ==
    ASSUME ApiTypeOK, NEW k \in Keys, NEW h, VersionsRecord(k, h)
    PROVE  Records(Cached(k), h) /\ Records(Stored(k), h)
<1>1. Len(versions[k]) \in Nat /\ Len(versions[k]) > 0
      BY DEF ApiTypeOK
<1>2. 1 \in 1 .. Len(versions[k]) /\ Len(versions[k]) \in 1 .. Len(versions[k])
      BY <1>1
<1> QED
    BY <1>2 DEF VersionsRecord, Cached, Stored

\* A write by anybody else than a user who deletes k records commit h.
LEMMA StepKeepsVersionsRecord ==
    ASSUME NInv, NEW k \in Keys, NEW r \in Resources, NEW h \in Hashes,
           DriftInv(k, r, h), ComponentStep,
           Stored(k)'.here, ~Stored(k)'.deleting
    PROVE  VersionsRecord(k, h)'
<1>1. /\ ApiTypeOK /\ RvInv /\ rec.obj \in Version
      /\ rec.pc # "idle" => rec.key \in Keys
      /\ \A w \in Workers : run[w].obj \in Version /\ (run[w].pc # "none" => job[w] \in Keys)
      BY TypeParts
<1>2. /\ versions[k] \in Seq(Version) /\ Len(versions[k]) \in Nat /\ Len(versions[k]) > 0
      /\ versions \in [Keys -> Seq(Version)]
      BY <1>1 DEF ApiTypeOK
<1>3. /\ VersionsRecord(k, h) /\ CopyRecords(k, h) /\ RunsSkip(k, h)
      /\ Records(Stored(k), h)
      BY <1>1, EndsRecord DEF DriftInv
<1>4. ASSUME Wrote(k), Stored(k)'.commit.hash = h PROVE VersionsRecord(k, h)'
  <2>1. /\ Len(versions'[k]) = Len(versions[k]) + 1
        /\ \A i \in 1 .. Len(versions[k]) : versions'[k][i] = versions[k][i]
        BY <1>4 DEF Wrote
  <2>2. ASSUME NEW i \in 1 .. Len(versions'[k]) PROVE Records(versions'[k][i], h)
    <3>1. CASE i \in 1 .. Len(versions[k])
          BY <1>3, <2>1, <3>1 DEF VersionsRecord
    <3>2. CASE i = Len(versions'[k])
          BY <1>4, <3>2 DEF Records, Stored
    <3>3. i \in 1 .. Len(versions[k]) \/ i = Len(versions'[k])
          BY <1>2, <2>1
    <3> QED
        BY <3>1, <3>2, <3>3
  <2> QED
      BY <2>2 DEF VersionsRecord
<1>5. ASSUME NEW j \in Keys \ {k}, Wrote(j) PROVE VersionsRecord(k, h)'
      BY <1>3, <1>5 DEF Wrote, VersionsRecord
<1>6. CASE UNCHANGED versions
      BY <1>3, <1>6 DEF VersionsRecord
<1>7. ASSUME NEW j \in Keys, Informer(j) PROVE VersionsRecord(k, h)'
  <2>1. CASE j # k
        BY <1>2, <1>3, <1>7, <2>1 DEF Informer, VersionsRecord
  <2>2. CASE j = k
    <3>1. /\ versions'[k] = Tail(versions[k])
          /\ Len(Tail(versions[k])) = Len(versions[k]) - 1
          /\ \A i \in 1 .. Len(versions[k]) - 1 : Tail(versions[k])[i] = versions[k][i + 1]
          BY <1>2, <1>7, <2>2 DEF Informer
    <3>2. \A i \in 1 .. Len(versions[k]) - 1 : i + 1 \in 1 .. Len(versions[k])
          BY <1>2
    <3> QED
        BY <1>3, <3>1, <3>2 DEF VersionsRecord
  <2> QED
      BY <2>1, <2>2
<1>8. CASE StartsAgain
  <2>1. versions'[k] = <<Stored(k)>>
        BY <1>8 DEF StartsAgain
  <2> QED
      BY <1>3, <2>1 DEF VersionsRecord
<1>9. CASE RecUpdates
  <2>1. rec.key \in Keys /\ UpdateFinalizer(rec.key, rec.obj)
        BY <1>1, <1>9 DEF RecUpdates
  <2>2. Wrote(rec.key) /\ (rec.key = k => Stored(k)'.commit = Stored(k).commit)
        BY <1>1, <1>3, <2>1, UpdateFinalizerEffect DEF Is, Records
  <2> QED
      BY <1>3, <1>4, <1>5, <2>1, <2>2 DEF Records
<1>10. CASE RecUpdatesStatus
  <2>1. rec.key \in Keys /\ UpdateStatus(rec.key, rec.obj)
        BY <1>1, <1>10 DEF RecUpdatesStatus
  <2>2. Wrote(rec.key) /\ (rec.key = k => Stored(k)'.commit = rec.obj.commit)
        BY <1>1, <2>1, UpdateStatusEffect DEF Is
  <2> QED
      BY <1>3, <1>4, <1>5, <2>1, <2>2 DEF CopyRecords
<1>11. ASSUME NEW w \in Workers, RunPutsStatus(w), UpdateStatus(job[w], run[w].obj)
       PROVE  VersionsRecord(k, h)'
  <2>1. run[w].pc = "statusPut"
        BY <1>11 DEF RunPutsStatus, Step
  <2>2. job[w] \in Keys /\ job[w] # k
        BY <1>1, <1>3, <2>1 DEF RunsSkip, RunSkips
  <2>3. Wrote(job[w])
        BY <1>1, <1>11, <2>2, UpdateStatusEffect
  <2> QED
      BY <1>5, <2>2, <2>3
<1>12. CASE UserActs
  <2>1. PICK j \in Keys : UserDeletes(j) \/ \E s \in Specs : UserCreates(j, s) \/ UserEdits(j, s)
        BY <1>12 DEF UserActs, UserStep
  <2>2. Wrote(j)
        BY <1>1, <2>1, CreateEffect, EditEffect, DeleteEffect
  <2>3. CASE j = k
    <3>1. ~UserDeletes(k)
          BY <1>1, DeleteEffect DEF Is
    <3>2. \A s \in Specs : ~UserCreates(k, s)
          BY <1>3 DEF UserCreates, Records
    <3>3. \A s \in Specs : UserEdits(k, s) => Stored(k)'.commit = Stored(k).commit
          BY <1>1, EditEffect DEF Is
    <3> QED
        BY <1>3, <1>4, <2>1, <2>2, <2>3, <3>1, <3>2, <3>3 DEF Records
  <2> QED
      BY <1>5, <2>2, <2>3
<1> QED
    BY <1>6, <1>7, <1>8, <1>9, <1>10, <1>11, <1>12, StepWrites

\* The edits of a copy leave its commit and its deletion mark alone.
LEMMA EditsKeepRecord ==
    ASSUME NEW v \in Version
    PROVE  /\ InitConditions(v).commit = v.commit /\ InitConditions(v).deleting = v.deleting
           /\ MarkRunning(v).commit = v.commit /\ MarkRunning(v).deleting = v.deleting
           /\ MarkNotApplicable(v).commit = v.commit
           /\ MarkNotApplicable(v).deleting = v.deleting
           /\ AddFinalizer(v).commit = v.commit /\ AddFinalizer(v).deleting = v.deleting
           /\ [v EXCEPT !.rv = v.rv + 1].commit = v.commit
           /\ [v EXCEPT !.rv = v.rv + 1].deleting = v.deleting
BY DEF Version, InitConditions, MarkRunning, MarkNotApplicable, AddFinalizer

\* The reconciler reads copies that record commit h and does not start a cascade.
LEMMA StepKeepsCopyRecords ==
    ASSUME NInv, NEW k \in Keys, NEW r \in Resources, NEW h \in Hashes,
           DriftInv(k, r, h), ComponentStep
    PROVE  CopyRecords(k, h)'
<1>1. /\ ApiTypeOK /\ RvInv /\ rec.obj \in Version
      BY TypeParts
<1>2. /\ CopyRecords(k, h) /\ Records(Cached(k), h) /\ Cached(k) \in Version
      BY <1>1, EndsRecord, StoredFacts DEF DriftInv
<1>3. rec \in [pc : {"idle", "cascade", "stop", "start", "update", "status"},
               key : Keys \cup {NoKey}, obj : Version, dirty : BOOLEAN]
      BY DEF NInv, TypeOK, RecTypeOK
<1>4. CASE rec' = rec
      BY <1>2, <1>4 DEF CopyRecords
<1>5. CASE rec' = Idle
      BY <1>5, KeysAssumption DEF CopyRecords, Idle
<1>6. ASSUME NEW pc, NEW o, NEW d, Continue(pc, o, d),
             rec.key = k => pc \in {"update", "status"} /\ ~o.deleting /\ o.commit.hash = h
      PROVE  CopyRecords(k, h)'
  <2>1. rec'.key = rec.key /\ rec'.pc = pc /\ rec'.obj = o
        BY <1>3, <1>6 DEF Continue
  <2> QED
      BY <1>6, <2>1 DEF CopyRecords
<1>7. ASSUME NEW o, NEW d, AfterReconcile(o, d),
             rec.key = k => ~o.deleting /\ o.commit.hash = h
      PROVE  CopyRecords(k, h)'
      BY <1>5, <1>6, <1>7 DEF AfterReconcile, Return
<1>8. ASSUME NEW j \in Keys, Reconcile(j) PROVE CopyRecords(k, h)'
  <2> DEFINE o == InitConditions(Cached(j))
  <2>1. /\ Cached(j) \in Version /\ o \in Version
        BY <1>1, StoredFacts, EditedCopies
  <2>2. j = k => /\ ~o.deleting /\ o.commit.hash = h
                 /\ ~MarkNotApplicable(o).deleting /\ MarkNotApplicable(o).commit.hash = h
                 /\ ~AddFinalizer(o).deleting /\ AddFinalizer(o).commit.hash = h
    <3>1. o.commit = Cached(j).commit /\ o.deleting = Cached(j).deleting
          BY <2>1, EditsKeepRecord
    <3> HIDE DEF o
    <3> QED
        BY <1>2, <2>1, <3>1, EditsKeepRecord DEF Records
  <2>3. CASE ReconcileMissing(j) \/ ReconcileInvalid(j)
        BY <1>4, <2>3 DEF ReconcileMissing, ReconcileInvalid
  <2>4. CASE ReconcileMismatch(j)
    <3>1. \/ rec' = Idle
          \/ rec' = [pc |-> "status", key |-> j, obj |-> MarkNotApplicable(o), dirty |-> FALSE]
          BY <2>4 DEF ReconcileMismatch
    <3> HIDE DEF o
    <3> QED
        BY <1>5, <2>2, <3>1 DEF CopyRecords
  <2>5. CASE ReconcileDeleting(j)
    <3>1. Cached(j).deleting /\ rec'.key = j
          BY <2>5 DEF ReconcileDeleting
    <3> QED
        BY <1>2, <3>1 DEF CopyRecords, Records
  <2>6. CASE ReconcileValid(j)
    <3>1. rec' = [pc |-> "start", key |-> j, obj |-> AddFinalizer(o),
                  dirty |-> NeedsUpdate(Cached(j), AddFinalizer(o))]
          BY <2>6 DEF ReconcileValid
    <3> HIDE DEF o
    <3> QED
        BY <2>2, <3>1 DEF CopyRecords
  <2> QED
      BY <1>8, <2>3, <2>4, <2>5, <2>6 DEF Reconcile
<1>9. ASSUME RecStep PROVE CopyRecords(k, h)'
  <2>1. CASE RecCascades
        BY <1>2, <1>6, <2>1 DEF RecCascades, CopyRecords
  <2>2. CASE RecStops
        BY <1>2, <1>7, <2>2 DEF RecStops, CopyRecords
  <2>3. CASE RecStarts
        BY <1>1, <1>2, <1>7, <2>3, EditsKeepRecord DEF RecStarts, CopyRecords
  <2>4. CASE RecUpdates
        BY <1>1, <1>2, <1>7, <2>4, EditsKeepRecord DEF RecUpdates, CopyRecords
  <2>5. CASE RecUpdatesStatus \/ RecConflicts
        BY <1>5, <2>5 DEF RecUpdatesStatus, RecConflicts, Return, ReturnError
  <2> QED
      BY <1>9, <2>1, <2>2, <2>3, <2>4, <2>5 DEF RecStep
<1>10. ASSUME RecFault \/ StartsAgain PROVE CopyRecords(k, h)'
      BY <1>5, <1>10 DEF RecFault, RecCascadeFails, RecWriteFails, ReturnError, StartsAgain
<1>11. ASSUME NEW w \in Workers, RunStep(w) \/ RunFault(w) \/ (\E j \in Keys : RunStarts(w, j))
      PROVE  rec' = rec
      BY <1>11, WorkerWatchesLess
<1> QED
    BY <1>4, <1>8, <1>9, <1>10, <1>11
    DEF ComponentStep, ReconcilerTakes, ReconcilerContinues, ReconcilerFails, WorkerTakes,
        WorkerContinues, WorkerFails, WorkerPanics, InformerDelivers, UserActs, OthersAct,
        Restart

\* A run on k reads the flag and the recorded hash and ends: it neither syncs
\* nor cascades.
LEMMA WorkerKeepsDrift ==
    ASSUME NInv, NEW k \in Keys, NEW r \in Resources, NEW h \in Hashes,
           DriftInv(k, r, h), HealOff(k, h),
           NEW w \in Workers, RunStep(w) \/ RunFault(w) \/ \E j \in Keys : RunStarts(w, j)
    PROVE  live'[k][r] = Changed /\ RunsSkip(k, h)'
<1>1. /\ live \in [Keys -> Live] /\ run \in [Workers -> Runs] /\ run[w] \in Runs
      /\ job \in [Workers -> Keys \cup {NoKey}]
      BY DEF NInv, TypeOK, ResTypeOK, RunTypeOK, Syncer!WSTypeOK
<1>2. /\ live[k][r] = Changed /\ RunsSkip(k, h)
      /\ Records(Cached(k), h) /\ h # 0 /\ NoCommit.hash = 0
      BY TypeParts, EndsRecord, HashesAssumption DEF DriftInv, NoCommit
<1>3. SUFFICES live'[k][r] = Changed /\ (job'[w] = k => RunSkips(w, h)')
      BY <1>2, WorkersAreApart DEF RunsSkip, RunSkips
<1>4. CASE \E j \in Keys : RunStarts(w, j)
  <2>1. live' = live /\ run' = [run EXCEPT ![w].pc = "get", ![w].cfg = config]
        BY <1>4 DEF RunStarts
  <2>2. run'[w].pc = "get" /\ run'[w].cfg = config
        BY <1>1, <2>1 DEF Runs
  <2> QED
      BY <1>2, <2>1, <2>2 DEF HealOff, RunSkips
<1>5. CASE (RunStep(w) \/ RunFault(w)) /\ job[w] # k
  <2>1. job'[w] # k
        BY <1>1, <1>5, KeysAssumption DEF RunStep, RunFault, RunGets, RunFetches, RunDecides,
           RunCompares, RunApplies, RunSyncs, RunGetsStatus, RunPutsStatus, RunCascades, RunStops,
           RunSyncFails, RunFails, RunCascadeFails, EndRun, Syncer!Finish, Syncer!FinishUnwatch
  <2>2. live'[k] = live[k]
        BY <1>1, <1>5 DEF RunStep, RunFault, RunGets, RunFetches, RunDecides, RunCompares,
           RunApplies, RunSyncs, RunGetsStatus, RunPutsStatus, RunCascades, RunStops, RunSyncFails,
           RunFails, RunCascadeFails, ProcessGitSyncDeletion, ProcessGitSyncDeletionFails,
           CascadeDeletion
  <2> QED
      BY <1>2, <2>1, <2>2
<1>6. CASE (RunStep(w) \/ RunFault(w)) /\ job[w] = k
  <2>1. /\ run[w].cfg.autoHealDisabled /\ run[w].pc \in {"get", "fetch", "decide"}
        /\ run[w].pc = "decide" => run[w].hash = h
        BY <1>2, <1>6 DEF RunsSkip, RunSkips
  <2>2. ASSUME EndRun(w) PROVE job'[w] # k
        BY <1>1, <2>2, KeysAssumption DEF EndRun, Syncer!Finish
  <2>3. CASE RunGets(w)
    <3>1. live' = live
          BY <2>3 DEF RunGets
    <3>2. \/ EndRun(w)
          \/ run' = [run EXCEPT ![w].pc = "fetch", ![w].obj = Cached(k)]
          BY <1>2, <1>6, <2>3 DEF RunGets, Records
    <3>3. CASE run' = [run EXCEPT ![w].pc = "fetch", ![w].obj = Cached(k)]
      <4>1. run'[w].pc = "fetch" /\ run'[w].cfg = run[w].cfg
            BY <1>1, <3>3 DEF Runs
      <4> QED
          BY <1>2, <2>1, <3>1, <4>1 DEF RunSkips
    <3> QED
        BY <1>2, <2>2, <3>1, <3>2, <3>3
  <2>4. CASE RunFetches(w)
    <3>1. run'[w].pc = "decide" /\ run'[w].cfg = run[w].cfg /\ run'[w].hash = head
          BY <1>1, <2>4 DEF RunFetches, Runs
    <3> QED
        BY <1>2, <2>1, <2>4, <3>1 DEF RunFetches, RunSkips, HealOff
  <2>5. CASE RunDecides(w)
    <3>1. Skips(w)
          BY <1>2, <1>6, <2>1, <2>5 DEF RunDecides, Skips, Step, Records
    <3> QED
        BY <1>2, <2>2, <2>5, <3>1 DEF RunDecides
  <2>6. CASE RunFails(w)
        BY <1>2, <2>2, <2>6 DEF RunFails
  <2> QED
      BY <1>6, <2>1, <2>3, <2>4, <2>5, <2>6 DEF RunStep, RunFault, RunCompares, RunApplies, RunSyncs,
         RunGetsStatus, RunPutsStatus, RunCascades, RunStops, RunSyncFails, RunCascadeFails, Step
<1> QED
    BY <1>4, <1>5, <1>6

\* Every step keeps the resources as they are while auto heal is off.
LEMMA StepKeepsDrift ==
    ASSUME NInv, [Next]_vars, NEW k \in Keys, NEW r \in Resources, NEW h \in Hashes,
           DriftInv(k, r, h), HealOff(k, h), HealOff(k, h)'
    PROVE  DriftInv(k, r, h)'
<1>1. CASE UNCHANGED vars
      BY <1>1 DEF vars, DriftInv, VersionsRecord, CopyRecords, RunsSkip, RunSkips
<1>2. CASE ComponentStep
  <2>1. VersionsRecord(k, h)' /\ CopyRecords(k, h)'
        BY <1>2, StepKeepsVersionsRecord, StepKeepsCopyRecords DEF HealOff
  <2>2. live'[k][r] = Changed /\ RunsSkip(k, h)'
    <3>1. live[k][r] = Changed /\ RunsSkip(k, h) /\ live \in [Keys -> Live]
          BY DEF DriftInv, NInv, TypeOK, ResTypeOK
    <3>2. CASE UNCHANGED <<live, run, job>>
          BY <3>1, <3>2 DEF RunsSkip, RunSkips
    <3>3. CASE /\ RecCascades \/ RecCascadeFails \/ \E j \in Keys : Drift(j)
               /\ UNCHANGED <<run, job>>
      <4>1. RecCascades \/ RecCascadeFails => rec.key # k
            BY DEF RecCascades, RecCascadeFails, DriftInv, CopyRecords
      <4>2. live'[k][r] = Changed
        <5>1. CASE RecCascades \/ RecCascadeFails
              BY <3>1, <4>1, <5>1 DEF RecCascades, RecCascadeFails, ProcessGitSyncDeletion,
                 ProcessGitSyncDeletionFails, CascadeDeletion
        <5>2. ASSUME NEW j \in Keys, Drift(j)
              PROVE  live'[k][r] = Changed
          <6>1. PICK x \in Resources : live' = [live EXCEPT ![j][x] = Changed]
                BY <5>2 DEF Drift
          <6>2. live[j] \in [Resources -> Contents \cup {Absent, Changed}]
                BY <3>1 DEF Live
          <6> QED
              BY <3>1, <6>1, <6>2
        <5> QED
            BY <3>3, <5>1, <5>2
      <4> QED
          BY <3>1, <3>3, <4>2 DEF RunsSkip, RunSkips
    <3>4. CASE StartsAgain
      <4>1. live' = live /\ job' = [w \in Workers |-> NoKey]
            BY <3>4 DEF StartsAgain
      <4> QED
          BY <3>1, <4>1, KeysAssumption DEF RunsSkip
    <3> QED
        BY <1>2, <3>2, <3>3, <3>4, StepOnResources, WorkerKeepsDrift
  <2> QED
      BY <2>1, <2>2 DEF DriftInv
<1> QED
    BY <1>1, <1>2 DEF Next

\* With auto heal off, resources that were changed by hand stay as they are
\* until there is a new commit, auto heal is turned on or the GitSync is deleted.
THEOREM DriftIsLeft == Spec => HealOffLeavesDrift
<1>1. ASSUME NEW k \in Keys, NEW r \in Resources, NEW h \in Hashes
      PROVE  Spec => [](Drifted(k, r, h) => [](live[k][r] = Changed) \/ <>~HealOff(k, h))
  <2>1. NInv /\ Drifted(k, r, h) => DriftInv(k, r, h)
    <3> SUFFICES ASSUME NInv, Drifted(k, r, h) PROVE DriftInv(k, r, h)
        OBVIOUS
    <3>1. VersionsRecord(k, h)
          BY DEF Drifted, VersionsRecord, Records, Cached
    <3> QED
        BY <3>1 DEF Drifted, DriftInv, CopyRecords, RunsSkip
  <2>2. NInv /\ [Next]_vars /\ DriftInv(k, r, h) /\ HealOff(k, h) /\ HealOff(k, h)'
           => DriftInv(k, r, h)'
        BY StepKeepsDrift
  <2>3. DriftInv(k, r, h) => live[k][r] = Changed
        BY DEF DriftInv
  <2> QED
      BY <2>1, <2>2, <2>3, ControllerInvariant, PTL DEF Spec
<1> QED
    BY <1>1 DEF HealOffLeavesDrift
=============================================================================
