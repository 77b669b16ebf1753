----------------------------- MODULE SyncQueue -----------------------------
(***************************************************************************)
(* The task queue of the synchronizer, internal/sync/syncer.go: the list   *)
(* and the map of watched keys under one mutex, the job assigner of        *)
(* Start(), the unbuffered channel keyCh and the worker goroutines.        *)
(*                                                                         *)
(* The mutex is held across steps in one place only: assign() sends on     *)
(* keyCh while it holds the write lock.  Every other critical section is a *)
(* single step that needs the lock to be free.                             *)
(***************************************************************************)
EXTENDS Naturals, Sequences, FiniteSets, SequencesExt

CONSTANTS
    Keys,        \* the keys the reconciler may watch
    Workers,     \* options.workers goroutines
    NoKey,       \* no key
    Vanishing,   \* keys whose GitSync a worker may find missing or deleted
    CanCancel    \* whether the manager may cancel the context

ASSUME KeysAssumption == NoKey \notin Keys
ASSUME VanishingAssumption == Vanishing \subseteq Keys
ASSUME CancelAssumption == CanCancel \in BOOLEAN

VARIABLES
    gitSyncList,  \* the list of watched keys, front first
    gitSyncMap,   \* the keys that have a list element
    pc,           \* the assigner: "select", "send", "sleep", "returned"
    sendKey,      \* the key the assigner is sending on keyCh, or NoKey
    wpc,          \* wpc[w]: "idle", "busy", "stopping" or "exited"
    job,          \* job[w]: the key worker w received, or NoKey
    call,         \* the reconciler's pending StartWatching / StopWatching
    ctxDone,      \* the context has been cancelled
    overtakes     \* history: overtakes[k][j] counts how often j was assigned
                  \* since k was last put at the back of the list

vars == <<gitSyncList, gitSyncMap, pc, sendKey, wpc, job, call, ctxDone, overtakes>>

NoCall == [op |-> "none", key |-> NoKey]
Calls == [op : {"start", "stop"}, key : Keys]
NeverOvertaken == [j \in Keys |-> 0]

\* Mutant: assign() sends after unlocking.
AlwaysFree == pc \in {"select", "send", "sleep", "returned"}

\* assign() keeps the write lock while it blocks on the channel.
LockFree == pc # "send"

PositionOf(k) == CHOOSE i \in DOMAIN gitSyncList : gitSyncList[i] = k

QInit == /\ gitSyncList = <<>>
         /\ gitSyncMap = {}
         /\ pc = "select"
         /\ sendKey = NoKey
         /\ wpc = [w \in Workers |-> "idle"]
         /\ job = [w \in Workers |-> NoKey]
         /\ call = NoCall
         /\ ctxDone = FALSE
         /\ overtakes = [k \in Keys |-> NeverOvertaken]

-----------------------------------------------------------------------------
(* The critical sections of StartWatching and StopWatching.                *)

\* Mutant: a new key goes to the front.
PushFront(k) ==
    \/ /\ k \notin gitSyncMap
       /\ gitSyncList' = <<k>> \o gitSyncList
       /\ gitSyncMap' = gitSyncMap \cup {k}
       /\ overtakes' = [overtakes EXCEPT ![k] = NeverOvertaken]
    \/ k \in gitSyncMap /\ UNCHANGED <<gitSyncList, gitSyncMap, overtakes>>

\* Mutant: the map is not consulted.
PushTwice(k) ==
    /\ gitSyncList' = Append(gitSyncList, k)
    /\ gitSyncMap' = gitSyncMap \cup {k}
    /\ overtakes' = [overtakes EXCEPT ![k] = NeverOvertaken]

StartWatching(k) ==
    \/ /\ k \notin gitSyncMap
       /\ gitSyncList' = Append(gitSyncList, k)
       /\ gitSyncMap' = gitSyncMap \cup {k}
       /\ overtakes' = [overtakes EXCEPT ![k] = NeverOvertaken]
    \/ k \in gitSyncMap /\ UNCHANGED <<gitSyncList, gitSyncMap, overtakes>>

StopWatching(k) ==
    \/ /\ k \in gitSyncMap
       /\ gitSyncList' = RemoveAt(gitSyncList, PositionOf(k))
       /\ gitSyncMap' = gitSyncMap \ {k}
       /\ UNCHANGED overtakes
    \/ k \notin gitSyncMap /\ UNCHANGED <<gitSyncList, gitSyncMap, overtakes>>

-----------------------------------------------------------------------------
(* The reconciler, one goroutine (MaxConcurrentReconciles is 1), calls     *)
(* StartWatching or StopWatching and waits for the lock.                   *)

ReconcilerCalls ==
    /\ call = NoCall
    /\ ~ctxDone
    /\ call' \in Calls
    /\ UNCHANGED <<gitSyncList, gitSyncMap, pc, sendKey, wpc, job, ctxDone, overtakes>>

ReconcilerReturns ==
    /\ call # NoCall
    /\ LockFree
    /\ \/ call.op = "start" /\ StartWatching(call.key)
       \/ call.op = "stop" /\ StopWatching(call.key)
    /\ call' = NoCall
    /\ UNCHANGED <<pc, sendKey, wpc, job, ctxDone>>

-----------------------------------------------------------------------------
(* The job assigner: the for loop of Start() and its closure assign().     *)

\* <-ctx.Done() is ready: Start returns.
AssignerReturns ==
    /\ pc = "select"
    /\ ctxDone
    /\ pc' = "returned"
    /\ UNCHANGED <<gitSyncList, gitSyncMap, sendKey, wpc, job, call, ctxDone, overtakes>>

\* Mutant: Start returns when there is nothing to assign.
ReturnsWhenEmpty ==
    /\ pc = "select"
    /\ ~ctxDone
    /\ gitSyncList = <<>>
    /\ pc' = "returned"
    /\ UNCHANGED <<gitSyncList, gitSyncMap, sendKey, wpc, job, call, ctxDone, overtakes>>

\* assign() with an empty list.
AssignNothing ==
    /\ pc = "select"
    /\ ~ctxDone
    /\ gitSyncList = <<>>
    /\ pc' = "sleep"
    /\ UNCHANGED <<gitSyncList, gitSyncMap, sendKey, wpc, job, call, ctxDone, overtakes>>

\* The history variable: k goes to the back, every other watched key has
\* been overtaken by k once more.
CountOvertakes(k) ==
    overtakes' = [i \in Keys |->
                    CASE i = k -> NeverOvertaken
                      [] i # k /\ i \in gitSyncMap ->
                            [overtakes[i] EXCEPT ![k] = @ + 1]
                      [] OTHER -> overtakes[i]]

\* assign() locks, moves the front element to the back and starts to send it.
Assign ==
    /\ pc = "select"
    /\ ~ctxDone
    /\ gitSyncList # <<>>
    /\ sendKey' = Head(gitSyncList)
    /\ gitSyncList' = Append(Tail(gitSyncList), Head(gitSyncList))
    /\ CountOvertakes(Head(gitSyncList))
    /\ pc' = "send"
    /\ UNCHANGED <<gitSyncMap, wpc, job, call, ctxDone>>

\* Mutant: assign() does not unlock.
NeverUnlocks(w) ==
    /\ pc = "send"
    /\ wpc[w] = "idle"
    /\ wpc' = [wpc EXCEPT ![w] = "busy"]
    /\ job' = [job EXCEPT ![w] = sendKey]
    /\ sendKey' = NoKey
    /\ UNCHANGED <<pc, gitSyncList, gitSyncMap, call, ctxDone, overtakes>>

\* keyCh is unbuffered: the send completes when a worker receives.  assign()
\* then returns and unlocks.
Rendezvous(w) ==
    /\ pc = "send"
    /\ wpc[w] = "idle"
    /\ wpc' = [wpc EXCEPT ![w] = "busy"]
    /\ job' = [job EXCEPT ![w] = sendKey]
    /\ sendKey' = NoKey
    /\ pc' = "sleep"
    /\ UNCHANGED <<gitSyncList, gitSyncMap, call, ctxDone, overtakes>>

\* time.Sleep, and the read lock of Length() that computes its argument.
AssignerWakes ==
    /\ pc = "sleep"
    /\ pc' = "select"
    /\ UNCHANGED <<gitSyncList, gitSyncMap, sendKey, wpc, job, call, ctxDone, overtakes>>

-----------------------------------------------------------------------------
(* A worker: run() and the part of runOnce() that touches the queue.       *)

WorkerFinishes(w) ==
    /\ wpc[w] = "busy"
    /\ wpc' = [wpc EXCEPT ![w] = "idle"]
    /\ job' = [job EXCEPT ![w] = NoKey]
    /\ UNCHANGED <<gitSyncList, gitSyncMap, pc, sendKey, call, ctxDone, overtakes>>

\* runOnce finds the GitSync missing or being deleted, and calls StopWatching.
WorkerFindsGone(w) ==
    /\ wpc[w] = "busy"
    /\ job[w] \in Vanishing
    /\ wpc' = [wpc EXCEPT ![w] = "stopping"]
    /\ UNCHANGED <<gitSyncList, gitSyncMap, pc, sendKey, job, call, ctxDone, overtakes>>

WorkerStopsWatching(w) ==
    /\ wpc[w] = "stopping"
    /\ LockFree
    /\ StopWatching(job[w])
    /\ wpc' = [wpc EXCEPT ![w] = "idle"]
    /\ job' = [job EXCEPT ![w] = NoKey]
    /\ UNCHANGED <<pc, sendKey, call, ctxDone>>

\* Mutant: run() without the case <-ctx.Done().
NeverExits(w) == wpc[w] = "exited" /\ UNCHANGED vars

\* run()'s select takes <-ctx.Done(); with a key ready as well it takes either.
WorkerExits(w) ==
    /\ wpc[w] = "idle"
    /\ ctxDone
    /\ wpc' = [wpc EXCEPT ![w] = "exited"]
    /\ UNCHANGED <<gitSyncList, gitSyncMap, pc, sendKey, job, call, ctxDone, overtakes>>

\* The manager shuts down.
Cancel ==
    /\ CanCancel
    /\ ~ctxDone
    /\ ctxDone' = TRUE
    /\ UNCHANGED <<gitSyncList, gitSyncMap, pc, sendKey, wpc, job, call, overtakes>>

-----------------------------------------------------------------------------
QNext == \/ ReconcilerCalls \/ ReconcilerReturns
         \/ AssignerReturns \/ AssignNothing \/ Assign \/ AssignerWakes
         \/ \E w \in Workers : \/ Rendezvous(w)
                               \/ WorkerFinishes(w)
                               \/ WorkerFindsGone(w)
                               \/ WorkerStopsWatching(w)
                               \/ WorkerExits(w)
         \/ Cancel

QSpec == QInit /\ [][QNext]_vars

(***************************************************************************)
(* Fairness.  A goroutine that can run runs (weak fairness); runOnce ends; *)
(* a goroutine that waits for a sync.RWMutex gets it even if others keep   *)
(* taking it (Go's mutex hands over to a waiter that starves): strong      *)
(* fairness of the two calls that wait.  Nothing is assumed of the         *)
(* reconciler's calls, of Cancel, or of which outcome runOnce has.         *)
(***************************************************************************)
QFairness ==
    /\ WF_vars(AssignerReturns \/ AssignNothing \/ Assign \/ AssignerWakes)
    /\ WF_vars(\E w \in Workers : Rendezvous(w))
    /\ SF_vars(ReconcilerReturns)
    /\ \A w \in Workers : /\ WF_vars(WorkerFinishes(w) \/ WorkerFindsGone(w))
                          /\ SF_vars(WorkerStopsWatching(w))
                          /\ WF_vars(WorkerExits(w))

FairQSpec == QSpec /\ QFairness

-----------------------------------------------------------------------------
(* Properties.                                                             *)

\* The sets the variables range over.
QTypes ==
    /\ gitSyncList \in Seq(Keys)
    /\ gitSyncMap \subseteq Keys
    /\ pc \in {"select", "send", "sleep", "returned"}
    /\ sendKey \in Keys \cup {NoKey}
    /\ wpc \in [Workers -> {"idle", "busy", "stopping", "exited"}]
    /\ job \in [Workers -> Keys \cup {NoKey}]
    /\ call \in Calls \cup {NoCall}
    /\ ctxDone \in BOOLEAN
    /\ overtakes \in [Keys -> [Keys -> Nat]]

\* A worker has a task exactly while it is busy with it or about to stop
\* watching its key.
JobInv == \A w \in Workers :
            (job[w] # NoKey) <=> (wpc[w] \in {"busy", "stopping"})

\* Every variable of the queue has its type, and what a worker received from
\* keyCh is a key.
QTypeOK == QTypes /\ JobInv

\* gitSyncMap and gitSyncList describe the same set: every key of the map has
\* exactly one element in the list, and the list holds no other key.  What
\* StartWatching, StopWatching and assign() each rely on when they use one of
\* the two structures to decide about the other.
ListMatchesMap ==
    /\ \A i, j \in DOMAIN gitSyncList : gitSyncList[i] = gitSyncList[j] => i = j
    /\ \A i \in DOMAIN gitSyncList : gitSyncList[i] \in gitSyncMap
    /\ \A k \in gitSyncMap : \E i \in DOMAIN gitSyncList : gitSyncList[i] = k

\* Because assign() keeps the write lock while it sends, the key a worker is
\* about to receive is still watched: no StopWatching that has returned is
\* followed by the start of a new synchronization of its key.
InFlightIsWatched == pc = "send" => sendKey \in gitSyncMap

\* The queue is round robin whatever the callers do: while a key waits for its
\* turn (since it was added or last assigned) no other key is assigned twice.
BoundedOvertaking ==
    \A k \in gitSyncMap : \A j \in Keys : overtakes[k][j] <= 1

\* Every key that stays watched is handed to a worker: "it makes sure each
\* element in the list will be assigned" (the loop of Start()).
EveryWatchedKeyIsAssigned ==
    \A k \in Keys : (k \in gitSyncMap)
        ~> ((\E w \in Workers : job[w] = k) \/ k \notin gitSyncMap \/ ctxDone)

\* assign() holds the lock and waits for a receiver, and every worker that is
\* left waits for the lock.
Blocked == pc = "send" /\ \A w \in Workers : wpc[w] \in {"stopping", "exited"}

\* The same although workers find GitSyncs gone and stop watching them: being
\* Blocked is the only way in which a watched key can be passed over for good.
AssignedUnlessBlocked == []~Blocked => EveryWatchedKeyIsAssigned

\* A StartWatching or StopWatching call of the reconciler returns: it is not
\* blocked for ever by the assigner, which holds the lock while it sends, nor
\* by workers that stop watching other keys, unless they are Blocked.
ReconcilerCallReturns ==
    []~Blocked => ((call # NoCall) ~> (call = NoCall \/ ctxDone))

\* When the context is cancelled every worker returns from run(), also one that
\* is about to stop watching its key, unless they are Blocked.
WorkersStop == []~Blocked => (ctxDone ~> \A w \in Workers : wpc[w] = "exited")

\* When the context is cancelled the synchronizer ends: Start returns.
SynchronizerStops == ctxDone ~> (pc = "returned")

\* The queue implements the abstract watched set: a key is only handed out
\* while it is watched, to a worker that has no other task.
Watching == INSTANCE WatchSet WITH watched <- gitSyncMap
ImplementsWatchSet == Watching!WSSpec
=============================================================================
