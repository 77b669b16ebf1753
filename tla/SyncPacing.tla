----------------------------- MODULE SyncPacing -----------------------------
(***************************************************************************)
(* How long the assigner of SyncQueue sleeps between two assignments       *)
(* (Start(), internal/sync/syncer.go), and with it how often a key has its *)
(* turn.  The length of the list is read before the sleep, so the list may *)
(* change while the assigner sleeps: reading it is a step of its own here. *)
(***************************************************************************)
EXTENDS SyncQueue, Integers

CONSTANT TaskIntervals  \* syncTimeIntervalMs of the configuration, 0 if it is missing

ASSUME IntervalAssumption == TaskIntervals \subseteq Nat

VARIABLES
    taskInterval,  \* options.taskInterval
    asleep,        \* the argument of the time.Sleep in progress, or Awake
    waited,        \* history: waited[k], milliseconds slept since k was last assigned
    steady         \* history: steady[k], no key came or went since then

pacingVars == <<vars, taskInterval, asleep, waited, steady>>

Awake == -1

\* Mutant: without the minimum the assigner spins.
SleepMayBeZero(l) == IF l = 0 THEN taskInterval ELSE taskInterval \div l

\* The argument of time.Sleep, for a list of l keys.
SleepFor(l) == IF l = 0 THEN taskInterval
               ELSE IF taskInterval \div l > 0 THEN taskInterval \div l ELSE 1

PInit == /\ QInit
         /\ taskInterval \in TaskIntervals
         /\ asleep = Awake
         /\ waited = [k \in Keys |-> 0]
         /\ steady = [k \in Keys |-> FALSE]

\* Length() under the read lock, and the sleep begins.
FallsAsleep == /\ pc = "sleep"
               /\ asleep = Awake
               /\ asleep' = SleepFor(Len(gitSyncList))
               /\ UNCHANGED <<vars, taskInterval, waited, steady>>

\* The sleep is over.
Wakes == /\ asleep # Awake
         /\ AssignerWakes
         /\ asleep' = Awake
         /\ waited' = [k \in Keys |-> IF steady[k] THEN waited[k] + asleep ELSE 0]
         /\ UNCHANGED <<taskInterval, steady>>

\* The front key has its turn: its time is counted from here.
Assigns == /\ Assign
           /\ waited' = [waited EXCEPT ![sendKey'] = 0]
           /\ steady' = [steady EXCEPT ![sendKey'] = TRUE]
           /\ UNCHANGED <<taskInterval, asleep>>

\* A key that comes or goes changes the pace of all of them.
CountsAfresh == /\ steady' = [k \in Keys |-> steady[k] /\ gitSyncMap' = gitSyncMap]
                /\ waited' = [k \in Keys |-> IF steady'[k] THEN waited[k] ELSE 0]
                /\ UNCHANGED <<taskInterval, asleep>>

Others == \/ ReconcilerCalls \/ ReconcilerReturns
          \/ AssignerReturns \/ AssignNothing \/ Cancel
          \/ \E w \in Workers : \/ Rendezvous(w) \/ WorkerFinishes(w) \/ WorkerFindsGone(w)
                                \/ WorkerStopsWatching(w) \/ WorkerExits(w)

PNext == FallsAsleep \/ Wakes \/ Assigns \/ (Others /\ CountsAfresh)

PSpec == PInit /\ [][PNext]_pacingVars

\* "each of the keys will be assigned at most every N milliseconds": as long as
\* no key comes or goes, the assigner's sleeps from one turn of a key to its
\* next add up to the task interval, less at most what the division loses, or
\* to one millisecond for each key if there are more keys than milliseconds.
TurnTakesInterval ==
    [][\A k \in Keys : Assign /\ sendKey' = k /\ steady[k]
          => LET l == Len(gitSyncList)
             IN /\ waited[k] <= (IF taskInterval > l THEN taskInterval ELSE l)
                /\ waited[k] > taskInterval - l
                /\ waited[k] >= l]_pacingVars
=============================================================================
