-------------------------- MODULE SyncPacingProofs --------------------------
(***************************************************************************)
(* Proofs about the pace of the assigner, for every set of keys, number of *)
(* workers and task interval: as long as no key comes or goes, the sleeps  *)
(* between two turns of a key add up to the task interval, up to what the  *)
(* integer division loses.                                                 *)
(***************************************************************************)
EXTENDS SyncPacing, SyncQueueProofs

PTypes == /\ taskInterval \in Nat
          /\ asleep \in Nat \cup {Awake}
          /\ waited \in [Keys -> Nat]
          /\ steady \in [Keys -> BOOLEAN]

\* The sleep of a list of this length is also the one in progress if some key
\* has seen no change.
SleepInv == /\ asleep # Awake => pc = "sleep"
            /\ asleep # Awake /\ (\E k \in Keys : steady[k]) => asleep = SleepFor(Len(gitSyncList))

\* How many sleeps are over since the key at position i had its turn: one for
\* each turn of a key that stands behind it now, and one more before an assignment.
Sleeps(i) == IF pc \in {"select", "returned"} THEN Len(gitSyncList) - i + 1
             ELSE Len(gitSyncList) - i

\* A steady key is in the list and has waited that many sleeps.
PaceInv == /\ \A k \in Keys : steady[k] => k \in gitSyncMap
           /\ \A i \in 1 .. Len(gitSyncList) :
                 steady[gitSyncList[i]]
                    => waited[gitSyncList[i]] = Sleeps(i) * SleepFor(Len(gitSyncList))

\* The inductive invariant.
PInv == QInv /\ PTypes /\ SleepInv /\ PaceInv

-----------------------------------------------------------------------------
(* Arithmetic.                                                             *)

\* One more sleep.
LEMMA OneMore ==
    ASSUME NEW n \in Nat, NEW s \in Nat
    PROVE  n * s \in Nat /\ (n + 1) * s = n * s + s /\ 0 * s = 0
OBVIOUS

\* What integer division loses is less than the divisor.
LEMMA Division ==
    ASSUME NEW t \in Nat, NEW l \in Nat \ {0}
    PROVE  /\ t \div l \in Nat
           /\ l * (t \div l) <= t
           /\ l * (t \div l) > t - l
OBVIOUS

\* The argument of time.Sleep is a number of milliseconds, and l of them add up
\* to the task interval.
LEMMA SleepsAddUp ==
    ASSUME taskInterval \in Nat, NEW l \in Nat
    PROVE  /\ SleepFor(l) \in Nat
           /\ l > 0 => /\ l * SleepFor(l) <= (IF taskInterval > l THEN taskInterval ELSE l)
                       /\ l * SleepFor(l) > taskInterval - l
                       /\ l * SleepFor(l) >= l
<1>1. CASE l = 0
      BY <1>1 DEF SleepFor
<1>2. CASE l > 0
  <2> DEFINE q == taskInterval \div l
  <2>1. q \in Nat /\ l * q <= taskInterval /\ l * q > taskInterval - l
        BY <1>2, Division
  <2>2. SleepFor(l) = IF q > 0 THEN q ELSE 1
        BY <1>2 DEF SleepFor
  <2> HIDE DEF q
  <2>3. CASE q > 0
    <3>1. q - 1 \in Nat /\ q = (q - 1) + 1
          BY <2>1, <2>3
    <3>2. l * (q - 1) \in Nat /\ l * q = l * (q - 1) + l
          BY <3>1
    <3>3. l * q \in Nat /\ l * q >= l
          BY <3>2
    <3> QED
        BY <1>2, <2>1, <2>2, <2>3, <3>3
  <2>4. CASE q = 0
    <3>1. l * q = 0 /\ l * 1 = l
          BY <2>4
    <3> QED
        BY <1>2, <2>1, <2>2, <2>4, <3>1
  <2> QED
      BY <2>1, <2>3, <2>4
<1> QED
    BY <1>1, <1>2

-----------------------------------------------------------------------------
(* The inductive invariant.                                                *)

\* Every step of the paced queue is a step of the queue.
LEMMA PacedStepIsQueueStep == [PNext]_pacingVars => [QNext]_vars
  BY DEF PNext, pacingVars, FallsAsleep, Wakes, Assigns, Others, QNext

\* NewSyncer starts with no key and the assigner awake.
LEMMA InitEstablishesPInv == PInit => PInv
<1> SUFFICES ASSUME PInit PROVE PInv
    OBVIOUS
<1>1. QInv
      BY InitEstablishesQInv DEF PInit
<1>2. PTypes
      BY IntervalAssumption DEF PInit, PTypes
<1>3. SleepInv
      BY DEF PInit, SleepInv
<1>4. \A k \in Keys : ~steady[k]
      BY DEF PInit
<1>5. Len(gitSyncList) = 0
      BY DEF PInit, QInit
<1>6. PaceInv
      BY <1>4, <1>5 DEF PaceInv
<1> QED
    BY <1>1, <1>2, <1>3, <1>6 DEF PInv

\* A critical section of StartWatching or StopWatching that leaves the map alone
\* leaves the list alone too.
LEMMA SameMapSameList ==
    ASSUME NEW k \in Keys, StartWatching(k) \/ StopWatching(k), gitSyncMap' = gitSyncMap
    PROVE  gitSyncList' = gitSyncList
  BY DEF StartWatching, StopWatching

\* The steps that are not the assigner's sleep or its assignments: they change
\* the list only with the map, and move the assigner on only after a send, with
\* nothing to assign, or to its end.
LEMMA OtherSteps ==
    ASSUME QInv, Others
    PROVE  /\ gitSyncMap' = gitSyncMap => gitSyncList' = gitSyncList
           /\ \/ pc' = pc
              \/ pc = "send" /\ pc' = "sleep"
              \/ pc = "select" /\ pc' = "sleep" /\ gitSyncList = <<>> /\ gitSyncList' = <<>>
              \/ pc = "select" /\ pc' = "returned"
<1>t. QTypes /\ JobInv
      BY DEF QInv
<1>1. CASE ReconcilerReturns
  <2>1. call.key \in Keys
        BY <1>1, <1>t DEF ReconcilerReturns, QTypes, Calls
  <2> QED
      BY <1>1, <2>1, SameMapSameList DEF ReconcilerReturns
<1>2. ASSUME NEW w \in Workers, WorkerStopsWatching(w)
      PROVE  (gitSyncMap' = gitSyncMap => gitSyncList' = gitSyncList) /\ pc' = pc
  <2>1. job[w] \in Keys
        BY <1>2, <1>t DEF WorkerStopsWatching, JobInv, QTypes
  <2> QED
      BY <1>2, <2>1, SameMapSameList DEF WorkerStopsWatching
<1>3. CASE ReconcilerCalls \/ AssignerReturns \/ AssignNothing \/ Cancel
      BY <1>3 DEF ReconcilerCalls, AssignerReturns, AssignNothing, Cancel
<1>4. ASSUME NEW w \in Workers,
             Rendezvous(w) \/ WorkerFinishes(w) \/ WorkerFindsGone(w) \/ WorkerExits(w)
      PROVE  /\ gitSyncList' = gitSyncList
             /\ pc' = pc \/ (pc = "send" /\ pc' = "sleep")
      BY <1>4 DEF Rendezvous, WorkerFinishes, WorkerFindsGone, WorkerExits
<1> QED
    BY <1>1, <1>2, <1>3, <1>4 DEF Others

\* Falling asleep: the argument of time.Sleep is computed from this list.
LEMMA FallsAsleepKeepsPace ==
    ASSUME PInv, FallsAsleep
    PROVE  PTypes' /\ SleepInv' /\ PaceInv'
<1>1. Len(gitSyncList) \in Nat
      BY ListInvFacts DEF PInv, QInv
<1>2. taskInterval \in Nat
      BY DEF PInv, PTypes
<1>3. SleepFor(Len(gitSyncList)) \in Nat
      BY <1>1, <1>2, SleepsAddUp
<1>4. /\ UNCHANGED <<gitSyncList, gitSyncMap, pc, taskInterval, waited, steady>>
      /\ pc = "sleep"
      /\ asleep' = SleepFor(Len(gitSyncList))
      BY DEF FallsAsleep, vars
<1>5. PTypes'
      BY <1>3, <1>4 DEF PInv, PTypes
<1>6. SleepFor(Len(gitSyncList))' = SleepFor(Len(gitSyncList))
      BY <1>4 DEF SleepFor
<1>7. SleepInv'
      BY <1>4, <1>6 DEF SleepInv
<1>8. PaceInv'
      BY <1>4 DEF PInv, PaceInv, Sleeps, SleepFor
<1> QED
    BY <1>5, <1>7, <1>8

\* Waking up: every steady key has waited one more sleep.
LEMMA WakesKeepsPace ==
    ASSUME PInv, Wakes
    PROVE  PTypes' /\ SleepInv' /\ PaceInv'
<1> DEFINE l == Len(gitSyncList)
           s == SleepFor(l)
<1>1. l \in Nat /\ \A i \in 1 .. l : gitSyncList[i] \in Keys
      BY ListInvFacts DEF PInv, QInv
<1>2. /\ taskInterval \in Nat /\ asleep \in Nat
      /\ waited \in [Keys -> Nat] /\ steady \in [Keys -> BOOLEAN]
      BY DEF PInv, PTypes, Wakes
<1>3. s \in Nat
      BY <1>1, <1>2, SleepsAddUp
<1>4. /\ UNCHANGED <<gitSyncList, gitSyncMap, taskInterval, steady>>
      /\ pc = "sleep" /\ pc' = "select"
      /\ asleep' = Awake /\ asleep # Awake
      /\ waited' = [k \in Keys |-> IF steady[k] THEN waited[k] + asleep ELSE 0]
      BY DEF Wakes, AssignerWakes
<1>5. PTypes'
  <2>1. \A k \in Keys : (IF steady[k] THEN waited[k] + asleep ELSE 0) \in Nat
        BY <1>2
  <2>2. waited' \in [Keys -> Nat]
        BY <1>4, <2>1
  <2> QED
      BY <1>2, <1>4, <2>2 DEF PTypes
<1>6. SleepInv'
      BY <1>4 DEF SleepInv
<1>7. ASSUME NEW i \in 1 .. l, steady[gitSyncList[i]]
      PROVE  waited'[gitSyncList[i]] = (l - i + 1) * s
  <2>1. gitSyncList[i] \in Keys
        BY <1>1
  <2>2. asleep = s
        BY <1>4, <1>7, <2>1 DEF PInv, SleepInv
  <2>3. waited[gitSyncList[i]] = (l - i) * s
        BY <1>4, <1>7 DEF PInv, PaceInv, Sleeps
  <2>4. waited'[gitSyncList[i]] = waited[gitSyncList[i]] + asleep
        BY <1>4, <1>7, <2>1
  <2>5. l - i \in Nat
        BY <1>1
  <2> HIDE DEF l, s
  <2>6. (l - i + 1) * s = (l - i) * s + s
        BY <1>3, <2>5, OneMore
  <2> QED
      BY <2>2, <2>3, <2>4, <2>6
<1>8. PaceInv'
  <2>1. Len(gitSyncList)' = l /\ SleepFor(Len(gitSyncList))' = s
        BY <1>4 DEF SleepFor
  <2>2. \A i \in 1 .. l : Sleeps(i)' = l - i + 1
        BY <1>4 DEF Sleeps
  <2>3. \A k \in Keys : steady'[k] => k \in gitSyncMap'
        BY <1>4 DEF PInv, PaceInv
  <2> HIDE DEF l, s
  <2> QED
      BY <1>4, <1>7, <2>1, <2>2, <2>3 DEF PaceInv
<1> QED
    BY <1>5, <1>6, <1>8

\* An assignment: the front key starts to count at the back, the others move up
\* by one, and no sleep is over for them in between.
LEMMA AssignsKeepsPace ==
    ASSUME PInv, Assigns
    PROVE  PTypes' /\ SleepInv' /\ PaceInv'
<1> DEFINE l == Len(gitSyncList)
           s == SleepFor(l)
           f == gitSyncList[1]
<1>1. /\ l \in Nat
      /\ \A i \in 1 .. l : gitSyncList[i] \in Keys /\ gitSyncList[i] \in gitSyncMap
      /\ \A i, j \in 1 .. l : gitSyncList[i] = gitSyncList[j] => i = j
      BY ListInvFacts DEF PInv, QInv
<1>2. /\ taskInterval \in Nat /\ asleep \in Nat \cup {Awake}
      /\ waited \in [Keys -> Nat] /\ steady \in [Keys -> BOOLEAN]
      BY DEF PInv, PTypes
<1>3. s \in Nat
      BY <1>1, <1>2, SleepsAddUp
<1>4. /\ gitSyncList \in Seq(Keys) /\ gitSyncList # <<>>
      /\ gitSyncList' = Append(Tail(gitSyncList), Head(gitSyncList))
      /\ sendKey' = Head(gitSyncList)
      /\ UNCHANGED <<gitSyncMap, taskInterval, asleep>>
      /\ pc = "select" /\ pc' = "send"
      BY DEF Assigns, Assign, PInv, QInv, ListInv
<1>5. /\ l \in Nat \ {0} /\ Len(gitSyncList') = l
      /\ \A x \in 1 .. l :
            gitSyncList'[x] = IF x = l THEN gitSyncList[1] ELSE gitSyncList[x + 1]
      BY <1>4, MoveToBackElements
<1>6. sendKey' = f /\ f \in Keys /\ f \in gitSyncMap
  <2>1. 1 \in 1 .. l
        BY <1>5
  <2> QED
      BY <1>1, <1>4, <2>1
<1>7. /\ waited' = [waited EXCEPT ![f] = 0]
      /\ steady' = [steady EXCEPT ![f] = TRUE]
      BY <1>6 DEF Assigns
<1>8. PTypes'
      BY <1>2, <1>4, <1>6, <1>7 DEF PTypes
<1>9. asleep = Awake
      BY <1>4 DEF PInv, SleepInv
<1>10. SleepInv'
      BY <1>4, <1>9 DEF SleepInv, Awake
<1>11. SleepFor(Len(gitSyncList))' = s
      BY <1>4, <1>5 DEF SleepFor
<1>12. \A i \in 1 .. l : Sleeps(i)' = l - i
      BY <1>4, <1>5 DEF Sleeps
<1>13. ASSUME NEW i \in 1 .. l, steady'[gitSyncList'[i]]
       PROVE  waited'[gitSyncList'[i]] = (l - i) * s
  <2>1. CASE i = l
    <3>1. gitSyncList'[i] = f /\ waited'[f] = 0
          BY <1>2, <1>5, <1>6, <1>7, <2>1
    <3> HIDE DEF l, s
    <3>2. l - i = 0 /\ 0 * s = 0
          BY <1>1, <1>3, <2>1
    <3> QED
        BY <3>1, <3>2
  <2>2. CASE i # l
    <3>1. i + 1 \in 1 .. l /\ 1 \in 1 .. l /\ gitSyncList'[i] = gitSyncList[i + 1]
          BY <1>5, <2>2
    <3>2. gitSyncList[i + 1] \in Keys /\ gitSyncList[i + 1] # f
          BY <1>1, <3>1
    <3>3. steady[gitSyncList[i + 1]] /\ waited'[gitSyncList[i + 1]] = waited[gitSyncList[i + 1]]
          BY <1>2, <1>7, <1>13, <3>1, <3>2
    <3>4. waited[gitSyncList[i + 1]] = Sleeps(i + 1) * s
          BY <3>1, <3>3 DEF PInv, PaceInv
    <3>5. Sleeps(i + 1) = l - i
          BY <1>1, <1>4 DEF Sleeps
    <3> QED
        BY <3>1, <3>3, <3>4, <3>5
  <2> QED
      BY <2>1, <2>2
<1>14. \A k \in Keys : steady'[k] => k \in gitSyncMap'
      BY <1>2, <1>4, <1>6, <1>7 DEF PInv, PaceInv
<1>15. PaceInv'
  <2> HIDE DEF l, s
  <2> QED
      BY <1>5, <1>11, <1>12, <1>13, <1>14 DEF PaceInv
<1> QED
    BY <1>8, <1>10, <1>15

\* Any other step: either no key came or went, and the list is the same, or
\* every key counts afresh.
LEMMA OthersKeepPace ==
    ASSUME PInv, Others, CountsAfresh
    PROVE  PTypes' /\ SleepInv' /\ PaceInv'
<1>1. /\ taskInterval \in Nat /\ asleep \in Nat \cup {Awake}
      /\ waited \in [Keys -> Nat] /\ steady \in [Keys -> BOOLEAN]
      BY DEF PInv, PTypes
<1>2. QInv /\ SleepInv /\ PaceInv
      BY DEF PInv
<1>3. Len(gitSyncList) \in Nat /\ \A i \in 1 .. Len(gitSyncList) : gitSyncList[i] \in Keys
      BY <1>2, ListInvFacts DEF QInv
<1>4. /\ gitSyncMap' = gitSyncMap => gitSyncList' = gitSyncList
      /\ \/ pc' = pc
         \/ pc = "send" /\ pc' = "sleep"
         \/ pc = "select" /\ pc' = "sleep" /\ gitSyncList = <<>> /\ gitSyncList' = <<>>
         \/ pc = "select" /\ pc' = "returned"
      BY <1>2, OtherSteps
<1>5. /\ steady' = [k \in Keys |-> steady[k] /\ gitSyncMap' = gitSyncMap]
      /\ waited' = [k \in Keys |-> IF steady'[k] THEN waited[k] ELSE 0]
      /\ UNCHANGED <<taskInterval, asleep>>
      BY DEF CountsAfresh
<1>6. PTypes'
  <2>1. steady' \in [Keys -> BOOLEAN]
        BY <1>1, <1>5
  <2>2. \A k \in Keys : (IF steady'[k] THEN waited[k] ELSE 0) \in Nat
        BY <1>1
  <2>3. waited' \in [Keys -> Nat]
        BY <1>5, <2>2
  <2> QED
      BY <1>1, <1>5, <2>1, <2>3 DEF PTypes
<1>7. asleep' # Awake => pc' = "sleep"
      BY <1>2, <1>4, <1>5 DEF SleepInv, Awake
<1>8. CASE gitSyncMap' = gitSyncMap
  <2>1. gitSyncList' = gitSyncList
        BY <1>4, <1>8
  <2>2. \A k \in Keys : steady'[k] => steady[k] /\ waited'[k] = waited[k]
        BY <1>5, <1>8
  <2>3. SleepFor(Len(gitSyncList))' = SleepFor(Len(gitSyncList))
        BY <1>5, <2>1 DEF SleepFor
  <2>4. SleepInv'
        BY <1>2, <1>5, <1>7, <2>2, <2>3 DEF SleepInv, Awake
  <2>5. \A i \in 1 .. Len(gitSyncList) : Sleeps(i)' = Sleeps(i)
    <3>1. CASE gitSyncList = <<>>
          BY <3>1
    <3>2. CASE gitSyncList # <<>>
          BY <1>4, <2>1, <3>2 DEF Sleeps
    <3> QED
        BY <3>1, <3>2
  <2>6. PaceInv'
        BY <1>2, <1>3, <1>8, <2>1, <2>2, <2>3, <2>5 DEF PaceInv
  <2> QED
      BY <1>6, <2>4, <2>6
<1>9. CASE gitSyncMap' # gitSyncMap
  <2>1. \A k \in Keys : ~steady'[k]
        BY <1>5, <1>9
  <2>2. SleepInv'
        BY <1>7, <2>1 DEF SleepInv, Awake
  <2>3. QInv'
        BY <1>2, StepKeepsQInv DEF Others, QNext
  <2>4. \A i \in 1 .. Len(gitSyncList') : gitSyncList'[i] \in Keys
        BY <2>3 DEF QInv, ListInv
  <2>5. PaceInv'
        BY <2>1, <2>4 DEF PaceInv
  <2> QED
      BY <1>6, <2>2, <2>5
<1> QED
    BY <1>8, <1>9

\* Every step keeps the inductive invariant.
LEMMA StepKeepsPInv == PInv /\ [PNext]_pacingVars => PInv'
<1> SUFFICES ASSUME PInv, [PNext]_pacingVars PROVE PInv'
    OBVIOUS
<1>1. QInv'
      BY PacedStepIsQueueStep, StepKeepsQInv DEF PInv
<1>2. CASE UNCHANGED pacingVars
  <2>1. PTypes'
        BY <1>2 DEF PInv, PTypes, pacingVars
  <2>2. SleepInv' /\ PaceInv'
        BY <1>2 DEF PInv, SleepInv, PaceInv, Sleeps, SleepFor, pacingVars, vars
  <2> QED
      BY <1>1, <2>1, <2>2 DEF PInv
<1>3. CASE FallsAsleep
      BY <1>1, <1>3, FallsAsleepKeepsPace DEF PInv
<1>4. CASE Wakes
      BY <1>1, <1>4, WakesKeepsPace DEF PInv
<1>5. CASE Assigns
      BY <1>1, <1>5, AssignsKeepsPace DEF PInv
<1>6. CASE Others /\ CountsAfresh
      BY <1>1, <1>6, OthersKeepPace DEF PInv
<1> QED
    BY <1>2, <1>3, <1>4, <1>5, <1>6 DEF PNext

\* The inductive invariant holds in every reachable state of the paced queue.
THEOREM PacingInvariant == PSpec => []PInv
  BY InitEstablishesPInv, StepKeepsPInv, PTL DEF PSpec

\* The sleep of Start(): while no key comes or goes, the sleeps from one turn of
\* a key to its next add up to the task interval, less at most what the integer
\* division loses, or to one millisecond for each key if there are more keys
\* than milliseconds.  For every set of keys and every interval.
THEOREM TurnsKeepPace == PSpec => TurnTakesInterval
<1> DEFINE l == Len(gitSyncList)
<1>1. ASSUME PInv, NEW k \in Keys, Assign, sendKey' = k, steady[k]
      PROVE  /\ waited[k] <= (IF taskInterval > l THEN taskInterval ELSE l)
             /\ waited[k] > taskInterval - l
             /\ waited[k] >= l
  <2>1. /\ gitSyncList \in Seq(Keys) /\ gitSyncList # <<>> /\ pc = "select"
        /\ k = Head(gitSyncList)
        BY <1>1 DEF Assign, PInv, QInv, ListInv
  <2>2. l \in Nat /\ l > 0 /\ 1 \in 1 .. l /\ k = gitSyncList[1]
        BY <2>1
  <2>3. Sleeps(1) = l
        BY <2>1, <2>2 DEF Sleeps
  <2>4. waited[k] = l * SleepFor(l)
        BY <1>1, <2>2, <2>3 DEF PInv, PaceInv
  <2>5. taskInterval \in Nat
        BY <1>1 DEF PInv, PTypes
  <2> HIDE DEF l
  <2> QED
      BY <2>2, <2>4, <2>5, SleepsAddUp
<1>2. PInv /\ [PNext]_pacingVars
         => [\A k \in Keys : Assign /\ sendKey' = k /\ steady[k]
               => LET n == Len(gitSyncList)
                  IN /\ waited[k] <= (IF taskInterval > n THEN taskInterval ELSE n)
                     /\ waited[k] > taskInterval - n
                     /\ waited[k] >= n]_pacingVars
      BY <1>1
<1> QED
    BY <1>2, PacingInvariant, PTL DEF PSpec, TurnTakesInterval

\* Adding the sleeps takes nothing from the queue: what is proved of the queue
\* holds of the paced queue, which is the specification that TLC checks.
THEOREM PacedQueueIsQueue == PSpec => QSpec
  BY PacedStepIsQueueStep, PTL DEF PSpec, QSpec, PInit
=============================================================================
