-------------------------- MODULE SyncQueueProofs --------------------------
(***************************************************************************)
(* Proofs about SyncQueue, for every set of keys and every number of       *)
(* workers: the list and the map agree, the key in flight is watched, the  *)
(* queue is round robin, and the queue implements WatchSet.                *)
(***************************************************************************)
EXTENDS SyncQueue, TLAPS

\* A key has not been overtaken by the keys that are still in front of it.
OrderInv ==
    \A i, j \in DOMAIN gitSyncList :
        i < j => overtakes[gitSyncList[j]][gitSyncList[i]] = 0

\* The part of the invariant that is about the list, the map and the history.
ListInv ==
    /\ gitSyncList \in Seq(Keys)
    /\ gitSyncMap \subseteq Keys
    /\ overtakes \in [Keys -> [Keys -> Nat]]
    /\ ListMatchesMap
    /\ OrderInv
    /\ BoundedOvertaking

\* The inductive invariant of the queue.
QInv == /\ QTypes
        /\ ListInv
        /\ InFlightIsWatched
        /\ JobInv

-----------------------------------------------------------------------------
(* Lemmas about the two sequence operations of the list.                   *)

\* list.Remove: the elements behind the removed one move up by one.
LEMMA RemoveAtElements ==
    ASSUME NEW S, NEW s \in Seq(S), NEW i \in DOMAIN s
    PROVE  /\ RemoveAt(s, i) \in Seq(S)
           /\ DOMAIN RemoveAt(s, i) = 1 .. (Len(s) - 1)
           /\ \A x \in 1 .. (Len(s) - 1) :
                 RemoveAt(s, i)[x] = IF x < i THEN s[x] ELSE s[x + 1]
<1>1. i \in 1 .. Len(s) /\ Len(s) \in Nat
  OBVIOUS
<1> DEFINE a == SubSeq(s, 1, i - 1)
           b == SubSeq(s, i + 1, Len(s))
<1>2. a \in Seq(S) /\ Len(a) = i - 1 /\ \A x \in 1 .. (i - 1) : a[x] = s[x]
  BY <1>1
<1>3. b \in Seq(S) /\ Len(b) = Len(s) - i
      /\ \A x \in 1 .. (Len(s) - i) : b[x] = s[i + x]
  BY <1>1
<1>4. RemoveAt(s, i) = a \o b
  BY DEF RemoveAt
<1> HIDE DEF a, b
<1>5. a \o b \in Seq(S) /\ Len(a \o b) = Len(s) - 1
  BY <1>1, <1>2, <1>3
<1>6. ASSUME NEW x \in 1 .. (Len(s) - 1)
      PROVE  (a \o b)[x] = IF x < i THEN s[x] ELSE s[x + 1]
  <2>1. CASE x < i
    BY <1>1, <1>2, <1>3, <2>1
  <2>2. CASE ~(x < i)
    <3>1. (a \o b)[x] = b[x - (i - 1)]
      BY <1>1, <1>2, <1>3, <2>2
    <3>2. x - (i - 1) \in 1 .. (Len(s) - i)
      BY <1>1, <2>2
    <3>3. i + (x - (i - 1)) = x + 1
      BY <1>1
    <3> QED
      BY <1>3, <2>2, <3>1, <3>2, <3>3
  <2> QED
    BY <2>1, <2>2
<1> QED
  BY <1>4, <1>5, <1>6

\* list.MoveToBack of the front element.
LEMMA MoveToBackElements ==
    ASSUME NEW S, NEW s \in Seq(S), s # <<>>
    PROVE  /\ Append(Tail(s), Head(s)) \in Seq(S)
           /\ DOMAIN Append(Tail(s), Head(s)) = DOMAIN s
           /\ DOMAIN s = 1 .. Len(s) /\ Len(s) \in Nat \ {0}
           /\ \A x \in DOMAIN s :
                Append(Tail(s), Head(s))[x] = IF x = Len(s) THEN s[1] ELSE s[x + 1]
  OBVIOUS

\* list.PushBack.
LEMMA AppendElements ==
    ASSUME NEW S, NEW s \in Seq(S), NEW e \in S
    PROVE  /\ Append(s, e) \in Seq(S)
           /\ Len(s) \in Nat /\ DOMAIN s = 1 .. Len(s)
           /\ DOMAIN Append(s, e) = 1 .. (Len(s) + 1)
           /\ \A x \in 1 .. Len(s) : Append(s, e)[x] = s[x]
           /\ Append(s, e)[Len(s) + 1] = e
  OBVIOUS

-----------------------------------------------------------------------------
(* The three operations on the list preserve ListInv.                      *)

\* ListInv, spelled out over positions.
LEMMA ListInvFacts ==
    ASSUME ListInv
    PROVE  /\ Len(gitSyncList) \in Nat
           /\ DOMAIN gitSyncList = 1 .. Len(gitSyncList)
           /\ \A i \in 1 .. Len(gitSyncList) :
                gitSyncList[i] \in gitSyncMap /\ gitSyncList[i] \in Keys
           /\ \A i, j \in 1 .. Len(gitSyncList) : gitSyncList[i] = gitSyncList[j] => i = j
           /\ \A k \in gitSyncMap : \E i \in 1 .. Len(gitSyncList) : gitSyncList[i] = k
           /\ \A i, j \in 1 .. Len(gitSyncList) :
                i < j => overtakes[gitSyncList[j]][gitSyncList[i]] = 0
<1>1. Len(gitSyncList) \in Nat /\ DOMAIN gitSyncList = 1 .. Len(gitSyncList)
  BY DEF ListInv
<1>2. ListMatchesMap /\ OrderInv /\ gitSyncMap \subseteq Keys
  BY DEF ListInv
<1> QED
  BY <1>1, <1>2 DEF ListMatchesMap, OrderInv

\* StartWatching appends a key that is not in the list yet.
LEMMA StartWatchingKeepsListInv ==
    ASSUME ListInv, NEW k \in Keys, StartWatching(k)
    PROVE  ListInv'
<1>1. CASE k \in gitSyncMap
  BY <1>1 DEF ListInv, StartWatching, ListMatchesMap, OrderInv, BoundedOvertaking
<1>2. CASE k \notin gitSyncMap
  <2>1. /\ gitSyncList' = Append(gitSyncList, k)
        /\ gitSyncMap' = gitSyncMap \cup {k}
        /\ overtakes' = [overtakes EXCEPT ![k] = NeverOvertaken]
    BY <1>2 DEF StartWatching
  <2>2. /\ gitSyncList' \in Seq(Keys)
        /\ Len(gitSyncList) \in Nat
        /\ DOMAIN gitSyncList = 1 .. Len(gitSyncList)
        /\ DOMAIN gitSyncList' = 1 .. (Len(gitSyncList) + 1)
        /\ \A x \in 1 .. Len(gitSyncList) : gitSyncList'[x] = gitSyncList[x]
        /\ gitSyncList'[Len(gitSyncList) + 1] = k
    <3>1. gitSyncList \in Seq(Keys)
      BY DEF ListInv
    <3> QED
      BY <2>1, <3>1, AppendElements
  <2>3. /\ NeverOvertaken \in [Keys -> Nat]
        /\ overtakes' \in [Keys -> [Keys -> Nat]]
        /\ \A j \in Keys : overtakes'[k][j] = 0
        /\ \A i \in Keys : i # k => overtakes'[i] = overtakes[i]
    BY <2>1 DEF ListInv, NeverOvertaken
  <2>4. ListMatchesMap'
    BY <1>2, <2>1, <2>2, ListInvFacts DEF ListMatchesMap
  <2>5. OrderInv'
    <3> SUFFICES ASSUME NEW i \in 1 .. (Len(gitSyncList) + 1),
                        NEW j \in 1 .. (Len(gitSyncList) + 1), i < j
                 PROVE  overtakes'[gitSyncList'[j]][gitSyncList'[i]] = 0
      BY <2>2 DEF OrderInv
    <3>1. i \in 1 .. Len(gitSyncList) /\ gitSyncList'[i] = gitSyncList[i]
          /\ gitSyncList[i] \in Keys
      BY <2>2, ListInvFacts
    <3>2. CASE j = Len(gitSyncList) + 1
      BY <2>2, <2>3, <3>1, <3>2
    <3>3. CASE j # Len(gitSyncList) + 1
      <4>1. j \in 1 .. Len(gitSyncList) /\ gitSyncList'[j] = gitSyncList[j]
        BY <2>2, <3>3
      <4>2. gitSyncList[j] # k /\ gitSyncList[j] \in Keys
        BY <1>2, <4>1, ListInvFacts
      <4>3. overtakes[gitSyncList[j]][gitSyncList[i]] = 0
        BY <3>1, <4>1, ListInvFacts
      <4> QED
        BY <2>3, <3>1, <4>1, <4>2, <4>3
    <3> QED
      BY <3>2, <3>3
  <2>6. BoundedOvertaking'
    BY <2>1, <2>3 DEF ListInv, BoundedOvertaking
  <2> QED
    BY <2>1, <2>2, <2>3, <2>4, <2>5, <2>6 DEF ListInv
<1> QED
  BY <1>1, <1>2

\* StopWatching removes the only element of its key.
LEMMA StopWatchingKeepsListInv ==
    ASSUME ListInv, NEW k \in Keys, StopWatching(k)
    PROVE  ListInv'
<1>1. CASE k \notin gitSyncMap
  BY <1>1 DEF ListInv, StopWatching, ListMatchesMap, OrderInv, BoundedOvertaking
<1>2. CASE k \in gitSyncMap
  <2> DEFINE p == PositionOf(k)
             n == Len(gitSyncList)
  <2>1. /\ gitSyncList' = RemoveAt(gitSyncList, p)
        /\ gitSyncMap' = gitSyncMap \ {k}
        /\ overtakes' = overtakes
    BY <1>2 DEF StopWatching
  <2>2. p \in DOMAIN gitSyncList /\ gitSyncList[p] = k
    BY <1>2 DEF PositionOf, ListInv, ListMatchesMap
  <2>3. /\ n \in Nat /\ DOMAIN gitSyncList = 1 .. n
        /\ \A i, j \in 1 .. n : gitSyncList[i] = gitSyncList[j] => i = j
        /\ \A i, j \in 1 .. n : i < j => overtakes[gitSyncList[j]][gitSyncList[i]] = 0
    BY ListInvFacts
  <2>4. /\ gitSyncList' \in Seq(Keys)
        /\ DOMAIN gitSyncList' = 1 .. (n - 1)
        /\ \A x \in 1 .. (n - 1) :
             gitSyncList'[x] = IF x < p THEN gitSyncList[x] ELSE gitSyncList[x + 1]
    BY <2>1, <2>2, RemoveAtElements DEF ListInv
  <2> HIDE DEF p, n
  \* the position in the old list of position x of the new one
  <2> DEFINE old(x) == IF x < p THEN x ELSE x + 1
  <2>old. ASSUME NEW x \in 1 .. (n - 1)
          PROVE  /\ old(x) \in 1 .. n
                 /\ gitSyncList'[x] = gitSyncList[old(x)]
                 /\ \A y \in 1 .. (n - 1) : x < y => old(x) < old(y)
    BY <2>2, <2>3, <2>4
  <2> HIDE DEF old
  <2>5. ListMatchesMap'
    <3>1. \A i, j \in DOMAIN gitSyncList' : gitSyncList'[i] = gitSyncList'[j] => i = j
      <4> SUFFICES ASSUME NEW i \in 1 .. (n - 1), NEW j \in 1 .. (n - 1), i < j
                   PROVE  gitSyncList'[i] # gitSyncList'[j]
        BY <2>3, <2>4
      <4>1. old(i) < old(j) /\ old(i) \in 1 .. n /\ old(j) \in 1 .. n
        BY <2>old
      <4>2. gitSyncList[old(i)] # gitSyncList[old(j)]
        BY <2>3, <4>1
      <4> QED
        BY <2>old, <4>2
    <3>2. \A i \in DOMAIN gitSyncList' : gitSyncList'[i] \in gitSyncMap'
      BY <2>1, <2>2, <2>3, <2>4, ListInvFacts
    <3>3. ASSUME NEW m \in gitSyncMap'
          PROVE  \E i \in DOMAIN gitSyncList' : gitSyncList'[i] = m
      <4>1. PICK i \in DOMAIN gitSyncList : gitSyncList[i] = m
        BY <2>1 DEF ListInv, ListMatchesMap
      <4>2. i # p
        BY <2>1, <2>2, <4>1
      <4>3. CASE i < p
        BY <2>2, <2>3, <2>4, <4>1, <4>3
      <4>4. CASE i > p
        <5>1. i - 1 \in 1 .. (n - 1) /\ ~(i - 1 < p) /\ (i - 1) + 1 = i
          BY <2>2, <2>3, <4>4
        <5>2. gitSyncList'[i - 1] = m
          BY <2>4, <4>1, <5>1
        <5> QED
          BY <2>4, <5>1, <5>2
      <4> QED
        BY <2>2, <2>3, <4>2, <4>3, <4>4
    <3> QED
      BY <3>1, <3>2, <3>3 DEF ListMatchesMap
  <2>6. OrderInv'
    <3> SUFFICES ASSUME NEW i \in 1 .. (n - 1), NEW j \in 1 .. (n - 1), i < j
                 PROVE  overtakes[gitSyncList'[j]][gitSyncList'[i]] = 0
      BY <2>1, <2>4 DEF OrderInv
    <3>1. old(i) < old(j) /\ old(i) \in 1 .. n /\ old(j) \in 1 .. n
      BY <2>old
    <3>2. overtakes[gitSyncList[old(j)]][gitSyncList[old(i)]] = 0
      BY <2>3, <3>1
    <3> QED
      BY <2>old, <3>2
  <2>7. BoundedOvertaking'
    BY <2>1 DEF ListInv, BoundedOvertaking
  <2> QED
    BY <2>1, <2>4, <2>5, <2>6, <2>7 DEF ListInv
<1> QED
  BY <1>1, <1>2

\* assign() moves the front to the back: the keys that were behind it have now
\* been overtaken by it once, and it has been overtaken by nobody.
LEMMA AssignKeepsListInv ==
    ASSUME ListInv, Assign
    PROVE  ListInv' /\ sendKey' \in gitSyncMap'
<1> DEFINE n == Len(gitSyncList)
           k == Head(gitSyncList)
<1>1. /\ gitSyncList # <<>>
      /\ gitSyncList' = Append(Tail(gitSyncList), Head(gitSyncList))
      /\ gitSyncMap' = gitSyncMap
      /\ sendKey' = k
      /\ CountOvertakes(k)
  BY DEF Assign
<1>2. /\ gitSyncList' \in Seq(Keys)
      /\ DOMAIN gitSyncList = 1 .. n
      /\ DOMAIN gitSyncList' = 1 .. n
      /\ n \in Nat \ {0}
      /\ \A x \in 1 .. n :
            gitSyncList'[x] = IF x = n THEN gitSyncList[1] ELSE gitSyncList[x + 1]
  BY <1>1, MoveToBackElements DEF ListInv
<1>3. k = gitSyncList[1] /\ k \in gitSyncMap /\ k \in Keys
  <2>1. gitSyncList \in Seq(Keys)
    BY DEF ListInv
  <2>2. k = gitSyncList[1]
    BY <2>1 DEF k
  <2> HIDE DEF n, k
  <2>3. 1 \in 1 .. n
    BY <1>2
  <2>4. gitSyncList[1] \in gitSyncMap /\ gitSyncList[1] \in Keys
    BY <1>2, <2>3, ListInvFacts
  <2> QED
    BY <2>2, <2>4
<1> HIDE DEF n, k
<1>4. /\ overtakes' \in [Keys -> [Keys -> Nat]]
      /\ \A j \in Keys : overtakes'[k][j] = 0
      /\ \A i \in gitSyncMap : i # k => overtakes'[i][k] = overtakes[i][k] + 1
      /\ \A i, j \in Keys : i # k /\ j # k => overtakes'[i][j] = overtakes[i][j]
  BY <1>1, <1>3 DEF CountOvertakes, NeverOvertaken, ListInv
<1>5. ListMatchesMap'
  <2>1. \A i, j \in DOMAIN gitSyncList' : gitSyncList'[i] = gitSyncList'[j] => i = j
    BY <1>2, ListInvFacts
  <2>2. \A i \in DOMAIN gitSyncList' : gitSyncList'[i] \in gitSyncMap'
    BY <1>1, <1>2, ListInvFacts
  <2>3. ASSUME NEW m \in gitSyncMap'
        PROVE  \E i \in DOMAIN gitSyncList' : gitSyncList'[i] = m
    <3>1. PICK i \in 1 .. n : gitSyncList[i] = m
      BY <1>1, <1>2, ListInvFacts
    <3>2. CASE i = 1
      BY <1>2, <3>1, <3>2
    <3>3. CASE i # 1
      <4>1. i - 1 \in 1 .. n /\ i - 1 # n /\ (i - 1) + 1 = i
        BY <1>2, <3>3
      <4> QED
        BY <1>2, <3>1, <4>1
    <3> QED
      BY <3>2, <3>3
  <2> QED
    BY <2>1, <2>2, <2>3 DEF ListMatchesMap
<1>6. OrderInv'
  <2> SUFFICES ASSUME NEW i \in 1 .. n, NEW j \in 1 .. n, i < j
               PROVE  overtakes'[gitSyncList'[j]][gitSyncList'[i]] = 0
    BY <1>2 DEF OrderInv
  <2>1. /\ i + 1 \in 1 .. n
        /\ gitSyncList'[i] = gitSyncList[i + 1]
        /\ gitSyncList[i + 1] \in Keys
        /\ gitSyncList[i + 1] # k
    BY <1>2, <1>3, ListInvFacts
  <2>2. CASE j = n
    BY <1>2, <1>3, <1>4, <2>1, <2>2
  <2>3. CASE j # n
    <3>1. /\ j + 1 \in 1 .. n
          /\ gitSyncList'[j] = gitSyncList[j + 1]
          /\ gitSyncList[j + 1] \in Keys
          /\ gitSyncList[j + 1] # k
      BY <1>2, <1>3, <2>3, ListInvFacts
    <3>2. overtakes[gitSyncList[j + 1]][gitSyncList[i + 1]] = 0
      BY <1>2, <2>1, <3>1, ListInvFacts
    <3> QED
      BY <1>4, <2>1, <3>1, <3>2
  <2> QED
    BY <2>2, <2>3
<1>7. BoundedOvertaking'
  <2> SUFFICES ASSUME NEW m \in gitSyncMap, NEW j \in Keys
               PROVE  overtakes'[m][j] <= 1
    BY <1>1 DEF BoundedOvertaking
  <2>1. m \in Keys /\ overtakes[m][j] <= 1 /\ overtakes[m][j] \in Nat
    BY DEF ListInv, BoundedOvertaking
  <2>2. CASE m = k
    BY <1>4, <2>2
  <2>3. CASE m # k /\ j = k
    <3>1. PICK i \in 1 .. n : gitSyncList[i] = m
      BY <1>2, ListInvFacts
    <3>2. 1 \in 1 .. n /\ 1 < i
      BY <1>2, <1>3, <2>3, <3>1
    <3>3. overtakes[m][k] = 0
      BY <1>2, <1>3, <3>1, <3>2, ListInvFacts
    <3> QED
      BY <1>4, <2>3, <3>3
  <2>4. CASE m # k /\ j # k
    BY <1>4, <2>1, <2>4
  <2> QED
    BY <2>2, <2>3, <2>4
<1> QED
  BY <1>1, <1>2, <1>3, <1>4, <1>5, <1>6, <1>7 DEF ListInv

-----------------------------------------------------------------------------
(* The inductive invariant.                                                *)

\* NewSyncer starts with an empty list, an empty map and idle workers.
LEMMA InitEstablishesQInv == QInit => QInv
<1> SUFFICES ASSUME QInit PROVE QInv
  OBVIOUS
<1>1. QTypes
  <2>1. NeverOvertaken \in [Keys -> Nat]
    BY DEF NeverOvertaken
  <2>2. gitSyncList \in Seq(Keys) /\ gitSyncMap \subseteq Keys
    BY DEF QInit
  <2>3. call \in Calls \cup {NoCall} /\ ctxDone \in BOOLEAN
    BY DEF QInit
  <2>4. overtakes \in [Keys -> [Keys -> Nat]]
    BY <2>1 DEF QInit
  <2> QED
    BY <2>2, <2>3, <2>4 DEF QInit, QTypes
<1>2. ListInv
  <2>1. gitSyncList \in Seq(Keys) /\ DOMAIN gitSyncList = {}
    BY DEF QInit
  <2> QED
    <3>1. ListMatchesMap /\ OrderInv
      BY <2>1 DEF QInit, ListMatchesMap, OrderInv
    <3>2. BoundedOvertaking
      BY DEF QInit, BoundedOvertaking
    <3> QED
      BY <1>1, <3>1, <3>2 DEF QTypes, ListInv
<1>3. InFlightIsWatched /\ JobInv
  BY DEF QInit, InFlightIsWatched, JobInv
<1> QED
  BY <1>1, <1>2, <1>3 DEF QInv

\* Steps that leave the list, the map and the history alone.
LEMMA ListUnchanged ==
    ASSUME ListInv, UNCHANGED <<gitSyncList, gitSyncMap, overtakes>>
    PROVE  ListInv'
  BY DEF ListInv, ListMatchesMap, OrderInv, BoundedOvertaking

\* Every step of the reconciler, the assigner and the workers keeps the
\* inductive invariant.
LEMMA StepKeepsQInv == QInv /\ [QNext]_vars => QInv'
<1> SUFFICES ASSUME QInv, [QNext]_vars PROVE QInv'
  OBVIOUS
<1> USE DEF QInv
<1>t. QTypes /\ ListInv /\ InFlightIsWatched /\ JobInv
  OBVIOUS
<1>1. CASE ReconcilerCalls
  <2>1. ListInv'
    BY <1>1, ListUnchanged DEF ReconcilerCalls
  <2>2. QTypes'
    BY <1>1, <1>t DEF ReconcilerCalls, QTypes
  <2> QED
    BY <1>1, <1>t, <2>1, <2>2 DEF ReconcilerCalls, InFlightIsWatched, JobInv
<1>2. CASE ReconcilerReturns
  <2>1. call \in Calls /\ call.key \in Keys
    BY <1>2, <1>t DEF ReconcilerReturns, QTypes, Calls
  <2>2. ListInv'
    BY <1>2, <2>1, StartWatchingKeepsListInv, StopWatchingKeepsListInv DEF ReconcilerReturns
  <2>3. QTypes'
    BY <1>2, <1>t, <2>2 DEF ReconcilerReturns, QTypes, ListInv
  <2>4. InFlightIsWatched' /\ JobInv'
    BY <1>2, <1>t DEF ReconcilerReturns, LockFree, InFlightIsWatched, JobInv
  <2> QED
    BY <2>2, <2>3, <2>4
<1>3. CASE AssignerReturns \/ AssignNothing \/ AssignerWakes
  <2>1. ListInv'
    BY <1>3, ListUnchanged DEF AssignerReturns, AssignNothing, AssignerWakes
  <2>2. QTypes'
    BY <1>3, <1>t DEF AssignerReturns, AssignNothing, AssignerWakes, QTypes
  <2>3. InFlightIsWatched' /\ JobInv'
    BY <1>3, <1>t DEF AssignerReturns, AssignNothing, AssignerWakes, InFlightIsWatched, JobInv
  <2> QED
    BY <2>1, <2>2, <2>3
<1>4. CASE Assign
  <2>1. ListInv' /\ sendKey' \in gitSyncMap'
    BY <1>4, AssignKeepsListInv
  <2>2. QTypes'
    <3>1. sendKey' \in Keys
      BY <2>1 DEF ListInv
    <3> QED
      BY <1>4, <1>t, <2>1, <3>1 DEF Assign, QTypes, ListInv
  <2>3. InFlightIsWatched' /\ JobInv'
    BY <1>4, <1>t, <2>1 DEF Assign, InFlightIsWatched, JobInv
  <2> QED
    BY <2>1, <2>2, <2>3
<1>5. ASSUME NEW w \in Workers, Rendezvous(w)
      PROVE  QInv'
  <2>1. ListInv'
    BY <1>5, ListUnchanged DEF Rendezvous
  <2>2. QTypes'
    BY <1>5, <1>t DEF Rendezvous, QTypes
  <2>3. InFlightIsWatched'
    BY <1>5 DEF Rendezvous, InFlightIsWatched
  <2>4. sendKey # NoKey
    BY <1>5, <1>t, KeysAssumption DEF Rendezvous, InFlightIsWatched, ListInv
  <2>5. JobInv'
    BY <1>5, <1>t, <2>4 DEF Rendezvous, JobInv, QTypes
  <2> QED
    BY <2>1, <2>2, <2>3, <2>5
<1>6. ASSUME NEW w \in Workers, WorkerFinishes(w) \/ WorkerFindsGone(w) \/ WorkerExits(w)
      PROVE  QInv'
  <2>1. ListInv'
    BY <1>6, ListUnchanged DEF WorkerFinishes, WorkerFindsGone, WorkerExits
  <2>2. QTypes'
    BY <1>6, <1>t DEF WorkerFinishes, WorkerFindsGone, WorkerExits, QTypes
  <2>3. InFlightIsWatched'
    BY <1>6, <1>t DEF WorkerFinishes, WorkerFindsGone, WorkerExits, InFlightIsWatched
  <2>4. JobInv'
    BY <1>6, <1>t DEF WorkerFinishes, WorkerFindsGone, WorkerExits, JobInv, QTypes
  <2> QED
    BY <2>1, <2>2, <2>3, <2>4
<1>7. ASSUME NEW w \in Workers, WorkerStopsWatching(w)
      PROVE  QInv'
  <2>1. job[w] \in Keys
    BY <1>7, <1>t DEF WorkerStopsWatching, JobInv, QTypes
  <2>2. ListInv'
    BY <1>7, <2>1, StopWatchingKeepsListInv DEF WorkerStopsWatching
  <2>3. QTypes'
    BY <1>7, <1>t, <2>2 DEF WorkerStopsWatching, QTypes, ListInv
  <2>4. InFlightIsWatched'
    BY <1>7 DEF WorkerStopsWatching, LockFree, InFlightIsWatched
  <2>5. JobInv'
    BY <1>7, <1>t DEF WorkerStopsWatching, JobInv, QTypes
  <2> QED
    BY <2>2, <2>3, <2>4, <2>5
<1>8. CASE Cancel
  <2>1. ListInv'
    BY <1>8, ListUnchanged DEF Cancel
  <2>2. QTypes'
    BY <1>8, <1>t DEF Cancel, QTypes
  <2> QED
    BY <1>8, <1>t, <2>1, <2>2 DEF Cancel, InFlightIsWatched, JobInv
<1>9. CASE UNCHANGED vars
  <2>1. ListInv'
    BY <1>9, ListUnchanged DEF vars
  <2>2. QTypes'
    BY <1>9, <1>t DEF vars, QTypes
  <2> QED
    BY <1>9, <1>t, <2>1, <2>2 DEF vars, InFlightIsWatched, JobInv
<1> QED
  BY <1>1, <1>2, <1>3, <1>4, <1>5, <1>6, <1>7, <1>8, <1>9 DEF QNext

\* The inductive invariant holds in every reachable state of the queue.
THEOREM QueueInvariant == QSpec => []QInv
  BY InitEstablishesQInv, StepKeepsQInv, PTL DEF QSpec

\* Every variable keeps its type, and a busy worker has a key to work on.
THEOREM QueueTypes == QSpec => []QTypeOK
<1>1. QInv => QTypeOK
  BY DEF QInv, QTypeOK
<1> QED
  BY <1>1, QueueInvariant, PTL

\* gitSyncList and gitSyncMap always describe the same set of keys, whatever
\* the interleaving of StartWatching, StopWatching and assign().
THEOREM ListAndMapAgree == QSpec => []ListMatchesMap
<1>1. QInv => ListMatchesMap
  BY DEF QInv, ListInv
<1> QED
  BY <1>1, QueueInvariant, PTL

\* The key assign() is sending is watched until a worker has received it.
THEOREM KeyInFlightIsWatched == QSpec => []InFlightIsWatched
<1>1. QInv => InFlightIsWatched
  BY DEF QInv
<1> QED
  BY <1>1, QueueInvariant, PTL

\* Round robin: while a key waits for its turn, no other key has two.
THEOREM RoundRobin == QSpec => []BoundedOvertaking
<1>1. QInv => BoundedOvertaking
  BY DEF QInv, ListInv
<1> QED
  BY <1>1, QueueInvariant, PTL

-----------------------------------------------------------------------------
(* The queue implements the abstract watched set.                          *)

\* NewSyncer watches nothing, and no worker has a task.
LEMMA InitImplements == QInit => Watching!WSInit
  BY DEF QInit, Watching!WSInit

\* Every step of the queue is a step of the watched set, or does not concern it.
LEMMA StepImplements == QInv /\ [QNext]_vars => [Watching!WSNext]_(Watching!wsVars)
<1> SUFFICES ASSUME QInv, [QNext]_vars
             PROVE  Watching!WSNext \/ UNCHANGED <<gitSyncMap, job>>
  BY DEF Watching!wsVars
<1>t. QTypes /\ ListInv /\ InFlightIsWatched /\ JobInv
  BY DEF QInv
<1>1. ASSUME NEW k \in Keys, StartWatching(k), UNCHANGED job
      PROVE  Watching!WSNext
  <2>1. Watching!Watch(k)
    BY <1>1 DEF StartWatching, Watching!Watch
  <2> QED
    BY <2>1 DEF Watching!WSNext
<1>2. ASSUME NEW k \in Keys, StopWatching(k), UNCHANGED job
      PROVE  Watching!WSNext
  <2>1. Watching!Unwatch(k)
    BY <1>2 DEF StopWatching, Watching!Unwatch
  <2> QED
    BY <2>1 DEF Watching!WSNext
<1>3. CASE ReconcilerReturns
  <2>1. call.key \in Keys
    BY <1>3, <1>t DEF ReconcilerReturns, QTypes, Calls
  <2> QED
    BY <1>1, <1>2, <1>3, <2>1 DEF ReconcilerReturns
<1>4. ASSUME NEW w \in Workers, Rendezvous(w)
      PROVE  Watching!WSNext
  <2>1. sendKey \in gitSyncMap /\ sendKey \in Keys /\ job[w] = NoKey
    BY <1>4, <1>t DEF Rendezvous, InFlightIsWatched, JobInv, ListInv
  <2>2. Watching!Pick(w, sendKey)
    BY <1>4, <2>1 DEF Rendezvous, Watching!Pick
  <2> QED
    BY <2>1, <2>2 DEF Watching!WSNext
<1>5. ASSUME NEW w \in Workers, WorkerFinishes(w)
      PROVE  Watching!WSNext
  <2>1. Watching!Finish(w)
    BY <1>5, <1>t DEF WorkerFinishes, Watching!Finish, JobInv
  <2> QED
    BY <2>1 DEF Watching!WSNext
<1>6. ASSUME NEW w \in Workers, WorkerStopsWatching(w)
      PROVE  Watching!WSNext
  <2>1. job[w] # NoKey
    BY <1>6, <1>t DEF WorkerStopsWatching, JobInv
  <2>2. gitSyncMap' = gitSyncMap \ {job[w]}
    BY <1>6 DEF WorkerStopsWatching, StopWatching
  <2>3. Watching!FinishUnwatch(w)
    BY <1>6, <2>1, <2>2 DEF WorkerStopsWatching, Watching!FinishUnwatch
  <2> QED
    BY <2>3 DEF Watching!WSNext
<1>7. CASE \/ ReconcilerCalls \/ AssignerReturns \/ AssignNothing \/ Assign \/ AssignerWakes
           \/ Cancel \/ UNCHANGED vars
           \/ \E w \in Workers : WorkerFindsGone(w) \/ WorkerExits(w)
  BY <1>7 DEF ReconcilerCalls, AssignerReturns, AssignNothing, Assign, AssignerWakes,
              Cancel, WorkerFindsGone, WorkerExits, vars
<1> QED
  BY <1>3, <1>4, <1>5, <1>6, <1>7 DEF QNext

\* Linked list, mutex and channel together are no more than a set of watched
\* keys from which free workers pick: what Numaplane assumes of the syncer.
THEOREM QueueImplementsWatchSet == QSpec => ImplementsWatchSet
  BY InitImplements, StepImplements, QueueInvariant, PTL
     DEF QSpec, ImplementsWatchSet, Watching!WSSpec
=============================================================================
