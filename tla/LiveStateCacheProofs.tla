------------------------ MODULE LiveStateCacheProofs ------------------------
(***************************************************************************)
(* Proofs about getCluster() of liveStateCache, for any number of callers, *)
(* any set of settings and any number of changes of the configuration: the *)
(* double-checked creation makes one ClusterCache, and a caller dies only  *)
(* for one of the three causes that PanicHasCause names.                   *)
(***************************************************************************)
EXTENDS LiveStateCache, TLAPS

\* The number of ClusterCaches made tells whether c.cluster is nil.
CreationInv == \/ created = 0 /\ cluster = NoSettings
               \/ created = 1 /\ cluster # NoSettings

\* A caller past the comparison finds settings in c.cacheSettings, so the
\* cluster cache made from them is told from nil.
CheckedInv ==
    \A c \in Callers : pc[c] \in {"invalidate", "push", "read"} => cacheSettings # NoSettings

\* A caller on its way to Invalidate has found a ClusterCache.
PushInv == \A c \in Callers : pc[c] = "push" => cluster # NoSettings

\* The callers that wait for Init find the settings it has left, and as long as
\* the configuration does not change nobody has any others: none of them
\* invalidates.
WaitInv ==
    /\ \A c \in Callers \ EarlyCallers : pc[c] # "out" => ready = "yes"
    /\ changes = 0 =>
          /\ cacheSettings \in {NoSettings, configured}
          /\ ready = "yes" => cacheSettings = configured
          /\ \A c \in Callers : next[c] \in {NoSettings, configured}
          /\ \A c \in Callers \ EarlyCallers : pc[c] \notin {"invalidate", "push"}

\* The inductive invariant.
LInv == /\ LTypeOK /\ CreationInv /\ CheckedInv /\ PushInv /\ WaitInv
        /\ PanicHasCause

\* Initially no cluster cache exists and nobody has called.
LEMMA InitEstablishesLInv == LInit => LInv
BY SettingsAssumption, MaxChangesAssumption
   DEF LInit, LInv, LTypeOK, CreationInv, CheckedInv, PushInv, WaitInv, PanicHasCause,
        Points

\* Every step of every caller keeps the inductive invariant.
LEMMA StepKeepsLInv == LInv /\ [LNext]_cacheVars => LInv'
<1> SUFFICES ASSUME LInv, [LNext]_cacheVars PROVE LInv'
    OBVIOUS
<1> USE SettingsAssumption, MaxChangesAssumption
    DEF LInv, LTypeOK, CreationInv, CheckedInv, PushInv, WaitInv, PanicHasCause,
        Points
<1>1. ASSUME Alive, Reconfigure PROVE LInv'
      BY <1>1 DEF Reconfigure, Alive
<1>2. ASSUME Alive, InitCache PROVE LInv'
      BY <1>2 DEF InitCache, Loaded, Alive
<1>3. ASSUME Alive, NEW c \in Callers, LoadSettings(c) PROVE LInv'
      BY <1>3 DEF LoadSettings, Loaded, Alive
<1>4. ASSUME Alive, NEW c \in Callers, CheckSettings(c) PROVE LInv'
      BY <1>4 DEF CheckSettings, Alive
<1>5. ASSUME Alive, NEW c \in Callers, Invalidate(c) PROVE LInv'
      BY <1>5 DEF Invalidate, Alive
<1>6. ASSUME Alive, NEW c \in Callers, PushSettings(c) PROVE LInv'
      BY <1>6 DEF PushSettings, Alive
<1>7. ASSUME Alive, NEW c \in Callers, ReadCluster(c) PROVE LInv'
      BY <1>7 DEF ReadCluster, Alive
<1>8. ASSUME Alive, NEW c \in Callers, CreateCluster(c) PROVE LInv'
      BY <1>8 DEF CreateCluster, Alive
<1>9. ASSUME Alive, NEW c \in Callers, EnsureSynced(c) PROVE LInv'
      BY <1>9 DEF EnsureSynced, Alive
<1>10. CASE UNCHANGED cacheVars
      BY <1>10 DEF cacheVars
<1>11. QED
      BY <1>1, <1>2, <1>3, <1>4, <1>5, <1>6, <1>7, <1>8, <1>9, <1>10
         DEF LNext, CallStep

\* The inductive invariant holds in every reachable state.
THEOREM CacheInvariant == LSpec => []LInv
BY InitEstablishesLInv, StepKeepsLInv, PTL DEF LSpec

\* Every variable keeps its type, and the error of loadCacheSettings never lets
\* the zero settings through to the cluster cache.
THEOREM CacheTypes == LSpec => []LTypeOK
<1>1. LInv => LTypeOK
      BY DEF LInv
<1>2. QED
      BY <1>1, CacheInvariant, PTL

\* However the callers of getCluster interleave, one ClusterCache is made.
THEOREM OnlyOneClusterCache == LSpec => []OneClusterCache
<1>1. LInv => OneClusterCache
      BY DEF LInv, CreationInv, OneClusterCache
<1>2. QED
      BY <1>1, CacheInvariant, PTL

\* For every set of callers, whether they wait for Init or not, a panic in
\* getCluster has one of the three causes: a malformed filter, a call before
\* Init, or a configuration changed before the first ClusterCache was made.
THEOREM OnlyThreeCausesOfPanic == LSpec => []PanicHasCause
<1>1. LInv => PanicHasCause
      BY DEF LInv
<1>2. QED
      BY <1>1, CacheInvariant, PTL
=============================================================================
