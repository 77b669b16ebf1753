--------------------------- MODULE LiveStateCache ---------------------------
(***************************************************************************)
(* The cluster cache wrapper of internal/sync/cache.go: getCluster() of    *)
(* liveStateCache, called concurrently by the workers (after Init) and by  *)
(* the reconciler (ProcessGitSyncDeletion), each call comparing the        *)
(* settings derived from the configuration with the ones in use.  One      *)
(* action per critical section of c.lock; the gitops-engine ClusterCache   *)
(* is external, and stands for the settings it was given last.             *)
(***************************************************************************)
EXTENDS Naturals, FiniteSets

CONSTANTS
    Callers,      \* goroutines that call getSyncedCluster
    EarlyCallers, \* callers that do not wait for Init (the reconciler)
    Settings,     \* the cacheSettings the configuration can give
    Malformed,    \* configurations whose resource filter does not parse
    NoSettings,   \* the zero value of cacheSettings
    MaxChanges    \* bound: how often the configuration changes

ASSUME CallersAssumption == EarlyCallers \subseteq Callers
ASSUME SettingsAssumption ==
    NoSettings \notin Settings /\ Settings # {} /\ Settings \cap Malformed = {}
ASSUME MaxChangesAssumption == MaxChanges \in Nat

VARIABLES
    configured,     \* what the configuration asks for
    changes,        \* changes of the configuration so far
    ready,          \* "yes" once Init has set c.logger and c.cacheSettings
    cacheSettings,  \* c.cacheSettings
    cluster,        \* settings of c.cluster, NoSettings while it is nil
    created,        \* how many ClusterCaches were made
    pc,             \* pc[c]: where caller c is
    next            \* next[c]: the settings caller c has loaded or read

cacheVars == <<configured, changes, ready, cacheSettings, cluster, created, pc, next>>

Points == {"out", "check", "invalidate", "push", "read", "create", "sync", "panic"}

LInit == /\ configured \in Settings \cup Malformed
         /\ changes = 0
         /\ ready = "no"
         /\ cacheSettings = NoSettings
         /\ cluster = NoSettings
         /\ created = 0
         /\ pc = [c \in Callers |-> "out"]
         /\ next = [c \in Callers |-> NoSettings]

\* The configuration is reloaded.
Reconfigure == /\ changes < MaxChanges
               /\ changes' = changes + 1
               /\ configured' \in (Settings \cup Malformed) \ {configured}
               /\ UNCHANGED <<ready, cacheSettings, cluster, created, pc, next>>

\* loadCacheSettings: nil and an error when the resource filter is malformed.
Loaded == IF configured \in Settings THEN configured ELSE NoSettings

\* Mutant: Init does not keep the settings it has loaded.
InitsNoSettings == /\ ready = "no"
                   /\ \/ Loaded # NoSettings /\ ready' = "yes"
                      \/ Loaded = NoSettings /\ ready' = "failed"
                   /\ UNCHANGED <<configured, changes, cacheSettings, cluster, created, pc, next>>

\* Init, called by Syncer.Start before it starts the workers; on an error Start
\* returns it and the manager stops.
InitCache == /\ ready = "no"
             /\ \/ /\ Loaded # NoSettings
                   /\ ready' = "yes"
                   /\ cacheSettings' = Loaded
                \/ /\ Loaded = NoSettings
                   /\ ready' = "failed"
                   /\ UNCHANGED cacheSettings
             /\ UNCHANGED <<configured, changes, cluster, created, pc, next>>

\* getCluster: loadCacheSettings reads the configuration.
LoadSettings(c) ==
    /\ pc[c] = "out"
    /\ ready = "yes" \/ c \in EarlyCallers
    /\ next' = [next EXCEPT ![c] = Loaded]
    /\ pc' = [pc EXCEPT ![c] = "check"]
    /\ UNCHANGED <<configured, changes, ready, cacheSettings, cluster, created>>

\* Mutant: the zero settings are used when loading failed.
ChecksZeroSettings(c) ==
    /\ pc[c] = "check"
    /\ cacheSettings' = next[c]
    /\ pc' = [pc EXCEPT ![c] = IF cacheSettings # next[c] THEN "invalidate" ELSE "read"]
    /\ UNCHANGED <<configured, changes, ready, cluster, created, next>>

\* First critical section: compare, and store what was loaded.  The error of
\* loadCacheSettings is only logged, and the nil it comes with dereferenced.
CheckSettings(c) ==
    /\ pc[c] = "check"
    /\ \/ /\ next[c] # NoSettings
          /\ cacheSettings' = next[c]
          /\ pc' = [pc EXCEPT ![c] = IF cacheSettings # next[c] THEN "invalidate" ELSE "read"]
       \/ /\ next[c] = NoSettings
          /\ pc' = [pc EXCEPT ![c] = "panic"]
          /\ UNCHANGED cacheSettings
    /\ UNCHANGED <<configured, changes, ready, cluster, created, next>>

\* invalidate, inside the lock: c.logger is nil before Init, and c.cluster may
\* be nil; both are dereferenced.
Invalidate(c) ==
    /\ pc[c] = "invalidate"
    /\ \/ /\ ready = "yes" /\ cluster # NoSettings
          /\ cacheSettings' = next[c]
          /\ pc' = [pc EXCEPT ![c] = "push"]
       \/ /\ ready # "yes" \/ cluster = NoSettings
          /\ pc' = [pc EXCEPT ![c] = "panic"]
          /\ UNCHANGED cacheSettings
    /\ UNCHANGED <<configured, changes, ready, cluster, created, next>>

\* Mutant: the cluster cache keeps its settings.
KeepsSettings(c) ==
    /\ pc[c] = "push"
    /\ pc' = [pc EXCEPT ![c] = "read"]
    /\ UNCHANGED <<configured, changes, ready, cacheSettings, cluster, created, next>>

\* invalidate, after the lock: cluster.Invalidate(SetSettings(...)).
PushSettings(c) ==
    /\ pc[c] = "push"
    /\ cluster' = next[c]
    /\ pc' = [pc EXCEPT ![c] = "read"]
    /\ UNCHANGED <<configured, changes, ready, cacheSettings, created, next>>

\* The read-locked section: a cluster that exists is returned, otherwise the
\* settings are kept for the one to be made.
ReadCluster(c) ==
    /\ pc[c] = "read"
    /\ next' = [next EXCEPT ![c] = cacheSettings]
    /\ pc' = [pc EXCEPT ![c] = IF cluster # NoSettings THEN "sync" ELSE "create"]
    /\ UNCHANGED <<configured, changes, ready, cacheSettings, cluster, created>>

\* Mutant: no second look at c.cluster.
CreateAgain(c) ==
    /\ pc[c] = "create"
    /\ cluster' = next[c]
    /\ created' = created + 1
    /\ pc' = [pc EXCEPT ![c] = "sync"]
    /\ UNCHANGED <<configured, changes, ready, cacheSettings, next>>

\* The last critical section: look again, and make the ClusterCache.
CreateCluster(c) ==
    /\ pc[c] = "create"
    /\ \/ /\ cluster = NoSettings
          /\ cluster' = next[c]
          /\ created' = created + 1
       \/ cluster # NoSettings /\ UNCHANGED <<cluster, created>>
    /\ pc' = [pc EXCEPT ![c] = "sync"]
    /\ UNCHANGED <<configured, changes, ready, cacheSettings, next>>

\* getSyncedCluster: EnsureSynced lists the resources (or fails to), and the
\* caller returns.
EnsureSynced(c) ==
    /\ pc[c] = "sync"
    /\ pc' = [pc EXCEPT ![c] = "out"]
    /\ next' = [next EXCEPT ![c] = NoSettings]
    /\ UNCHANGED <<configured, changes, ready, cacheSettings, cluster, created>>

CallStep(c) == \/ CheckSettings(c) \/ Invalidate(c) \/ PushSettings(c)
               \/ ReadCluster(c) \/ CreateCluster(c) \/ EnsureSynced(c)

\* A panic of any goroutine, or an error of Init, ends the process.
Alive == ready # "failed" /\ \A c \in Callers : pc[c] # "panic"

LNext == /\ Alive
         /\ \/ Reconfigure \/ InitCache
            \/ \E c \in Callers : LoadSettings(c) \/ CallStep(c)

LSpec == LInit /\ [][LNext]_cacheVars

\* Goroutines make progress, and every worker keeps calling (each task does).
LFairness ==
    /\ WF_cacheVars(Alive /\ InitCache)
    /\ \A c \in Callers : /\ WF_cacheVars(Alive /\ LoadSettings(c))
                          /\ WF_cacheVars(Alive /\ CallStep(c))

FairLSpec == LSpec /\ LFairness

-----------------------------------------------------------------------------
\* Every variable has its type, and a call in progress carries settings that
\* were really loaded.
LTypeOK == /\ configured \in Settings \cup Malformed
           /\ changes \in 0 .. MaxChanges
           /\ ready \in {"no", "yes", "failed"}
           /\ cacheSettings \in Settings \cup {NoSettings}
           /\ cluster \in Settings \cup {NoSettings}
           /\ created \in Nat
           /\ pc \in [Callers -> Points]
           /\ next \in [Callers -> Settings \cup {NoSettings}]
           /\ \A c \in Callers :
                 pc[c] \in {"invalidate", "push", "read", "create", "sync"} => next[c] \in Settings

\* The double-checked creation: however many goroutines find c.cluster nil at
\* the same time, one ClusterCache is made, so all callers share its watches.
OneClusterCache == created <= 1

\* What a panic in getCluster can come from: a resource filter that does not
\* parse; a call that did not wait for Init; or, in any caller, a configuration
\* that was changed before the first ClusterCache was made, so that invalidate
\* finds c.cluster nil.  Nothing else: Init leaves the settings that the first
\* calls load, and once there is a ClusterCache no caller ever finds nil.
PanicHasCause ==
    \A c \in Callers : pc[c] = "panic" =>
        \/ next[c] = NoSettings
        \/ c \in EarlyCallers /\ (ready # "yes" \/ cluster = NoSettings)
        \/ changes > 0 /\ cluster = NoSettings

\* Once the configuration is stable (and the process does not die) the cluster
\* cache ends up using it, however the calls of getCluster overlapped with the
\* change: "it always ensures the cache is up-to-date before returning".
SettingsTakeEffect ==
    \A s \in Settings : <>[](configured = s /\ Alive) => <>[](cluster = s)

\* Two callers with different settings are both on the way from loading them to
\* handing them to the cluster cache.
Racing == \E c, d \in Callers :
             /\ {pc[c], pc[d]} \subseteq {"check", "invalidate", "push"}
             /\ next[c] # next[d]

\* The same, provided that calls that have loaded different settings never
\* overlap: creation with settings that are replaced meanwhile, malformed
\* configurations and any number of callers with equal settings do no harm.
SettingsTakeEffectInOrder == []~Racing => SettingsTakeEffect

\* Nobody dereferences c.logger or c.cluster while it is nil: "Init must be
\* executed before cache can be used", and once it has been executed it can.
NeverPanics == \A c \in Callers : pc[c] # "panic"
=============================================================================
