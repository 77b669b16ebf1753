# A TLA+ verification of numaplane

numaplane is a Kubernetes controller that keeps the resources of a cluster equal
to what a git repository says. A user writes a `GitSync` object (repository,
path, target revision, destination cluster and namespace); a reconciler registers
it with a *syncer*, whose pool of workers picks the registered objects round robin,
fetches the manifests from git, compares them with the live resources, applies the
differences through gitops-engine and records the outcome in the object's status.

This directory models the parts of the controller in which goroutines, caches,
clones and failures meet, checks them with TLC on small instances, and proves their
safety with TLAPS for every number of keys, workers, callers, commits, edits and
faults. Liveness is model-checked.

    tlc -config QueueSafety.cfg SyncPacing       # one run (module and cfg: PROJECT.json)
    tlapm SyncQueueProofs.tla                    # one proof module

`PROJECT.json` lists the runs, the mutants, the source lines each definition
stands for, the hazards and the theorems.

## 1. The system: inventory

| component | state | operations | talks to |
|---|---|---|---|
| task queue, `internal/sync/syncer.go` (`Syncer`) | `gitSyncList` and `gitSyncMap` under one mutex, the unbuffered channel `keyCh`, one assigner and `workers` goroutines | `StartWatching`, `StopWatching`, `Start`/`assign`, `run` | called by the reconciler and by its own workers |
| a synchronization, `Syncer.runOnce` | local variables of a worker: configuration, object, hash, manifests | get, clone, manifests, commit status, compare, sync, write status | API server, git, live resources, task queue |
| reconciler, `internal/controller/gitsync_controller.go` | a deep copy of the object | `Reconcile`, `reconcile`, `validate`, `needsUpdate` | API server, task queue, cascade deletion |
| Kubernetes API (external) | stored objects, resourceVersions, informer cache, work queue | get, update, status update, events | everybody |
| live state cache, `internal/sync/cache.go` | `cacheSettings` and `cluster` under an RWMutex | `Init`, `getCluster`, `invalidate`, `getSyncedCluster` | workers, and the reconciler through the cascade |
| git access, `internal/git/util.go` | a clone per (name, URL) on a volume: HEAD, branches, working tree | `CloneRepo`, `GetLatestManifests`, `fetchUpdates`, `checkoutRepo` | remote repository |
| managed resources, `syncer.go`, `internal/util/kubernetes` | the live resources with the tracking label | apply, prune, `CascadeDeletion` | cluster |
| resource tracking, `syncer.go`, `cache.go` | the tracking label of live resources, the lagging cluster cache, the resource filter | `applyLabelAndNamespace`, `GetManagedLiveObjs`, `parseResourceFilter`, `IsExcludedResource` | runs and the cascade |
| configuration, `internal/controller/config` | the `GlobalConfig`, viper's copy of the file | `LoadConfig`, reload on a file change, `GetConfig` | read by all of the above |
| API types, `pkg/apis` | phase, conditions, commit status | `InitConditions`, `Mark*`, `ExplicitType` | reconciler |
| agent, `internal/agent` | its configuration with a revision number, the loop's own copy, the git source derived from it | `Run`: `checkConfigUpdate`, `evaluateGitSource`, `syncLatest` (empty so far) | its configuration manager; not connected to the controller |
| key-value generators, `internal/keyvaluegenerator` | keys and values | `GetKeysValues`, `EvaluateTemplate` (both trivial so far) | agent |
| diff normalization; credentials and URL parsing; kubectl wrappers; metrics; logger; generated clients | none, or write-only | pure functions and I/O | |

What is hard in this code:

* *concurrency*: the reconciler and all workers use the queue under one mutex that
  is held during a channel send; a key may be handed to a second worker while a first
  still works on it; both write the whole status of an object; several callers refresh
  one cluster cache; GitSyncs of the same name share a clone and a tracking label;
  the loop of the agent and viper's goroutine share the configuration;
* *stale reads*: every `Get` reads an informer cache that lags; `runOnce` uses one
  configuration and one copy of the object for the whole run; a comparison and a
  cascade read a cluster cache that lags behind the resources;
* *failure*: the two writes of `Reconcile` fail separately, a sync or a deletion can
  stop half way, a restart loses the watched set and can cut off a clone, a panic in
  one run ends the process; a malformed configuration is reloaded all the same;
* *ordering*: watch before finalizer, cascade before unwatch before finalizer, fetch
  before checkout before pull before resolve, prune before apply, revision before
  configuration.

What makes the components correct: the queue never loses, duplicates or starves a
key; a status write never destroys what another goroutine wrote; "synced" is never
reported of a commit that was not applied; whatever happened before, a wanted GitSync
converges; deletion terminates and leaves neither a watched key nor (with cascade)
resources; one cluster cache exists and gets the current settings; a run returns a
commit of its target revision, no older than the start of the run, and manifests of
that very commit; no resource is touched that no GitSync ever had in git, and the
manifests end up applied although resources move between GitSyncs; the agent works
with the configuration whose revision it remembers, and ends up with the last good
one. The hazards of PROJECT.json list these places line by line.

## 2. Modules

| module | models | role |
|---|---|---|
| `WatchSet` | what the syncer promises: a set of watched keys, handed to free workers | abstract specification; used by the controller model |
| `SyncQueue` | list, map, mutex, channel, assigner, workers of `Syncer` | implements `WatchSet` |
| `SyncPacing` | the sleep between two assignments | extends `SyncQueue` with time slept |
| `SyncQueueProofs`, `SyncPacingProofs` | | proofs about `SyncQueue` and `SyncPacing` |
| `KubeApi` | stored versions, lagging cache, optimistic concurrency, event filter, users | external code, as the controller uses it |
| `ManagedResources` | configuration, live resources, cascade deletion, pushes, drift | extends `KubeApi` |
| `GitSyncController` | `Reconcile`/`reconcile` | extends `ManagedResources`, instantiates `WatchSet` |
| `SyncRun` | `runOnce`, `sync`, `updateCommitStatus` | extends `GitSyncController` |
| `Numaplane`, `MCNumaplane` | the composition, with restarts and fairness; instances | controller runs |
| `NumaplaneProofs`, `NumaplaneFlagsProofs` | | proofs about `Numaplane`; the second about the two flags of the configuration |
| `LiveStateCache`, `LiveStateCacheProofs` | `getCluster` and `invalidate`; proofs | cache runs |
| `GitRepo`, `MCGitRepo`, `GitRepoProofs` | clone, fetch, checkout, pull, resolve, build; instances; proofs | git runs |
| `ResourceFilter` | `parseResourceFilter`, `IsExcludedResource` | pure operators |
| `ResourceTracking`, `MCResourceTracking`, `ResourceTrackingProofs` | label, cluster cache, compare, prune, apply, cascade for several GitSyncs; instances; proofs | extends `ResourceFilter` |
| `ConfigManager` | load, watch and reload of a configuration file | a process's configuration |
| `AgentSyncer`, `MCAgentSyncer`, `AgentSyncerProofs` | the revisions and the loop of the agent; instances; proofs | extends `ConfigManager` |

Operators called "Mutant" are plausible bugs; each replaces the definition that
follows it to confirm that a property can fail. They are part of no specification.

### Task queue
One action per critical section. The mutex is held across steps in one place, the
send in `assign()`, so "the lock is free" is `pc # "send"`, and every other section
waits for it (`ReconcilerReturns`, `WorkerStopsWatching`). The channel is unbuffered:
`Rendezvous` is the send and the receive. `ReconcilerCalls` picks any call; what a
worker finds in the API server is a choice limited by `Vanishing`. The history
variable `overtakes` counts assignments of other keys since a key's last turn.
`SyncPacing` splits the sleep of `Start()` at the call of `Length()`, because the list
may change while the assigner sleeps, and adds up what was slept since a key's last
turn (`waited`). The time a send waits for a worker is not counted: the property is
about the pace the assigner chooses.

### Reconciler
`rec` holds the program counter and the copy of the object. A call is split at the
read of the cache, the deletion of linked resources, the call of the syncer and the
two writes. The branches of `reconcile()` are one action each, in the source's order:
missing, other cluster (returns before the deletion check), deleting, invalid, valid.
`MarkFailed` has no effect because the copy is dropped when an error is returned:
`ReconcileInvalid` leaves the key in the work queue and nothing else. `Update` is sent
only if the finalizers differ; after it the copy carries the new resourceVersion.
`Phase` stands for phase, message and the condition `Configured`.

### A synchronization
`run[w]` holds the local variables of `runOnce`. It is split where others act in
between: configuration, get, git, commit status, compare, the apply of each resource,
status read, status write, cascade, stop. What git and the cluster hold is a content per
resource (`Manifests`, `live`). `compareState` yields the set of resources that differ, and
`Sync()` applies or prunes exactly those, one by one and in any order, whatever they have become
meanwhile (`WithResourceModificationChecker`): `RunApplies`. A failing sync leaves what it
has done so far. A cascade that succeeds is one step: a worker's apply in the middle of
it leaves the same resources as one before or after it, and the failing cascade deletes any
subset. `GetConfig` copies a struct of plain fields through JSON, which cannot fail; the
branch that would go on with an empty configuration is left out. The second deletion check (line 296) tests the
copy already known not to be deleted; it is never true, and the model has no such
branch. Both `compareState` and `sync` defer a cleanup function before they look at the
error it came with; on an error it is nil, the call panics, and the process starts
again: `WorkerPanics`. `updateCommitStatus` reads the cache again and writes the whole status with the
resourceVersion of that read.

### Kubernetes API
`versions[k]` is the sequence of states of an object from the one the informer has
delivered to the stored one, so every read can be arbitrarily stale while events
arrive in order. A write is refused unless the caller's resourceVersion is the
current one. Creation, deletion and a change of the generation reach the work queue
(`GenerationChangedPredicate`); finalizer and status writes do not change the
generation, marking for deletion does.

### Live state cache
One action per critical section of `c.lock`, plus the load before and the
`Invalidate` call of gitops-engine after it. A dereferenced nil (settings that did
not load, no cluster yet, no logger before `Init`) puts the caller in `"panic"`,
after which nothing runs; `PanicHasCause` says when that can happen. Callers other than the reconciler wait for `Init`.

### Git
The remote is a set of branches that fork from one commit which the tags name; a
branch grows, or a forced push replaces its history (`Rewritten`). The clone is HEAD, the local branches and the commit of the working
tree. `fetchUpdates` is split at each use of the repository because nothing locks it.
A spec may have sections of several source types; `ExplicitType` takes raw for none and
refuses more than one. `raw` manifests are read from the tree of the resolved commit,
kustomize and helm read the working tree. A failed clone removes the directory, a crash
does not. Where a second user meets a clone in the making, HEAD names no branch yet: a pull
then fails, or go-git makes the branch anew and checks its files out.

### Resource tracking
`cluster[r]` and `cached[r]` are the label and the content of a resource in the cluster
and in the cluster cache, which sees changes later and may skip states. A run of a
GitSync is the fetch of its manifests, `compareState` (which first passes changed
settings on, so that the cache is listed again), the pruning and the apply. A GitSync
marked for deletion starts no new run, and its cascade is repeated until it succeeds. `LiveObj` is
what `GetManagedLiveObjs` compares a target with: the cached object if it has a label,
the API server's if its kind is not watched or the cached one has no label. The filter
is kept as the text that `strings.Split` takes apart; a malformed one ends the process,
with an error that is logged before a nil is dereferenced or with an index out of range
(`Dies`). CRDs, which the cache treats like other resources here, are not special.

### Configuration and agent
`ConfigManager` splits `LoadConfig` at the watch, and a reload into viper's read and the
callback that fills `config` under `cm.lock`. A file that does not parse is dropped by
viper; one that does not decode replaces the configuration by what could be decoded.
`Run` of the agent is split at each critical section (`GetRevisionIndex`, `GetConfig`)
and at the evaluation of the git source, which is nil, a pointer into the loop's copy,
or a copy of its own. `published` is the history of revisions. The controller's manager
is the same code without the revision.

## 3. Runs

| run | expected | shows |
|---|---|---|
| `queue_safety` | pass | 3 keys, 2 workers, any key may vanish, shutdown at any time: `ListMatchesMap`, `InFlightIsWatched`, `BoundedOvertaking`, `ImplementsWatchSet`, and `TurnTakesInterval`: the sleeps between two turns of a key add up to the task interval |
| `queue_live` | pass | 2 keys, 2 workers, any key may vanish: `AssignedUnlessBlocked`, `ReconcilerCallReturns`, `WorkersStop`; the only way to get stuck is that `assign()` sends while every worker waits for its lock (`Blocked`) |
| `queue_stuck` | violation | `EveryWatchedKeyIsAssigned`, without that condition: the deadlock of assigner and workers happens |
| `ctl_safety` | pass | 1 key, 2 workers, 2 commits, 2 paths: `RunningHasFinalizer`, `SyncedWasApplied` (each resource was once as a commit has it that is called synced), `OnlyWorkersWriteCommit`, `OnlyReconcilerWritesPhase`, `GoneIsUnwatched` |
| `ctl_converges` | pass | `Converges` after any one of an edit, a push, a fault, a drift, a restart |
| `ctl_deletes` | pass | `DeletionCompletes`, `GoneEndsUnwatched`, `PauseTakesEffect` (also in the middle of a run), `HealOffLeavesDrift` over all flags, unusable specs, faults, restarts, reloads |
| `ctl_recreate` | violation | a late `StopWatching` unwatches a re-created GitSync |
| `ctl_orphans` | violation | resources outlive their GitSync in spite of cascade deletion |
| `cache_shared` | pass | `OneClusterCache`, `PanicHasCause` and `SettingsTakeEffectInOrder` with 3 callers and malformed configurations |
| `git_follows` | pass | 1 user, all kinds of targets and sources, forced pushes: `HashIsOfTarget`, `RunIsFresh`, `BranchManifestsMatchHash`, `BranchIsFollowed`, `TagIsSynced` (the commit of a lightweight tag, and its manifests for raw sources) |
| `tracking` | pass | 2 GitSyncs of one destination, manifests that move between them: `LabelHasOwner`, `ForeignIsUntouched`, `TargetsApplied`, `FilterFollowsFormat` |
| `agent_follows` | pass | edits, bad files, a restart, failing copies: `HeldMatchesRevision`, `SourceIsOfLastConfig`, `AgentFollowsFile`, `UnparsableIsIgnored` |

### Bounds
*Queue.* Three keys let one key overtake, be removed and come back while another
waits; two workers let the same key be in two workers' hands. The intervals 0 (not
configured), 2 (fewer milliseconds than keys) and 5 (not a multiple) are the cases of the
division. The state space is
finite without a bound as long as `BoundedOvertaking` holds.

*Controller.* One key: keys interact only through the queue (its own model, and the
proof that it implements `WatchSet`) and through sharing of a clone (`GitRepo`). Two
workers give the overlap of two runs of one key. Two resources, of which a commit changes
one and another path lacks one, let a run have differences to apply that others have not, and
to prune as well. The environment is bounded by a
`budget`; a run starts with one of several budgets, so that combinations are explored
without their product: delete and re-create, edit and fault, delete and restart, and so
on (`SafetyBudgets`, `ConvergeBudgets`, `DeletionBudgets`). Each fault is one of: a
failed get, clone, compare, half-done sync, status write, cascade or reconciler
write. `ctl_deletes` has one worker and one commit; its properties are about the
reconciler, a worker and the flags. Workers are symmetric in `ctl_safety`, which has
no liveness property.

*Cache.* Three callers, one of which does not wait for `Init`; two changes among two
settings and a malformed one, so that settings can change and change back.

*Git.* Two branches, one of which is the default and is called main, one lightweight
and one annotated tag, the common commit and a later one; specs with no section, one
and two; one push per branch, and in any order an edit of the target, a fault and a
restart, or a forced push with an edit or with a fault.

*Tracking.* Two GitSyncs of one destination namespace and two manifests of different
kinds are enough for a resource to move from one GitSync to the other, to be pruned by
one while the other applies it, and to be excluded from the cache alone. The cluster
starts empty or with unlabelled resources of the same names. Budgets: a push with a
half-done sync, a push, a half-done cascade or a change of the filter with a deletion, a
change by hand, or two changes of the filter among four texts, two of which are malformed.

*Agent.* Five contents of the file (every kind of generator, one that is not YAML, one
that does not decode), three edits, one restart and one failing copy: a bad content can
be followed by a good one and edits can overtake a reload.

Deadlock is checked where the system never stops (`ctl_converges`, `git_follows`);
elsewhere a shutdown, a panic, an empty cluster or an unusable file ends it.

### Fairness
*Queue.* Goroutines that can run do (weak fairness). The calls that wait for the lock
get strong fairness: Go's mutex hands over to a starving waiter. `runOnce` ends, with
either outcome: requests to git and to the API server are assumed to return. Calls by the reconciler and the cancellation
are not fair.

*Controller.* Informer, work queue, reconciler and runs in progress make progress.
Strong fairness for taking a key: the work queue is a FIFO and the reconciler takes
one key after the other, and a watched key is assigned again and again, which is
`AssignedUnlessBlocked` of the queue. When all workers wait in `StopWatching` it is not
(`queue_stuck`): the controller's liveness results hold as long as that
deadlock has not occurred. Users, pushes, drifts, faults, reloads and restarts are not fair.

*Git.* Every user runs again and again and every run ends. *Cache*: `Init` runs, calls
end and callers call again, as every task of a worker does. *Tracking*: every GitSync
that exists is synchronized again and again (the queue's liveness), the watches of the
cluster cache deliver every resource in the end, and the process is restarted by its
Deployment once the filter can be loaded. *Agent*: the process is started again, fsnotify
events are delivered, viper's goroutine and the loop go on. Edits, pushes, deletions,
tampering, faults and crashes are not fair.

## 4. Proofs

`SyncQueueProofs`, for every set of keys and workers (assumed: `NoKey \notin Keys`,
`Vanishing \subseteq Keys`, `CanCancel` Boolean):

* `ListMatchesMap` is not inductive by itself, because of `RemoveAt` at the position of
  a key: `QInv` joins it to the types, the key in flight (`InFlightIsWatched`) and the
  order. For `BoundedOvertaking` the strengthening is `OrderInv`: a key that stands
  behind `k` in the list has overtaken `k` at most once, one that stands in front of it
  has not overtaken it. A rotation moves the first key behind all others, which is
  the only step that counts; an insertion at the end and a removal keep the order.
* `RemoveAtElements`, `MoveToBackElements`, `AppendElements` say which elements the
  three list operations leave and in which order; `StartWatchingKeepsListInv`,
  `StopWatchingKeepsListInv`, `AssignKeepsListInv` use them, and `StepKeepsQInv` has one
  step per action.
* Theorems: `QueueInvariant`, `QueueTypes`, `ListAndMapAgree`, `KeyInFlightIsWatched`,
  `RoundRobin`, and `QueueImplementsWatchSet`: the refinement with `gitSyncMap` for
  `watched`. The refinement needs `QInv`: that the key received is still watched is
  `InFlightIsWatched`.

`SyncPacingProofs`, also for every set of task intervals (natural numbers). The property
speaks of two assignments of a key and all that happens between them; the invariant that
carries it is `PaceInv`: a steady key at position `i` of a list of length `l` has waited
`l - i` sleeps of the current length, and one more when the assigner is about to assign.
A rotation moves a key up by one and the next sleep adds one; a key that comes or goes
makes no key steady, so a sleep whose length was computed from the old list (`SleepInv`)
is counted for nobody. With `l` sleeps at the front, `SleepsAddUp` does the division.
Theorems: `PacingInvariant`, `TurnsKeepPace`, and `PacedQueueIsQueue`, by which all
theorems of the queue hold of the specification that `queue_safety` checks.

`LiveStateCacheProofs`, for any number of callers, settings and changes (assumed: the
zero settings are no settings, the sets of good and malformed ones are disjoint):
`LInv` adds to the types and `PanicHasCause` that the number of cluster caches tells
whether one exists (`CreationInv`), that a caller past the comparison finds settings
(`CheckedInv`), so that a cluster cache made from them is distinguishable from none, and
that a caller which has waited for `Init` finds the settings it left, so that it invalidates
only after a change of the configuration (`WaitInv`).
Theorems: `CacheInvariant`, `CacheTypes`, `OnlyOneClusterCache`, `OnlyThreeCausesOfPanic`.

`NumaplaneProofs`, for any set of GitSyncs, workers, specs and hashes and any budget of
edits, deletions, faults, drifts, reloads and restarts (assumed: `NoKey` is no key, 0 is no
hash, there is a first hash). The question is what writes from old copies can
destroy. `NInv` joins the types with

* `RvInv`: resourceVersions grow along the versions the informer has not delivered;
* `RecInv`: the reconciler's copy has a resourceVersion no later than the stored one, and
  as long as it is the stored one the copy agrees with the stored object in what the next
  write relies on: mark for deletion, commit status, finalizer;
* `RunInv`: a resource that a worker has compared and has not left to apply has been as the
  target has it, so that what it will report as synced has been live, resource by resource;
  and the copy it will write has the stored phase while it is current;
* `LiveInv`: the history `applied` covers what is live.

`SyncedWasApplied` speaks of each resource by itself because the code promises no more: of
two runs on one key, one may apply its differences over the other's (`CtlMixture`), and the
commit it reports was never completely live at one moment. With auto heal the next run repairs
that (`Converges`); without, it stays until the next commit.

`RunningHasFinalizer` is not inductive alone, because phase and finalizer are written by
two requests, the second of which may come from a copy whose finalizer was never stored:
`RecInv` says that a copy which survives `Update` is current only if it was. Theorems:
`ControllerInvariant`, `ControllerTypes`, `RunningIsProtected`, `SyncedIsTrue`, and the
action properties `ReconcilerKeepsCommit`, `WorkersKeepPhase`, `RemovedIsUnwatched`.

`NumaplaneFlagsProofs` proves two properties that are written as temporal formulas but
are safety: a predicate stays true as long as a flag does. `PausedIsIdle` (a controller
paused from the start never applies anything, `PausedAppliesNothing`) needs that no
run gets past the check of `automatedSyncDisabled` (`PausedInv`); `DriftIsLeft` that
every version of the object which anybody may still read, and every copy in use, records
the commit, so that each run stops at the comparison of the hashes (`DriftInv`).

`GitRepoProofs`, for any branches, tags, targets, commits, forced pushes, faults and
restarts (assumed: a target's name is not the mark for "no branch", and commits are not
also names of branches or tags). `GInv` holds for any number of users: HEAD of a complete
clone names a local branch with a commit, what is pulled is a branch, and the remote only
moves on from what a run saw. What a run returns is proved under `OneUser`, because two
users of a directory really do get each other's commits (`GitSharedClone`); it
holds of a directory while no other GitSync of that name and URL and no second worker with
the same key is in it. `OneInv` follows one run
through its steps: HEAD stays on the target branch between checkout and resolve, the pull
makes it as new as the remote was at the start and checks its files out, and the hash
to be returned is one of the target. `NeverAhead` (a local branch is never ahead of the
remote's) is what makes a pull that finds nothing to do mean that both are equal. Theorems:
`CloneInvariant`, `CloneTypes`, `OneUserInvariant`, `HashBelongsToTarget`,
`RunsAreFresh`, `ManifestsAreOfHash`.

`ResourceTrackingProofs`, for any GitSyncs, also of equal names, any layouts, filters and
budgets (assumed: `NoLabel` is no name, layouts and initial resources are well typed, some
filter text can be parsed). `TInv` adds to `LabelHasOwner` that the history `ever` covers git
(`LayoutInv`) and bounds the targets, the prune and the apply set of every run in progress
(`RunInv`): these sets are computed from a cache that lags and used steps later.
Theorems: `TrackingInvariant`, `TrackingTypes`, `LabelsAreEarned`, `ForeignIsSafe`, and
`FilterIsAsDocumented`, which is about texts of any length.

`AgentSyncerProofs`, for any contents of the file and any number of edits, restarts and
failing copies (assumed: some content can be loaded). `AInv` adds that the manager's configuration is the
last one published, and that `revisionIndex + 1` were (`PublishedInv`); that nothing is
remembered before the loop runs; that the loop asks for a configuration only when
there is a newer one (`GetInv`), so that a copy which fails is made again; and how the git
source relates to the configuration held at every step of the loop (`SourceInv`).
Theorems: `AgentInvariant`, `AgentTypes`, `RevisionIdentifiesConfig`,
`SourceFollowsLastConfig`. The exception in the last is a copy of a newer configuration that
failed: the loop then holds an empty one and the git source stays that of the one before
(`AgentStaleCopy`).

Each inductive invariant was checked with TLC on the run's instance before it was proved.

Model-checked only: the properties that need fairness, which is out of the prover's reach
(`AssignedUnlessBlocked`, `ReconcilerCallReturns`, `WorkersStop`, `Converges`,
`DeletionCompletes`, `GoneEndsUnwatched`, `PauseTakesEffect`, `SettingsTakeEffectInOrder`, `BranchIsFollowed`,
`TagIsSynced`, `TargetsApplied`, `AgentFollowsFile`, `UnparsableIsIgnored`). Every other
property of a passing run is stated by a theorem.

## 5. What the violations show

* **The assigner can deadlock with the workers** (`queue_stuck`). `assign()` sends with
  the write lock held; when every worker is about to call `StopWatching`, nobody
  receives. The reconciler then blocks as well.
* **A re-created GitSync can be forgotten** (`ctl_recreate`). The worker's decision to
  stop watching is taken before, and executed after, the reconciler's `StartWatching`.
* **Cascade deletion can leave resources** (`ctl_orphans`). The key is watched before
  the finalizer is stored, and a run in progress applies its manifests after the
  cascade; the check after the sync looks at the old copy.

Further configurations, each with one property that TLC refutes; they document
behaviour that the passing properties above exclude by a condition:

| configuration | module | property | what happens |
|---|---|---|---|
| `QueueShutdownHang` | `SyncQueue` | `SynchronizerStops` | the send does not select on `ctx.Done()`; all workers exit and `Start` never returns |
| `CtlForeign` | `MCNumaplane` | `ForeignEndsUnwatched` | a GitSync edited to another cluster stays watched and synchronized here, although a test comment says it is removed (`gitsync_controller_test.go:92`) |
| `CtlForeignDeletion` | `MCNumaplane` | `EveryDeletionCompletes` | such a GitSync keeps the finalizer: the cluster check comes before the deletion branch |
| `CtlInvalid` | `MCNumaplane` | `InvalidIsNotConfigured` | a GitSync edited to an invalid spec keeps `Running` and `Configured` (against `gitsync_types.go:40-41`) |
| `CtlNoHealing` | `MCNumaplane` | `Converges` | with auto heal off a commit whose sync failed is recorded and never tried again |
| `CtlMixture` | `MCNumaplane` | `NoMixture` | of two workers on one key, each applies only what differed at its own comparison: they leave one resource of each commit, and both report success |
| `CacheEarly` | `LiveStateCache` | `NeverPanics` | the reconciler's cascade uses the cache before `Init` (`cache.go:81`) |
| `CacheNil` | `LiveStateCache` | `NeverPanics` | after `Init`, which makes no cluster cache: `includedResources` is changed before the first call, which finds other settings and invalidates a cluster cache that is nil (`cache.go:132`) |
| `CacheStale` | `LiveStateCache` | `SettingsTakeEffect` | `invalidate` passes the settings on after unlocking: of two callers with different settings the later one can be overwritten by the earlier, and no further call sees a difference (excluded by `Racing` in `cache_shared`), although the cache "always ensures the cache is up-to-date" (`cache.go:74-75`) |
| `GitSharedClone` | `MCGitRepo` | `HashIsOfTarget` | the directory is derived from name and URL, not from the namespace, and is not locked: two users in one clone get a hash of the wrong branch |
| `GitForced` | `MCGitRepo` | `RewriteIsFollowed` | after a forced push the pull into a branch with the old history is no fast-forward and fails each time, although `Force` is set |
| `TrackingNames` | `MCResourceTracking` | `TargetsApplied` | GitSyncs of the same name in different namespaces have the same label and prune each other's resources without end |
| `AgentWindow` | `MCAgentSyncer` | `AgentFollowsEveryEdit` | an edit between the first read of the file and the start of the watch is not seen until the next one |
| `AgentHalfDecoded` | `MCAgentSyncer` | `NeverHalfConfigured` | a file that does not decode leaves the agent with an empty definition; the error is only logged |
| `AgentStaleCopy` | `MCAgentSyncer` | `SourceIsOfHeldConfig` | after a failed copy of a newer configuration the git source stays that of the one before for a round |
| `GitTagFiles` | `MCGitRepo` | `ManifestsMatchHash` | for a tag or a commit kustomize and helm read the tip of a branch that contains it |
| `GitAnnotated` | `MCGitRepo` | `AnnotatedIsSynced` | an annotated tag is never found |
| `GitMain` | `MCGitRepo` | `FollowsMain` | the target `main` is never found when the default branch is another one |
| `GitCrash` | `MCGitRepo` | `FollowsMain` | nor after a restart in the middle of the clone: nothing is fetched for `main` and `master` |

## 6. What is not modelled

* The JSON of manifests, diffs and the normalization of them; gitops-engine's planning,
  waves and hooks: the diff is a single step, the apply one step per resource in any order.
  In `ResourceTracking` pruning and apply are one step each with a partial failure.
* In the controller model a comparison or a cascade reads the resources as they are at
  that step; the lag of the cluster cache is part of `ResourceTracking`. There the
  watched set, the status and the finalizer are left out: a GitSync that exists is
  synchronized.
* The handler of resource updates in `cache.go`, which does nothing yet, and the
  classification of retryable errors, which only the external cluster cache calls.
* The list of conditions, which follows the phase (`Mark*` sets both together), and its
  time stamps: the transition time is renewed by each reconciliation. `SyncTime`, which
  is written only when hash, outcome or error change.
* `ExplicitType` is modelled as written (no section means raw); its comment says that no
  section is an error.
* The loop interval of the agent: a file that does not decode can leave it 0, and the
  loop then runs without a pause. The models have no clock but the queue's sleep.
* Credentials, secrets and URL parsing (strings handed to go-git); that they cannot be
  had is a fault. Moved tags. kubectl wrappers, metrics, logging, generated code, flags.
* The cluster name and the task interval, which are read once at start: constants of a
  process here as well.

## 7. Plan

1. Queue, controller, cache, git: the core, with the proofs of the queue and the cache (done).
2. Resource tracking, resource filter, configuration manager, agent, pacing, forced
   pushes, source types, panics of a run (done).
3. Proofs of the safety of every component (done): controller, flags, git, resource
   tracking, agent, pacing.
4. Next: the safety that the fairness results rest on (what a blocked queue looks like, what
   a run in progress of a GitSync being deleted can still do, in which order settings reach
   the cluster cache), as theorems beside the model-checked liveness.
