-------------------------- MODULE ResourceTracking --------------------------
(***************************************************************************)
(* Which resources of the cluster belong to which GitSync: the label that  *)
(* applyLabelAndNamespace puts on every manifest, the cluster cache that   *)
(* finds the resources of a GitSync by that label (cache.go), the pruning  *)
(* of what is no longer in git, cascade deletion, and the resource filter  *)
(* that decides which kinds the cache watches at all.                      *)
(*                                                                         *)
(* The cluster cache and the sync of gitops-engine are external: the cache *)
(* follows the cluster with a delay and may skip states; a sync prunes     *)
(* first and then applies what differs.                                    *)
(***************************************************************************)
EXTENDS ResourceFilter, FiniteSets

CONSTANTS
    GitSyncs,   \* GitSync objects
    NameOf,     \* NameOf[g]: metadata.name, without the namespace
    DestOf,     \* DestOf[g]: spec.destination.namespace
    Manifests,  \* manifests: names of resources of some kind
    KindOf,     \* KindOf[m]: [group, kind]
    Layouts,    \* what git may hold: functions from GitSyncs to sets of manifests
    Texts,      \* values of includedResources
    NoLabel,    \* no tracking label
    Made,       \* sets of resources that may exist before the controller starts
    Budgets     \* how often the environment does what

Names == {NameOf[g] : g \in GitSyncs}
\* A resource is <<namespace, manifest>>.
Resources == {DestOf[g] : g \in GitSyncs} \X Manifests

BudgetFields == {"pushes", "deletes", "tampers", "reloads", "faults"}

ASSUME NamesAssumption == NoLabel \notin Names
ASSUME LayoutsAssumption == Layouts \subseteq [GitSyncs -> SUBSET Manifests]
ASSUME MadeAssumption == \A rs \in Made : rs \subseteq Resources
ASSUME TextsAssumption == \E t \in Texts : ParseResourceFilter(t).outcome = "ok"
ASSUME TrackingBudgetsAssumption == Budgets \subseteq [BudgetFields -> Nat]

VARIABLES
    layout,   \* layout[g]: the manifests of g in git
    exists,   \* the GitSyncs that exist
    deleting, \* those marked for deletion
    cluster,  \* cluster[r]: the resource in the cluster, see ResourceStates
    cached,   \* cached[r]: the resource in the cluster cache
    text,     \* includedResources of the configuration
    filter,   \* the parsed filter the cluster cache uses
    up,       \* the controller runs
    run,      \* run[g]: the synchronization of g, see Runs
    ever,     \* history: ever[g], the resources g has had in git
    budget    \* what is left of one of the Budgets

vars == <<layout, exists, deleting, cluster, cached, text, filter, up, run, ever, budget>>

Absent == [label |-> NoLabel, content |-> "none"]
Unlabelled == [label |-> NoLabel, content |-> "other"]
ResourceStates ==
    {Absent} \cup [label : Names \cup {NoLabel}, content : {"git", "other"}]

\* applyLabelAndNamespace: the manifests of g with its name and namespace.
Place(g, ms) == {<<DestOf[g], m>> : m \in ms}
\* Mutant: the label of all is that of one GitSync.
DesiredOfOne(g) == [label |-> NameOf[CHOOSE h \in GitSyncs : TRUE], content |-> "git"]
Desired(g) == [label |-> NameOf[g], content |-> "git"]

Runs == [pc : {"out", "compare", "prune", "apply"}, target : SUBSET Resources,
         prune : SUBSET Resources, apply : SUBSET Resources]
NoRun == [pc |-> "out", target |-> {}, prune |-> {}, apply |-> {}]

Spend(field) == /\ budget[field] > 0
                /\ budget' = [budget EXCEPT ![field] = @ - 1]

\* Some resources exist that no GitSync has made.
TInit == /\ layout \in Layouts
         /\ exists = GitSyncs
         /\ deleting = {}
         /\ \E rs \in Made :
               cluster = [r \in Resources |-> IF r \in rs THEN Unlabelled ELSE Absent]
         /\ cached = cluster
         /\ text \in {t \in Texts : ParseResourceFilter(t).outcome = "ok"}
         /\ filter = ParseResourceFilter(text).types
         /\ up = TRUE
         /\ run = [g \in GitSyncs |-> NoRun]
         /\ ever = [g \in GitSyncs |-> Place(g, layout[g])]
         /\ budget \in Budgets

-----------------------------------------------------------------------------
(* What the controller sees.                                               *)

Watched(types, r) == LET k == KindOf[r[2]] IN ~IsExcludedResource(types, k.group, k.kind)

\* Mutant: a resource that is watched is managed.
ManagedUnlabelled(g, types, cache) ==
    {r \in Resources : Watched(types, r) /\ cache[r] # Absent}

\* isManaged of GetManagedLiveObjs: PopulateResourceInfo has found the name of
\* the GitSync in the label.
Managed(g, types, cache) ==
    {r \in Resources : Watched(types, r) /\ cache[r].label = NameOf[g]}

\* The live object compared with a target: the cached one if the cache has it
\* with a label, nothing if its kind is watched and it is not there, otherwise
\* what the API server returns.
LiveObj(r, types, cache) ==
    IF Watched(types, r) /\ (cache[r] = Absent \/ cache[r].label # NoLabel)
    THEN cache[r] ELSE cluster[r]

\* Mutant: the label does not count as a difference.
DiffersInContent(g, live) == live.content # Desired(g).content

\* StateDiffs of the live object and the target: the label is part of both.
Differs(g, live) == live # Desired(g)

\* getSyncedCluster loads the settings and, if they have changed, gives them to
\* the cluster cache, which lists the resources again.
Loaded == ParseResourceFilter(text)
CacheInUse == IF Loaded.types = filter THEN cached ELSE cluster

\* Mutant: a synchronization survives the process.
DiesAlone == /\ Loaded.outcome # "ok"
             /\ up' = FALSE
             /\ UNCHANGED <<exists, deleting, cluster, cached, filter, run>>

\* The process ends because the filter cannot be loaded (an error that is only
\* logged and a nil pointer, or an index out of range).
Dies == /\ Loaded.outcome # "ok"
        /\ up' = FALSE
        /\ run' = [g \in GitSyncs |-> NoRun]
        /\ UNCHANGED <<exists, deleting, cluster, cached, filter>>

-----------------------------------------------------------------------------
(* The synchronization of g.                                               *)

Fetch(g) ==
    /\ up /\ g \in exists \ deleting /\ run[g].pc = "out"
    /\ run' = [run EXCEPT ![g].pc = "compare", ![g].target = Place(g, layout[g])]
    /\ UNCHANGED <<layout, exists, deleting, cluster, cached, text, filter, up, ever, budget>>

\* compareState: what is managed and not a target is pruned, a target whose
\* live object differs is applied.
Compare(g) ==
    /\ up /\ run[g].pc = "compare"
    /\ \/ Dies
       \/ /\ Loaded.outcome = "ok"
          /\ filter' = Loaded.types
          /\ cached' = CacheInUse
          /\ run' = [run EXCEPT
                ![g].pc = "prune",
                ![g].prune = Managed(g, Loaded.types, CacheInUse) \ run[g].target,
                ![g].apply = {r \in run[g].target :
                                 Differs(g, LiveObj(r, Loaded.types, CacheInUse))}]
          /\ UNCHANGED <<exists, deleting, cluster, up>>
    /\ UNCHANGED <<layout, text, ever, budget>>

\* Deletion is by name, whatever the resource has become meanwhile.
Delete(rs) == cluster' = [r \in Resources |-> IF r \in rs THEN Absent ELSE cluster[r]]

PruneStep(g) ==
    /\ up /\ run[g].pc = "prune"
    /\ Delete(run[g].prune)
    /\ run' = [run EXCEPT ![g].pc = "apply", ![g].prune = {}]
    /\ UNCHANGED <<layout, exists, deleting, cached, text, filter, up, ever, budget>>

Apply(g, rs) == cluster' = [r \in Resources |-> IF r \in rs THEN Desired(g) ELSE cluster[r]]

ApplyStep(g) ==
    /\ up /\ run[g].pc = "apply"
    /\ Apply(g, run[g].apply)
    /\ run' = [run EXCEPT ![g] = NoRun]
    /\ UNCHANGED <<layout, exists, deleting, cached, text, filter, up, ever, budget>>

\* The sync fails with some of the resources pruned, or some of them applied.
SyncFails(g) ==
    /\ up
    /\ Spend("faults")
    /\ \/ run[g].pc = "prune" /\ \E rs \in SUBSET run[g].prune : Delete(rs)
       \/ run[g].pc = "apply" /\ \E rs \in SUBSET run[g].apply : Apply(g, rs)
    /\ run' = [run EXCEPT ![g] = NoRun]
    /\ UNCHANGED <<layout, exists, deleting, cached, text, filter, up, ever>>

\* A user deletes g; a synchronization in progress goes on.
MarkDeleted(g) ==
    /\ g \in exists \ deleting
    /\ Spend("deletes")
    /\ deleting' = deleting \cup {g}
    /\ UNCHANGED <<layout, exists, cluster, cached, text, filter, up, run, ever>>

\* ProcessGitSyncDeletion with cascadeDeletion on: what the cache shows with the
\* label of g is deleted, and g goes.
CascadeDeletion(g) ==
    /\ up /\ g \in deleting
    /\ \/ Dies
       \/ /\ Loaded.outcome = "ok"
          /\ filter' = Loaded.types
          /\ cached' = CacheInUse
          /\ Delete(Managed(g, Loaded.types, CacheInUse))
          /\ exists' = exists \ {g}
          /\ deleting' = deleting \ {g}
          /\ UNCHANGED <<up, run>>
    /\ UNCHANGED <<layout, text, ever, budget>>

\* DeleteManagedObjects ends at the first deletion that fails; g stays, and
\* the cascade is tried again.
CascadeFails(g) ==
    /\ up /\ g \in deleting
    /\ Spend("faults")
    /\ Loaded.outcome = "ok"
    /\ filter' = Loaded.types
    /\ cached' = CacheInUse
    /\ \E rs \in SUBSET Managed(g, Loaded.types, CacheInUse) :
          rs # Managed(g, Loaded.types, CacheInUse) /\ Delete(rs)
    /\ UNCHANGED <<layout, exists, deleting, text, up, run, ever>>

-----------------------------------------------------------------------------
(* The cluster cache, users, git and the configuration.                    *)

CacheSees(r) ==
    /\ up
    /\ cached[r] # cluster[r]
    /\ cached' = [cached EXCEPT ![r] = cluster[r]]
    /\ UNCHANGED <<layout, exists, deleting, cluster, text, filter, up, run, ever, budget>>

\* The process is started again: Init loads the settings, or ends it again.
Restart ==
    /\ ~up
    /\ Loaded.outcome = "ok"
    /\ up' = TRUE
    /\ filter' = Loaded.types
    /\ cached' = cluster
    /\ UNCHANGED <<layout, exists, deleting, cluster, text, run, ever, budget>>

\* Manifests are added, removed, or moved from one GitSync to another.
Push ==
    /\ Spend("pushes")
    /\ layout' \in Layouts \ {layout}
    /\ ever' = [g \in GitSyncs |-> ever[g] \cup Place(g, layout'[g])]
    /\ UNCHANGED <<exists, deleting, cluster, cached, text, filter, up, run>>

\* Somebody changes a resource by hand, or deletes it.
Tamper(r) ==
    /\ cluster[r] # Absent
    /\ Spend("tampers")
    /\ \E v \in {Absent, [cluster[r] EXCEPT !.content = "other"]} :
          cluster' = [cluster EXCEPT ![r] = v]
    /\ UNCHANGED <<layout, exists, deleting, cached, text, filter, up, run, ever>>

Reconfigure ==
    /\ Spend("reloads")
    /\ text' \in Texts \ {text}
    /\ UNCHANGED <<layout, exists, deleting, cluster, cached, filter, up, run, ever>>

SyncStep(g) == Fetch(g) \/ Compare(g) \/ PruneStep(g) \/ ApplyStep(g)

TNext == \/ \E g \in GitSyncs : SyncStep(g) \/ SyncFails(g)
                              \/ MarkDeleted(g) \/ CascadeDeletion(g) \/ CascadeFails(g)
         \/ \E r \in Resources : CacheSees(r) \/ Tamper(r)
         \/ Restart \/ Push \/ Reconfigure

TSpec == TInit /\ [][TNext]_vars

\* Every GitSync is synchronized again and again until it is deleted, which is
\* tried again and again as well; the watches of the cluster
\* cache deliver, and the process is restarted.
FairTSpec == /\ TSpec
             /\ WF_vars(Restart)
             /\ \A g \in GitSyncs : WF_vars(SyncStep(g)) /\ WF_vars(CascadeDeletion(g))
             /\ \A r \in Resources : WF_vars(CacheSees(r))

-----------------------------------------------------------------------------
\* Every variable has its type, and while the process is down nothing runs.
TTypeOK == /\ layout \in [GitSyncs -> SUBSET Manifests]
           /\ exists \subseteq GitSyncs /\ deleting \subseteq exists
           /\ cluster \in [Resources -> ResourceStates]
           /\ cached \in [Resources -> ResourceStates]
           /\ text \in Texts
           /\ up \in BOOLEAN
           /\ run \in [GitSyncs -> Runs]
           /\ ever \in [GitSyncs -> SUBSET Resources]
           /\ budget \in [BudgetFields -> Nat]
           /\ ~up => run = [g \in GitSyncs |-> NoRun]

\* A tracking label, in the cluster or in the lagging cache, is the name of a
\* GitSync that has had this resource in git: nothing else is ever taken for
\* managed.
LabelHasOwner ==
    \A r \in Resources : \A n \in {cluster[r].label, cached[r].label} \ {NoLabel} :
        \E g \in GitSyncs : NameOf[g] = n /\ r \in ever[g]

\* A resource that no GitSync has ever had in git is left alone by syncs,
\* pruning and cascade deletion, also when the cache is stale.
ForeignIsUntouched ==
    [][\A r \in Resources :
          cluster'[r] # cluster[r] /\ budget'["tampers"] = budget["tampers"]
              => \E g \in GitSyncs : r \in ever[g]]_vars

\* The resources of g are those of its manifests, and no watched resource but
\* those has its label.
InSync(g) ==
    /\ \A r \in Place(g, layout[g]) : cluster[r] = Desired(g)
    /\ \A r \in Resources \ Place(g, layout[g]) :
          Watched(Loaded.types, r) => cluster[r].label # NameOf[g]

\* A GitSync that stays ends up with its manifests applied and the rest pruned,
\* although resources move between GitSyncs while the cache is stale, other
\* GitSyncs are deleted with their resources, syncs fail half way, and the
\* filter is changed, also to one that ends the process.
TargetsApplied ==
    \A g \in GitSyncs : <>[](g \in exists \ deleting /\ Loaded.outcome = "ok") => <>[]InSync(g)

\* The documented format of includedResources: rules "group=G,kind=K".
Rule(group, kind) == <<<<"group", group>>, <<"kind", kind>>>>
Groups == {KindOf[m].group : m \in Manifests}
Kinds == {KindOf[m].kind : m \in Manifests} \cup {""}

\* Rules of the documented format are all accepted, and a resource is watched
\* exactly if one of the rules of the current text names its group and its kind,
\* or its group and no kind.
FilterFollowsFormat ==
    (\A i \in DOMAIN text : \E gk \in Groups \X Kinds : text[i] = Rule(gk[1], gk[2]))
        => /\ Loaded.outcome = "ok"
           /\ \A r \in Resources :
                 LET k == KindOf[r[2]]
                 IN Watched(Loaded.types, r)
                       <=> \E i \in DOMAIN text :
                              text[i] \in {Rule(k.group, k.kind), Rule(k.group, "")}
=============================================================================
