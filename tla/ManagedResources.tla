-------------------------- MODULE ManagedResources --------------------------
(***************************************************************************)
(* What the reconciler and the workers share besides the API objects: the  *)
(* configuration, the live resources that carry the tracking label of a    *)
(* GitSync, and the deletion of those resources.  A worker's sync reads    *)
(* and writes the same resources.                                          *)
(***************************************************************************)
EXTENDS KubeApi

CONSTANTS
    Configs,    \* the configurations: [automatedSyncDisabled, autoHealDisabled,
                \* cascadeDeletion], the fields of GlobalConfig read here
    Resources,  \* the resources that manifests may describe, by group, kind and name
    Contents,   \* what a manifest may say of a resource
    Manifests   \* Manifests[path][hash]: what the files of a path say at a commit

Absent == "absent"    \* no manifest, or no such resource in the cluster
Changed == "changed"  \* a resource as no manifest describes it

ASSUME ContentsAssumption == Absent \notin Contents /\ Changed \notin Contents
ASSUME ManifestsAssumption ==
    \A s \in Specs, h \in Hashes :
        Manifests[s.path][h] \in [Resources -> Contents \cup {Absent}]

VARIABLES
    config,  \* what ConfigManager.GetConfig returns
    live,    \* live[k][r]: resource r with the label of k, see Live
    head     \* the commit the target revision resolves to

resVars == <<config, live, head>>

\* What a GitSync with spec s asks for at a commit, and what can be found live.
Target(s, hash) == Manifests[s.path][hash]
NoResources == [r \in Resources |-> Absent]
Live == [Resources -> Contents \cup {Absent, Changed}]

ResInit == /\ config \in Configs
           /\ live = [k \in Keys |-> NoResources]
           /\ head = CHOOSE h \in Hashes : \A g \in Hashes : h <= g

ResTypeOK == /\ config \in Configs
             /\ live \in [Keys -> Live]
             /\ head \in Hashes

-----------------------------------------------------------------------------
\* The live resources that carry the label of k, without their status field:
\* what compareState and CascadeDeletion read from the cluster cache.
GetManagedLiveObjs(k) == live[k]

\* CascadeDeletion: every live resource with the label of k is deleted.
CascadeDeletion(k) == live' = [live EXCEPT ![k] = NoResources]

\* ProcessGitSyncDeletion reads the configuration again and deletes the
\* linked resources only if cascadeDeletion is set.
ProcessGitSyncDeletion(k) ==
    \/ config.cascadeDeletion /\ CascadeDeletion(k)
    \/ ~config.cascadeDeletion /\ UNCHANGED live

\* ProcessGitSyncDeletion fails: the resources are not found out, or deleting
\* one of them fails when some others are deleted.
ProcessGitSyncDeletionFails(k) ==
    /\ config.cascadeDeletion
    /\ \E deleted \in SUBSET Resources :
          live' = [live EXCEPT ![k] = [r \in Resources |->
                      IF r \in deleted THEN Absent ELSE live[k][r]]]

-----------------------------------------------------------------------------
(* The environment of the resources.                                       *)

Push == /\ Spend("pushes")
        /\ head' \in {h \in Hashes : h > head}
        /\ UNCHANGED <<versions, requests, config, live>>

\* Somebody changes a live resource by hand.
Drift(k) == /\ Spend("drifts")
            /\ \E r \in Resources : /\ live[k][r] # Absent
                                    /\ live' = [live EXCEPT ![k][r] = Changed]
            /\ UNCHANGED <<versions, requests, config, head>>

ReloadConfig == /\ Spend("reloads")
                /\ config' \in Configs \ {config}
                /\ UNCHANGED <<versions, requests, live, head>>
=============================================================================
