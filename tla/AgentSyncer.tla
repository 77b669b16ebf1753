---------------------------- MODULE AgentSyncer ----------------------------
(***************************************************************************)
(* The agent, cmd/agent and internal/agent: its configuration manager with *)
(* the revision number, and the loop of AgentSyncer.Run, which keeps its   *)
(* own copy of the configuration and derives the git source to synchronize *)
(* from it.  The loop and viper's goroutine share cm.config and            *)
(* cm.revisionIndex under cm.lock; each critical section is one step.      *)
(***************************************************************************)
EXTENDS ConfigManager, Integers, Sequences

CONSTANT MaxCloneErrors  \* bound: failures of the copies made with JSON

ASSUME CloneErrorsAssumption == MaxCloneErrors \in Nat

VARIABLES
    revisionIndex,   \* cm.revisionIndex
    published,       \* history: published[i + 1] is the configuration of revision i
    pc,              \* where Run is: "out", "check", "get", "evaluate", "sync"
    held,            \* syncer.config
    configRevision,  \* syncer.configRevision
    kvSource,        \* syncer.kvSource: "nil", "basic" or "file"
    fresh,           \* generateNewGitSource
    gitSource,       \* syncer.gitSource, see SourceDef
    cloneErrors      \* failures of the copies made with JSON so far

agentVars == <<revisionIndex, published, pc, held, configRevision, kvSource, fresh,
               gitSource, cloneErrors>>
vars == <<managerVars, agentVars>>

\* gitSource is nil, points into syncer.config, or is a copy made by
\* evaluateGitDefinition.
NoSource == [kind |-> "nil", def |-> NoDef]
InConfig == [kind |-> "pointer", def |-> NoDef]
Copy(d) == [kind |-> "copy", def |-> d]
Defs == {c.def : c \in AllConfigs}

\* The definition that syncLatest would find in gitSource.
SourceDef == IF gitSource.kind = "pointer" THEN held.def ELSE gitSource.def

\* NewAgentSyncer: -1 makes the first check load the configuration.
Unstarted == /\ pc = "out"
             /\ held = ZeroConfig
             /\ configRevision = -1
             /\ kvSource = "nil"
             /\ fresh = FALSE
             /\ gitSource = NoSource

AInit == /\ CMInit /\ Unstarted
         /\ revisionIndex = 0
         /\ published = <<>>
         /\ cloneErrors = 0

-----------------------------------------------------------------------------
(* The manager.                                                            *)

Edits == /\ \E f \in Files : EditFile(f)
         /\ UNCHANGED agentVars

Loads == /\ LoadConfig
         /\ revisionIndex' = 0
         /\ published' = <<config'>>
         /\ UNCHANGED <<pc, held, configRevision, kvSource, fresh, gitSource, cloneErrors>>

\* LoadConfig returns, and main calls Run.
Starts == /\ WatchConfig
          /\ pc' = "check"
          /\ UNCHANGED <<revisionIndex, published, held, configRevision, kvSource, fresh,
                         gitSource, cloneErrors>>

Reads == ViperReads /\ UNCHANGED agentVars

\* Mutant: the revision counts only what could be decoded.
ReloadsUncounted ==
    /\ OnConfigChange
    /\ revisionIndex' = IF vmap.decodes THEN revisionIndex + 1 ELSE revisionIndex
    /\ published' = IF vmap.decodes THEN Append(published, config') ELSE published
    /\ UNCHANGED <<pc, held, configRevision, kvSource, fresh, gitSource, cloneErrors>>

\* OnConfigChange of the agent also counts the revision, in the same section.
Reloads == /\ OnConfigChange
           /\ revisionIndex' = revisionIndex + 1
           /\ published' = Append(published, config')
           /\ UNCHANGED <<pc, held, configRevision, kvSource, fresh, gitSource, cloneErrors>>

\* The process ends: only the file is left.
Ends == /\ Crash
        /\ pc' = "out"
        /\ held' = ZeroConfig
        /\ configRevision' = -1
        /\ kvSource' = "nil"
        /\ fresh' = FALSE
        /\ gitSource' = NoSource
        /\ revisionIndex' = 0
        /\ published' = <<>>
        /\ UNCHANGED cloneErrors

-----------------------------------------------------------------------------
(* One round of Run.                                                       *)

\* Mutant: the revision is compared for a difference of two.
LooksLate ==
    /\ pc = "check"
    /\ pc' = IF revisionIndex > configRevision + 1 \/ configRevision < 0
             THEN "get" ELSE "evaluate"
    /\ fresh' = FALSE
    /\ UNCHANGED <<managerVars, revisionIndex, published, held, configRevision, kvSource,
                   gitSource, cloneErrors>>

\* checkConfigUpdate, the first section: GetRevisionIndex.
ChecksRevision ==
    /\ pc = "check"
    /\ pc' = IF revisionIndex > configRevision THEN "get" ELSE "evaluate"
    /\ fresh' = FALSE
    /\ UNCHANGED <<managerVars, revisionIndex, published, held, configRevision, kvSource,
                   gitSource, cloneErrors>>

\* createKVSource: embedded values win over a reference to files.
CreateKVSource(gen) == IF "embedded" \in gen THEN "basic"
                       ELSE IF "reference" \in gen THEN "file" ELSE "nil"

\* Mutant: the configuration and its revision come from two sections, and
\* viper's goroutine has reloaded in between.
GetsTorn ==
    /\ pc = "get"
    /\ held' = config
    /\ configRevision' \in {revisionIndex, revisionIndex + (IF reading THEN 1 ELSE 0)}
    /\ kvSource' = CreateKVSource(config.gen)
    /\ fresh' = TRUE
    /\ pc' = "evaluate"
    /\ UNCHANGED <<managerVars, revisionIndex, published, gitSource, cloneErrors>>

\* The second section: GetConfig returns a copy together with its revision;
\* evaluateGitSource then makes the source of keys and values.
GetsConfig ==
    /\ pc = "get"
    /\ held' = config
    /\ configRevision' = revisionIndex
    /\ kvSource' = CreateKVSource(config.gen)
    /\ fresh' = TRUE
    /\ pc' = "evaluate"
    /\ UNCHANGED <<managerVars, revisionIndex, published, gitSource, cloneErrors>>

\* GetConfig fails: the zero configuration is stored, the revision is not, and
\* checkConfigUpdate returns false.
GetFails ==
    /\ pc = "get"
    /\ cloneErrors < MaxCloneErrors
    /\ cloneErrors' = cloneErrors + 1
    /\ held' = ZeroConfig
    /\ pc' = "evaluate"
    /\ UNCHANGED <<managerVars, revisionIndex, published, configRevision, kvSource, fresh,
                   gitSource>>

\* Mutant: an existing source is not evaluated again.
EvaluatesOnce ==
    /\ pc = "evaluate"
    /\ gitSource' = IF kvSource = "nil" THEN InConfig
                    ELSE IF fresh /\ gitSource = NoSource THEN Copy(held.def) ELSE gitSource
    /\ pc' = "sync"
    /\ UNCHANGED <<managerVars, revisionIndex, published, held, configRevision, kvSource,
                   fresh, cloneErrors>>

\* GetKeysValues of both kinds of source returns what it has, never changed.
NewKeysValues(source) == FALSE

\* EvaluateTemplate returns its template, so far.
EvaluateTemplate(template) == template

\* evaluateGitSource, the rest: without a source of keys and values the
\* definition is used where it is, otherwise a copy of it is evaluated after a
\* change of the configuration or of the keys and values.
EvaluatesSource ==
    /\ pc = "evaluate"
    /\ gitSource' = IF kvSource = "nil" THEN InConfig
                    ELSE IF fresh \/ NewKeysValues(kvSource)
                         THEN Copy(EvaluateTemplate(held.def)) ELSE gitSource
    /\ pc' = "sync"
    /\ UNCHANGED <<managerVars, revisionIndex, published, held, configRevision, kvSource,
                   fresh, cloneErrors>>

\* evaluateGitDefinition fails: the definition is used as it is.
EvaluateFails ==
    /\ pc = "evaluate"
    /\ kvSource # "nil" /\ fresh
    /\ cloneErrors < MaxCloneErrors
    /\ cloneErrors' = cloneErrors + 1
    /\ gitSource' = InConfig
    /\ pc' = "sync"
    /\ UNCHANGED <<managerVars, revisionIndex, published, held, configRevision, kvSource,
                   fresh>>

\* syncLatest (empty) and the sleep.
SyncsLatest ==
    /\ pc = "sync"
    /\ pc' = "check"
    /\ UNCHANGED <<managerVars, revisionIndex, published, held, configRevision, kvSource,
                   fresh, gitSource, cloneErrors>>

Round == ChecksRevision \/ GetsConfig \/ EvaluatesSource \/ SyncsLatest

ANext == \/ Edits \/ Loads \/ Starts \/ Reads \/ Reloads \/ Ends
         \/ Round \/ GetFails \/ EvaluateFails

ASpec == AInit /\ [][ANext]_vars

\* The process is started again, events are delivered, and the loop goes on.
AFairness == /\ WF_vars(Loads) /\ WF_vars(Starts)
             /\ WF_vars(Reads) /\ WF_vars(Reloads)
             /\ WF_vars(Round)

FairASpec == ASpec /\ AFairness

-----------------------------------------------------------------------------
\* Every variable has its type; the loop runs when the process is up.
ATypeOK == /\ CMTypeOK
           /\ revisionIndex \in Nat
           /\ published \in Seq(AllConfigs)
           /\ pc \in {"out", "check", "get", "evaluate", "sync"}
           /\ held \in AllConfigs
           /\ configRevision \in Nat \cup {-1}
           /\ kvSource \in {"nil", "basic", "file"}
           /\ fresh \in BOOLEAN
           /\ gitSource \in {NoSource, InConfig} \cup {Copy(d) : d \in Defs}
           /\ cloneErrors \in 0 .. MaxCloneErrors
           /\ pc # "out" <=> phase = "up"

\* The copy the loop works with is the configuration of the revision it
\* remembers, never one whose revision number it does not know: a reload
\* between GetRevisionIndex and GetConfig is neither lost nor half seen.  A copy
\* that could not be made is empty, and is made again: its revision counts as new.
HeldMatchesRevision ==
    configRevision >= 0 =>
        \/ configRevision <= revisionIndex /\ held = published[configRevision + 1]
        \/ configRevision < revisionIndex /\ held = ZeroConfig

\* The copy of the configuration has failed, and the git source is the one made
\* from the last configuration that could be copied, although there is a newer.
StaleCopy == /\ held = ZeroConfig
             /\ 0 <= configRevision /\ configRevision < revisionIndex
             /\ gitSource = Copy(published[configRevision + 1].def)

\* When the loop synchronizes, the git source is the definition in the
\* configuration it holds, whichever generators that configuration and the ones
\* before it name.  After a failed copy of a newer configuration it may be the
\* one of the configuration before that; never anything older.
SourceIsOfLastConfig == pc = "sync" => SourceDef = held.def \/ StaleCopy

\* The same without the exception.
SourceIsOfHeldConfig == pc = "sync" => SourceDef = held.def

\* Once the file stays as it is and is a good configuration, its definition is
\* what the agent ends up synchronizing, after bad edits, quick successions of
\* edits, failures and restarts; unless the last edit fell between the first
\* read of the file and the start of the watch.
AgentFollowsFile ==
    \A f \in Files : f.parses /\ f.decodes =>
        (<>[](file = f /\ ~missed) => <>[](SourceDef = f.config.def))

\* The same without the exception: Run "responds to ... Config change".
AgentFollowsEveryEdit ==
    \A f \in Files : f.parses /\ f.decodes =>
        (<>[](file = f) => <>[](SourceDef = f.config.def))

\* A file that does not parse changes nothing while the process runs: the agent
\* ends up with the definition of the last content viper could read, as far as
\* that content could be decoded (an error of Unmarshal does not stop a reload).
UnparsableIsIgnored ==
    \A v \in Files : <>[](vmap = v /\ phase = "up" /\ ~file.parses)
                        => <>[](SourceDef = v.config.def)

\* The loop never synchronizes with a definition that was not decoded.
NeverHalfConfigured == pc = "sync" => SourceDef # NoDef
=============================================================================
