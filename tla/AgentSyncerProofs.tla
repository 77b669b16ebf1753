------------------------- MODULE AgentSyncerProofs -------------------------
(***************************************************************************)
(* Proofs about the agent, for every set of file contents and any number   *)
(* of edits, restarts and failing copies: the configuration the loop holds *)
(* is the one whose revision it remembers, and the git source is the one   *)
(* of that configuration, or of the last one that could be copied.         *)
(***************************************************************************)
EXTENDS AgentSyncer, TLAPS

\* The manager counts what it publishes: the last revision is cm.config.
PublishedInv ==
    \/ phase = "down" /\ published = <<>>
    \/ /\ phase # "down"
       /\ Len(published) = revisionIndex + 1
       /\ config = published[revisionIndex + 1]

\* A process whose loop does not run yet remembers no revision.
UnstartedInv == phase # "up" => configRevision = -1

\* The loop asks for a configuration only when there is a newer one.
GetInv == pc = "get" => configRevision < revisionIndex

\* Until it has read its first configuration the loop holds the empty one.
UnreadInv == configRevision = -1 => held = ZeroConfig

\* The git source is of the configuration held, except between a new
\* configuration and its evaluation, and after a failed copy.
SourceInv == \/ pc = "evaluate" /\ fresh
             \/ SourceDef = held.def
             \/ StaleCopy

\* The inductive invariant.
AInv == /\ ATypeOK /\ PublishedInv /\ UnstartedInv /\ GetInv
        /\ HeldMatchesRevision /\ UnreadInv /\ SourceInv

-----------------------------------------------------------------------------
(* Types: the Boolean variables, which decide nothing of the rest, apart.  *)

FlagsOK == /\ missed \in BOOLEAN /\ pending \in BOOLEAN /\ reading \in BOOLEAN
           /\ fresh \in BOOLEAN
           /\ pending \/ reading => phase = "up"

ValuesOK == /\ file \in Files /\ vmap \in Files
            /\ edits \in 0 .. MaxEdits /\ crashes \in 0 .. MaxCrashes
            /\ phase \in {"down", "loaded", "up"}
            /\ config \in AllConfigs
            /\ revisionIndex \in Nat
            /\ published \in Seq(AllConfigs)
            /\ pc \in {"out", "check", "get", "evaluate", "sync"}
            /\ held \in AllConfigs
            /\ configRevision \in Nat \cup {-1}
            /\ kvSource \in {"nil", "basic", "file"}
            /\ gitSource \in {NoSource, InConfig} \cup {Copy(d) : d \in Defs}
            /\ cloneErrors \in 0 .. MaxCloneErrors
            /\ pc # "out" <=> phase = "up"

\* Together they are the type invariant.
LEMMA TypeParts == ATypeOK <=> FlagsOK /\ ValuesOK
BY DEF ATypeOK, CMTypeOK, FlagsOK, ValuesOK

\* Initially the process is down and nothing is remembered.
LEMMA InitEstablishesAInv == AInit => AInv
<1> SUFFICES ASSUME AInit PROVE AInv
    OBVIOUS
<1> USE DEF AInit, CMInit, Unstarted
<1>1. FlagsOK
      BY DEF FlagsOK
<1>2. ValuesOK
      BY EditsAssumption, CloneErrorsAssumption DEF ValuesOK, AllConfigs
<1>3. PublishedInv /\ UnstartedInv /\ GetInv /\ HeldMatchesRevision /\ UnreadInv
      BY DEF PublishedInv, UnstartedInv, GetInv, HeldMatchesRevision, UnreadInv
<1>4. SourceInv
      BY DEF SourceInv, SourceDef, NoSource, ZeroConfig
<1> QED
    BY <1>1, <1>2, <1>3, <1>4, TypeParts DEF AInv

\* Every step of the file, of viper's goroutine and of the loop keeps the
\* types; an event or a read in progress ends with the process.
LEMMA StepKeepsFlagsOK == FlagsOK /\ [ANext]_vars => FlagsOK'
<1> SUFFICES ASSUME FlagsOK, [ANext]_vars PROVE FlagsOK'
    OBVIOUS
<1> USE DEF FlagsOK, managerVars, agentVars
<1>1. CASE Edits
      BY <1>1 DEF Edits, EditFile
<1>2. CASE Loads
      BY <1>2 DEF Loads, LoadConfig
<1>3. CASE Starts
      BY <1>3 DEF Starts, WatchConfig
<1>4. CASE Reads
      BY <1>4 DEF Reads, ViperReads
<1>5. CASE Reloads
      BY <1>5 DEF Reloads, OnConfigChange
<1>6. CASE Ends
      BY <1>6 DEF Ends, Crash
<1>7. CASE ChecksRevision
      BY <1>7 DEF ChecksRevision
<1>8. CASE GetsConfig
      BY <1>8 DEF GetsConfig
<1>9. CASE EvaluatesSource
      BY <1>9 DEF EvaluatesSource
<1>10. CASE SyncsLatest
      BY <1>10 DEF SyncsLatest
<1>11. CASE GetFails
      BY <1>11 DEF GetFails
<1>12. CASE EvaluateFails
      BY <1>12 DEF EvaluateFails
<1>13. CASE UNCHANGED vars
      BY <1>13 DEF vars
<1> QED
    BY <1>1, <1>2, <1>3, <1>4, <1>5, <1>6, <1>7, <1>8, <1>9, <1>10, <1>11, <1>12, <1>13
       DEF ANext, Round

\* Every step keeps the other types; a reload needs a read in progress, so it
\* happens only while the process is up.
LEMMA StepKeepsValuesOK == ValuesOK /\ FlagsOK /\ [ANext]_vars => ValuesOK'
<1> SUFFICES ASSUME ValuesOK, FlagsOK, [ANext]_vars PROVE ValuesOK'
    OBVIOUS
<1> USE EditsAssumption, CloneErrorsAssumption DEF ValuesOK, managerVars, agentVars
<1>a. file.config \in AllConfigs /\ vmap.config \in AllConfigs /\ ZeroConfig \in AllConfigs
      BY DEF AllConfigs
<1>b. held.def \in Defs
      BY DEF Defs
<1>c. reading => phase = "up"
      BY DEF FlagsOK
<1>1. CASE Edits
      BY <1>1 DEF Edits, EditFile
<1>2. CASE Loads
      BY <1>2, <1>a DEF Loads, LoadConfig
<1>3. CASE Starts
      BY <1>3 DEF Starts, WatchConfig
<1>4. CASE Reads
      BY <1>4 DEF Reads, ViperReads
<1>5. CASE Reloads
      BY <1>5, <1>a, <1>c DEF Reloads, OnConfigChange
<1>6. CASE Ends
      BY <1>6, <1>a DEF Ends, Crash
<1>7. CASE ChecksRevision
      BY <1>7 DEF ChecksRevision
<1>8. CASE GetsConfig
      BY <1>8 DEF GetsConfig, CreateKVSource
<1>9. CASE EvaluatesSource
      BY <1>9, <1>b DEF EvaluatesSource, EvaluateTemplate
<1>10. CASE SyncsLatest
      BY <1>10 DEF SyncsLatest
<1>11. CASE GetFails
      BY <1>11, <1>a DEF GetFails
<1>12. CASE EvaluateFails
      BY <1>12 DEF EvaluateFails
<1>13. CASE UNCHANGED vars
      BY <1>13 DEF vars
<1> QED
    BY <1>1, <1>2, <1>3, <1>4, <1>5, <1>6, <1>7, <1>8, <1>9, <1>10, <1>11, <1>12, <1>13
       DEF ANext, Round

\* Every step keeps the type invariant.
LEMMA StepKeepsATypeOK == ATypeOK /\ [ANext]_vars => ATypeOK'
<1> SUFFICES ASSUME ATypeOK, [ANext]_vars PROVE ATypeOK'
    OBVIOUS
<1>1. FlagsOK' /\ ValuesOK'
      BY TypeParts, StepKeepsFlagsOK, StepKeepsValuesOK
<1> QED
    BY <1>1 DEF ATypeOK, CMTypeOK, FlagsOK, ValuesOK

-----------------------------------------------------------------------------
(* The revisions, and the copy the loop holds.                             *)

\* The manager's side: only Loads, Reloads and Ends publish, and each changes
\* cm.config and the revision in one critical section.
LEMMA StepKeepsPublishedInv ==
    ValuesOK /\ FlagsOK /\ PublishedInv /\ [ANext]_vars => PublishedInv'
<1> SUFFICES ASSUME ValuesOK, FlagsOK, PublishedInv, [ANext]_vars PROVE PublishedInv'
    OBVIOUS
<1> USE DEF PublishedInv
<1>1. CASE Loads
      BY <1>1 DEF Loads, LoadConfig
<1>2. CASE Reloads
  <2>1. phase = "up" /\ phase' = "up"
        BY <1>2 DEF Reloads, OnConfigChange, FlagsOK
  <2>2. published' = Append(published, config') /\ revisionIndex' = revisionIndex + 1
        BY <1>2 DEF Reloads
  <2>3. published \in Seq(AllConfigs) /\ Len(published) = revisionIndex + 1
        BY <2>1 DEF ValuesOK
  <2> QED
        BY <2>1, <2>2, <2>3 DEF ValuesOK
<1>3. CASE Ends
      BY <1>3 DEF Ends, Crash
<1>4. CASE Starts
      BY <1>4 DEF Starts, WatchConfig
<1>5. CASE Edits \/ Reads \/ Round \/ GetFails \/ EvaluateFails \/ UNCHANGED vars
      BY <1>5 DEF Edits, EditFile, Reads, ViperReads, Round, ChecksRevision, GetsConfig,
                  EvaluatesSource, SyncsLatest, GetFails, EvaluateFails, vars, agentVars,
                  managerVars
<1> QED
    BY <1>1, <1>2, <1>3, <1>4, <1>5 DEF ANext

\* The loop's side: a reload appends to what was published, so the revision the
\* loop remembers keeps its configuration; GetsConfig takes both at once.
LEMMA StepKeepsHeld ==
    AInv /\ [ANext]_vars => UnstartedInv' /\ GetInv' /\ HeldMatchesRevision'
<1> SUFFICES ASSUME AInv, [ANext]_vars
             PROVE  UnstartedInv' /\ GetInv' /\ HeldMatchesRevision'
    OBVIOUS
<1>t. ValuesOK /\ FlagsOK
      BY TypeParts DEF AInv
<1> USE DEF AInv, UnstartedInv, GetInv, HeldMatchesRevision, PublishedInv
<1>1. CASE Loads
  <2>1. configRevision' = -1 /\ pc' = pc /\ phase' = "loaded" /\ pc # "get"
        BY <1>1, <1>t DEF Loads, LoadConfig, ValuesOK
  <2> QED
        BY <2>1
<1>2. CASE Reloads
  <2>1. phase = "up" /\ phase' = "up"
        BY <1>2, <1>t DEF Reloads, OnConfigChange, FlagsOK
  <2>2. /\ published' = Append(published, config') /\ revisionIndex' = revisionIndex + 1
        /\ UNCHANGED <<pc, held, configRevision>>
        BY <1>2 DEF Reloads
  <2>3. published \in Seq(AllConfigs) /\ Len(published) = revisionIndex + 1
        BY <2>1, <1>t DEF ValuesOK
  <2>4. \A i \in 1 .. revisionIndex + 1 : published'[i] = published[i]
        BY <2>2, <2>3, <1>t DEF ValuesOK
  <2>5. configRevision >= 0 /\ configRevision <= revisionIndex
            => published'[configRevision + 1] = published[configRevision + 1]
        BY <2>4, <1>t DEF ValuesOK
  <2> QED
        BY <2>1, <2>2, <2>5, <1>t DEF ValuesOK
<1>3. CASE Ends
      BY <1>3 DEF Ends, Crash
<1>4. CASE Starts
      BY <1>4 DEF Starts, WatchConfig
<1>5. CASE Edits \/ Reads \/ UNCHANGED vars
      BY <1>5 DEF Edits, EditFile, Reads, ViperReads, vars, agentVars, managerVars
<1>6. CASE ChecksRevision
      BY <1>6, <1>t DEF ChecksRevision, managerVars, ValuesOK
<1>7. CASE GetsConfig
  <2>1. phase = "up" /\ config = published[revisionIndex + 1] /\ revisionIndex \in Nat
        BY <1>7, <1>t DEF GetsConfig, ValuesOK
  <2> QED
        BY <1>7, <2>1 DEF GetsConfig, managerVars
<1>8. CASE GetFails
      BY <1>8, <1>t DEF GetFails, managerVars, ValuesOK
<1>9. CASE EvaluatesSource \/ SyncsLatest \/ EvaluateFails
      BY <1>9 DEF EvaluatesSource, SyncsLatest, EvaluateFails, managerVars
<1> QED
    BY <1>1, <1>2, <1>3, <1>4, <1>5, <1>6, <1>7, <1>8, <1>9 DEF ANext, Round

\* The revision is remembered in the step that stores the configuration.
LEMMA StepKeepsUnreadInv == AInv /\ [ANext]_vars => UnreadInv'
<1> SUFFICES ASSUME AInv, [ANext]_vars PROVE UnreadInv'
    OBVIOUS
<1>1. ValuesOK
      BY TypeParts DEF AInv
<1> QED
    BY <1>1 DEF AInv, UnreadInv, ValuesOK, ANext, Edits, Loads, Starts, Reads, Reloads, Ends,
       Round, ChecksRevision, GetsConfig, EvaluatesSource, SyncsLatest, GetFails,
       EvaluateFails, vars, agentVars

\* The git source follows the configuration: a new copy is marked fresh until
\* it is evaluated, and what is not fresh was evaluated before.  What a failed
\* copy leaves is of the revision remembered, and the next one is known.
LEMMA StepKeepsSourceInv == AInv /\ [ANext]_vars => SourceInv'
<1> SUFFICES ASSUME AInv, [ANext]_vars PROVE SourceInv'
    OBVIOUS
<1>t. ValuesOK /\ FlagsOK
      BY TypeParts DEF AInv
<1> USE DEF AInv, SourceInv, SourceDef, StaleCopy
<1>0. CASE Edits \/ Reads \/ UNCHANGED vars
      BY <1>0 DEF Edits, Reads, vars, agentVars
<1>1. CASE Loads
  <2>1. UNCHANGED <<pc, fresh, held, gitSource>> /\ configRevision = -1
        BY <1>1 DEF Loads, LoadConfig, UnstartedInv
  <2> QED
      BY <1>1, <2>1
<1>10. CASE Reloads
  <2>1. phase = "up" /\ UNCHANGED <<pc, fresh, held, gitSource, configRevision>>
        BY <1>10, <1>t DEF Reloads, OnConfigChange, FlagsOK
  <2>2. /\ published' = Append(published, config') /\ revisionIndex' = revisionIndex + 1
        /\ published \in Seq(AllConfigs) /\ Len(published) = revisionIndex + 1
        /\ revisionIndex \in Nat /\ configRevision \in Nat \cup {-1}
        BY <1>10, <1>t, <2>1 DEF Reloads, PublishedInv, ValuesOK
  <2>3. 0 <= configRevision /\ configRevision < revisionIndex
            => published'[configRevision + 1] = published[configRevision + 1]
        BY <2>2
  <2>4. revisionIndex < revisionIndex'
        BY <2>2
  <2>5. StaleCopy => StaleCopy'
        BY <2>1, <2>2, <2>3, <2>4
  <2> QED
      BY <2>1, <2>5
<1>2. CASE Ends
      BY <1>2 DEF Ends, NoSource, ZeroConfig
<1>3. CASE Starts
  <2>1. UNCHANGED <<fresh, held, gitSource>> /\ configRevision = -1 /\ pc = "out"
        BY <1>3, <1>t DEF Starts, WatchConfig, UnstartedInv, ValuesOK
  <2> QED
      BY <1>3, <2>1
<1>4. CASE ChecksRevision \/ SyncsLatest
      BY <1>4 DEF ChecksRevision, SyncsLatest
<1>5. CASE GetsConfig
      BY <1>5 DEF GetsConfig
<1>6. CASE GetFails
  <2>1. /\ held' = ZeroConfig /\ pc = "get"
        /\ UNCHANGED <<gitSource, configRevision, revisionIndex, published>>
        BY <1>6 DEF GetFails
  <2>2. ZeroConfig.def = NoDef /\ configRevision < revisionIndex
        BY <2>1 DEF ZeroConfig, GetInv
  <2>3. CASE gitSource \in {NoSource, InConfig}
        BY <2>1, <2>2, <2>3 DEF NoSource, InConfig
  <2>4. ASSUME NEW d, gitSource = Copy(d)
        PROVE  SourceInv'
    <3>1. gitSource.kind = "copy" /\ gitSource.def = d
          BY <2>4 DEF Copy
    <3>2. CASE StaleCopy
          BY <2>1, <3>2
    <3>3. CASE d = held.def /\ held = ZeroConfig
          BY <2>1, <2>2, <3>1, <3>3
    <3>4. CASE d = held.def /\ held # ZeroConfig
      <4>1. configRevision # -1 /\ configRevision \in Nat \cup {-1}
            BY <1>t, <3>4 DEF UnreadInv, ValuesOK
      <4>2. 0 <= configRevision /\ held = published[configRevision + 1]
            BY <3>4, <4>1 DEF HeldMatchesRevision
      <4> QED
          BY <2>1, <2>2, <2>4, <3>4, <4>2
    <3> QED
        BY <2>1, <3>1, <3>2, <3>3, <3>4
  <2> QED
      BY <1>t, <2>3, <2>4 DEF ValuesOK
<1>7. CASE EvaluatesSource
  <2>1. held' = held /\ pc = "evaluate"
        BY <1>7 DEF EvaluatesSource
  <2>2. CASE kvSource = "nil"
        BY <1>7, <2>1, <2>2 DEF EvaluatesSource, InConfig
  <2>3. CASE kvSource # "nil" /\ fresh
        BY <1>7, <2>1, <2>3 DEF EvaluatesSource, Copy, EvaluateTemplate
  <2>4. CASE kvSource # "nil" /\ ~fresh
        BY <1>7, <2>1, <2>4 DEF EvaluatesSource, NewKeysValues
  <2> QED
        BY <2>2, <2>3, <2>4
<1>8. CASE EvaluateFails
      BY <1>8 DEF EvaluateFails, InConfig
<1> QED
    BY <1>0, <1>1, <1>2, <1>3, <1>4, <1>5, <1>6, <1>7, <1>8, <1>10 DEF ANext, Round

-----------------------------------------------------------------------------
\* The inductive invariant holds in every reachable state.
THEOREM AgentInvariant == ASpec => []AInv
<1>1. AInv /\ [ANext]_vars => AInv'
      BY TypeParts, StepKeepsATypeOK, StepKeepsPublishedInv, StepKeepsHeld,
         StepKeepsUnreadInv, StepKeepsSourceInv DEF AInv
<1>2. QED
      BY <1>1, InitEstablishesAInv, PTL DEF ASpec

\* Every variable of the agent and of its configuration manager keeps its type,
\* and the loop runs exactly while the process is up.
THEOREM AgentTypes == ASpec => []ATypeOK
<1>1. AInv => ATypeOK
      BY DEF AInv
<1>2. QED
      BY <1>1, AgentInvariant, PTL

\* checkConfigUpdate never pairs a configuration with the revision of another
\* one, however reloads interleave with its two critical sections.
THEOREM RevisionIdentifiesConfig == ASpec => []HeldMatchesRevision
<1>1. AInv => HeldMatchesRevision
      BY DEF AInv
<1>2. QED
      BY <1>1, AgentInvariant, PTL

\* evaluateGitSource works with the definition of the configuration held or,
\* after a failed copy, of the last one that could be copied: whichever
\* generators the configurations name, no older source is left behind.
THEOREM SourceFollowsLastConfig == ASpec => []SourceIsOfLastConfig
<1>1. AInv => SourceIsOfLastConfig
      BY DEF AInv, SourceInv, SourceIsOfLastConfig
<1>2. QED
      BY <1>1, AgentInvariant, PTL
=============================================================================
