--------------------------- MODULE ConfigManager ---------------------------
(***************************************************************************)
(* The configuration of a process, internal/controller/config/config.go:   *)
(* LoadConfig reads the mounted file when the process starts, viper        *)
(* watches the file and calls the OnConfigChange function after every      *)
(* change.  The agent has a copy of this manager with a revision number    *)
(* (AgentSyncer).  viper, fsnotify and the kubelet are external.           *)
(***************************************************************************)
EXTENDS Naturals

CONSTANTS
    Files,      \* contents of the file: [parses, decodes, config], see below
    NoDef,      \* the git definition of a configuration that has none
    MaxEdits,   \* bound: changes of the file
    MaxCrashes  \* bound: restarts of the process

(***************************************************************************)
(* A file that is not YAML does not parse.  One that parses but has a      *)
(* field of the wrong type does not decode: config is then what Unmarshal  *)
(* leaves in the structure next to its error, the fields it could decode.  *)
(***************************************************************************)
ASSUME FilesAssumption ==
    /\ \A f \in Files : f.parses \in BOOLEAN /\ f.decodes \in BOOLEAN
    /\ \E f \in Files : f.parses /\ f.decodes
ASSUME EditsAssumption == MaxEdits \in Nat /\ MaxCrashes \in Nat

VARIABLES
    file,     \* the content of the mounted file
    edits,    \* changes of the file so far
    crashes,  \* restarts so far
    phase,    \* "down", "loaded" (LoadConfig has read the file), "up"
    missed,   \* history: the last change fell between the read and the watch
    pending,  \* fsnotify has an event for viper
    reading,  \* viper's goroutine has read the file and is about to call back
    vmap,     \* the content viper holds (v.config)
    config    \* cm.config, what GetConfig returns a copy of

managerVars == <<file, edits, crashes, phase, missed, pending, reading, vmap, config>>

\* AgentConfig{} and GlobalConfig{}: no definition, no generator.
ZeroConfig == [def |-> NoDef, gen |-> {}]
AllConfigs == {f.config : f \in Files} \cup {ZeroConfig}

CMInit == /\ file \in Files
          /\ edits = 0
          /\ crashes = 0
          /\ phase = "down"
          /\ missed = FALSE
          /\ pending = FALSE
          /\ reading = FALSE
          /\ vmap = file
          /\ config = ZeroConfig

-----------------------------------------------------------------------------
\* Somebody edits the ConfigMap and the kubelet updates the mounted file.
EditFile(f) ==
    /\ edits < MaxEdits
    /\ f # file
    /\ file' = f
    /\ edits' = edits + 1
    /\ pending' = (pending \/ phase = "up")
    /\ missed' = (phase = "loaded")
    /\ UNCHANGED <<crashes, phase, reading, vmap, config>>

\* LoadConfig up to the watch: ReadInConfig and Unmarshal.  After an error of
\* either the caller ends the process, which is started again.
LoadConfig ==
    /\ phase = "down"
    /\ file.parses /\ file.decodes
    /\ phase' = "loaded"
    /\ missed' = FALSE
    /\ vmap' = file
    /\ config' = file.config
    /\ UNCHANGED <<file, edits, crashes, pending, reading>>

\* OnConfigChange and WatchConfig: events are noticed from here on.
WatchConfig ==
    /\ phase = "loaded"
    /\ phase' = "up"
    /\ UNCHANGED <<file, edits, crashes, missed, pending, reading, vmap, config>>

\* viper reads the file after an event; what does not parse is dropped.
ViperReads ==
    /\ phase = "up" /\ pending /\ ~reading
    /\ pending' = FALSE
    /\ reading' = TRUE
    /\ vmap' = IF file.parses THEN file ELSE vmap
    /\ UNCHANGED <<file, edits, crashes, phase, missed, config>>

\* The function given to OnConfigChange, under cm.lock: a new structure is
\* filled and replaces the old one, also after an error of Unmarshal, which
\* onErrorReloading only logs.
OnConfigChange ==
    /\ reading
    /\ reading' = FALSE
    /\ config' = vmap.config
    /\ UNCHANGED <<file, edits, crashes, phase, missed, pending, vmap>>

\* Mutant: the new process believes that an event is still to come.
CrashKeepsEvent ==
    /\ crashes < MaxCrashes
    /\ phase # "down"
    /\ crashes' = crashes + 1
    /\ phase' = "down"
    /\ config' = ZeroConfig
    /\ UNCHANGED <<file, edits, missed, pending, reading, vmap>>

\* The process ends, and its memory with it.
Crash ==
    /\ crashes < MaxCrashes
    /\ phase # "down"
    /\ crashes' = crashes + 1
    /\ phase' = "down"
    /\ pending' = FALSE
    /\ reading' = FALSE
    /\ config' = ZeroConfig
    /\ UNCHANGED <<file, edits, missed, vmap>>

CMTypeOK == /\ file \in Files /\ vmap \in Files
            /\ edits \in 0 .. MaxEdits /\ crashes \in 0 .. MaxCrashes
            /\ phase \in {"down", "loaded", "up"}
            /\ missed \in BOOLEAN /\ pending \in BOOLEAN /\ reading \in BOOLEAN
            /\ config \in AllConfigs
            /\ pending \/ reading => phase = "up"
=============================================================================
