--------------------------- MODULE MCAgentSyncer ---------------------------
(* Instances of AgentSyncer for TLC.                                       *)
EXTENDS AgentSyncer

File(def, gen) == [parses |-> TRUE, decodes |-> TRUE, config |-> [def |-> def, gen |-> gen]]

\* Two definitions with every kind of generator, one file that is not YAML, one
\* whose definition cannot be decoded, so that only its generator is filled in.
Plain == File("d1", {})
Embedded == File("d2", {"embedded", "reference"})
Reference == File("d1", {"reference"})
Broken == [parses |-> FALSE, decodes |-> FALSE, config |-> ZeroConfig]
HalfDecoded == [parses |-> TRUE, decodes |-> FALSE,
                config |-> [def |-> NoDef, gen |-> {"embedded"}]]

SomeFiles == {Plain, Embedded, Reference, Broken, HalfDecoded}
=============================================================================
