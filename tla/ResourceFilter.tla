--------------------------- MODULE ResourceFilter ---------------------------
(***************************************************************************)
(* The resource filter of internal/sync/cache.go: which kinds of resources *)
(* the cluster cache watches, given by the setting includedResources.      *)
(*                                                                         *)
(* The text is modelled after strings.Split: a sequence of rules (";"),    *)
(* each a sequence of clauses (","), each a sequence of words ("=").  A    *)
(* clause has at least one word; the empty text has no rules.              *)
(***************************************************************************)
EXTENDS Naturals, Sequences, FiniteSetsExt

\* The words strings.EqualFold takes for "group" and "kind".
GroupWords == {"group", "Group", "GROUP"}
KindWords == {"kind", "Kind", "KIND"}

\* What one turn of parseResourceFilter's loop does: the rule must have two
\* clauses that begin with the right words; a clause without "=" is then
\* indexed beyond its end.
RuleVerdict(rule) ==
    IF Len(rule) # 2 \/ rule[1][1] \notin GroupWords \/ rule[2][1] \notin KindWords
    THEN "error"
    ELSE IF Len(rule[1]) < 2 \/ Len(rule[2]) < 2 THEN "panic" ELSE "ok"

\* Mutant: the last rule is not read.
ParseAllButLast(text) ==
    LET read == IF text = <<>> THEN text ELSE SubSeq(text, 1, Len(text) - 1)
        bad == {i \in DOMAIN read : RuleVerdict(read[i]) # "ok"}
    IN IF bad = {}
       THEN [outcome |-> "ok",
             types |-> [i \in DOMAIN read |-> [group |-> read[i][1][2], kind |-> read[i][2][2]]]]
       ELSE [outcome |-> RuleVerdict(read[Min(bad)]), types |-> <<>>]

\* parseResourceFilter: the loop ends at the first rule that is not good.
ParseResourceFilter(text) ==
    LET bad == {i \in DOMAIN text : RuleVerdict(text[i]) # "ok"}
    IN IF bad = {}
       THEN [outcome |-> "ok",
             types |-> [i \in DOMAIN text |-> [group |-> text[i][1][2], kind |-> text[i][2][2]]]]
       ELSE [outcome |-> RuleVerdict(text[Min(bad)]), types |-> <<>>]

\* IsExcludedResource: no rule includes the resource; a rule without a kind
\* includes every kind of its group, and no rules exclude everything.
IsExcludedResource(types, group, kind) ==
    ~ \E i \in DOMAIN types : /\ types[i].group = group
                              /\ types[i].kind \in {"", kind}
=============================================================================
