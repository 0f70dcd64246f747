------------------------------- MODULE Diff -------------------------------
(***************************************************************************)
(* `mysqlpulse diff` (src/internal/cli/diff.go): the global variables of   *)
(* every server, kept by label, and the names on which they differ.  A     *)
(* server that could not be read has one variable, "_error".               *)
(***************************************************************************)
EXTENDS Sweep

DiffRefuses == Len(fleet) < 2

\* What one visit puts into nodeVars: its label, and a function on names.
fetchGlobalVars(s, lost) ==
  [instance |-> s.label,
   vars |-> IF s.state # "bad" /\ lost = {} THEN s.setting
            ELSE [name \in {"_error"} |-> IF s.state = "bad" THEN "invalid DSN"
                                          ELSE "SHOW GLOBAL VARIABLES"]]

\* No global variable has that name.
ASSUME DiffAssumption == \A s \in Servers : "_error" \notin DOMAIN s.setting

nodeOrder == [i \in DOMAIN results |-> results[i].instance]

\* A later server with the same label takes the place of an earlier one.
Put(m, r) == [n \in DOMAIN m \cup {r.instance} |-> IF n = r.instance THEN r.vars ELSE m[n]]
nodeVars == FoldLeft(Put, <<>>, results)

allVarNames == UNION {DOMAIN nodeVars[n] : n \in DOMAIN nodeVars}

\* A name that is missing reads as the empty string.
ValueOf(node, name) == IF name \in DOMAIN nodeVars[node] THEN nodeVars[node][name] ELSE ""

\* Mutant: only the two ends are compared.
EndsDiffer(name) == ValueOf(nodeOrder[1], name) # ValueOf(Last(nodeOrder), name)

Differs(name) == \E i \in DOMAIN nodeOrder : ValueOf(nodeOrder[i], name) # ValueOf(nodeOrder[1], name)

Differences == {name \in allVarNames : flags.all \/ Differs(name)}

\* The table computes the mark again from the values of the listed names.
Marked == {name \in Differences : Differs(name)}

(***************************************************************************)
(* Properties.                                                             *)
(***************************************************************************)
Setting(s, name) == IF name \in DOMAIN s.setting THEN s.setting[name] ELSE ""
Labels == {fleet[i].label : i \in DOMAIN fleet}

\* Where labels tell the servers apart: if all were read, the marked names are
\* exactly those whose settings differ between any two servers (one that is
\* missing counts as empty); if only some were, that shows as a difference.
DiffTellsTruth ==
  command = "diff" /\ exit = "0" /\ Cardinality(Labels) = Len(fleet) =>
    /\ failed = {} =>
         Marked = {name \in UNION {DOMAIN s.setting : s \in ToSet(fleet)} :
                     \E s, t \in ToSet(fleet) : Setting(s, name) # Setting(t, name)}
    /\ failed # {} /\ failed # DOMAIN fleet => "_error" \in Marked
=============================================================================
