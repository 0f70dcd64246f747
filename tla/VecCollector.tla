---------------------------- MODULE VecCollector ----------------------------
(***************************************************************************)
(* The labelled gauge families of src/internal/collector (processlist by   *)
(* state, table sizes, query digests, group members): what a scrape of     *)
(* /metrics can see of one family while the poll loop collects it from one *)
(* target after the other.                                                 *)
(*                                                                         *)
(* The collectors fill their families in three ways:                       *)
(*   "buffered"  read all rows, then Reset the family, then set the series *)
(*               (processlist)                                             *)
(*   "streamed"  Reset the family once the query runs, set the series row  *)
(*               by row (tablestats, perfschema)                           *)
(*   "kept"      read all rows, set the series, never Reset (grouprepl)    *)
(* The family is shared by all targets, whose instance labels are taken to *)
(* differ: what two targets of one label do to each other's series is      *)
(* shown, for the gauges of scrape, in Engine.  The HTTP handler takes a   *)
(* family's series under its lock at any moment, so it can see every state *)
(* here; WithLabelValues creates a series at zero before Set gives it a    *)
(* value.                                                                  *)
(***************************************************************************)
EXTENDS Naturals

CONSTANTS
  NumTargets,   \* the targets, numbered in polling order
  Labels,       \* the values of the family's own labels
  Kinds         \* the ways of collecting to consider

ASSUME VecAssumption ==
  NumTargets \in Nat \ {0} /\ Kinds \subseteq {"buffered", "streamed", "kept"}

VARIABLES
  kind,     \* how this family is collected, fixed
  ti,       \* the target being polled
  pc,       \* where its collector is
  rows,     \* the rows read and not yet set
  fresh,    \* the series WithLabelValues created and Set has not reached
  series,   \* the family: the labels present, by target
  last,     \* history: the rows of the last read that was carried to the family
  broken,   \* history: the targets whose last read broke off half way
  owner     \* history: the target that last reset the family, 0 before

history == <<last, broken, owner>>
vars == <<kind, ti, pc, rows, fresh, series, history>>

Targets == 1..NumTargets

Init ==
  /\ kind \in Kinds
  /\ ti = 1 /\ pc = "query" /\ rows = {} /\ fresh = {}
  /\ series = [t \in Targets |-> {}] /\ last = [t \in Targets |-> {}]
  /\ broken = {} /\ owner = 0

\* Mutant: the targets are not started over.
NoWrap == pc' = "query" /\ ti' = ti + 1

Advance == pc' = "query" /\ ti' = IF ti < NumTargets THEN ti + 1 ELSE 1

\* Mutant: the family is reset before the error is looked at.
ResetThenFail ==
  /\ pc = "query"
  /\ Advance /\ series' = [t \in Targets |-> {}]
  /\ UNCHANGED <<kind, rows, fresh, history>>

\* The target is down, the query fails, or reading fails before anything is
\* reset: the collector returns and the family stays as it is.
ReadFails ==
  /\ pc = "query"
  /\ Advance
  /\ UNCHANGED <<kind, rows, fresh, series, history>>

\* Mutant: no Reset.
NoReset == UNCHANGED series /\ owner' = ti

\* vec.Reset() deletes the series of every target.
Reset == series' = [t \in Targets |-> {}] /\ owner' = ti

Carry(found) ==
  /\ rows' = found /\ last' = [last EXCEPT ![ti] = found]
  /\ broken' = broken \ {ti}

\* All rows read; those that fail to scan are left out of found.
ReadAll(found) ==
  /\ kind \in {"buffered", "kept"} /\ pc = "query"
  /\ pc' = IF kind = "buffered" THEN "reset" ELSE "set"
  /\ Carry(found)
  /\ UNCHANGED <<kind, ti, fresh, series, owner>>

ResetBuffered ==
  /\ kind = "buffered" /\ pc = "reset"
  /\ Reset /\ pc' = "set"
  /\ UNCHANGED <<kind, ti, rows, fresh, last, broken>>

ResetStreamed(found) ==
  /\ kind = "streamed" /\ pc = "query"
  /\ Reset /\ pc' = "set" /\ Carry(found)
  /\ UNCHANGED <<kind, ti, fresh>>

WithLabelValues(l) ==
  /\ pc = "set" /\ fresh = {} /\ l \in rows
  /\ series' = [series EXCEPT ![ti] = @ \cup {l}]
  /\ fresh' = {l} \ series[ti] /\ rows' = rows \ {l}
  /\ pc' = "value"
  /\ UNCHANGED <<kind, ti, history>>

Set ==
  /\ pc = "value" /\ fresh' = {} /\ pc' = "set"
  /\ UNCHANGED <<kind, ti, rows, series, history>>

\* rows.Err() after some rows: only a streamed family shows them.
StreamBreaks ==
  /\ kind = "streamed" /\ pc = "set" /\ rows # {}
  /\ rows' = {} /\ broken' = broken \cup {ti} /\ Advance
  /\ UNCHANGED <<kind, fresh, series, last, owner>>

\* Mutant: the loop over the rows is left early.
ReturnEarly ==
  /\ pc = "set" /\ rows' = {}
  /\ Advance
  /\ UNCHANGED <<kind, fresh, series, history>>

Return ==
  /\ pc = "set" /\ rows = {}
  /\ Advance
  /\ UNCHANGED <<kind, rows, fresh, series, history>>

Next ==
  \/ ReadFails \/ ResetBuffered \/ Set \/ StreamBreaks \/ Return
  \/ \E found \in SUBSET Labels : ReadAll(found) \/ ResetStreamed(found)
  \/ \E l \in Labels : WithLabelValues(l)

Spec == Init /\ [][Next]_vars

(***************************************************************************)
(* Properties.                                                             *)
(***************************************************************************)
TypeOK ==
  /\ kind \in Kinds /\ ti \in Targets
  /\ pc \in {"query", "reset", "set", "value"}
  /\ rows \subseteq Labels /\ fresh \subseteq Labels
  /\ series \in [Targets -> SUBSET Labels] /\ last \in [Targets -> SUBSET Labels]
  /\ broken \subseteq Targets /\ owner \in 0..NumTargets

\* "avoid stale labels from previous scrapes", "clear stale tables": no scrape
\* sees a label its target's latest read did not have.  While rows are on their
\* way from the read to the Reset, the old series are still there.
NoStaleLabels ==
  kind # "kept" => \A t \in Targets :
    (pc = "reset" /\ t = ti) \/ series[t] \subseteq last[t]

\* A scrape between two collections sees of a target either nothing or the
\* whole of one read; only a stream that broke off leaves a part of one.
AllOrNothing ==
  kind # "kept" => \A t \in Targets :
    (t = ti /\ pc # "query") \/ t \in broken \/ series[t] \in {{}, last[t]}

\* The target that reset the family last has all the series of its read once
\* its collector is through, each with a value, and keeps them until the next
\* Reset: no failing collection of any target takes one away.
LatestComplete ==
  (kind # "kept" /\ owner # 0 /\ pc = "query" /\ owner \notin broken) =>
    series[owner] = last[owner] /\ fresh = {}

\* A collection of one target leaves the series of the others alone: several
\* targets may share an exporter (README: "MySQL DSN(s), comma-separated for
\* multi-target").
OthersUntouched ==
  [][\A t \in Targets : t # ti => series'[t] = series[t]]_vars

\* A member of a replication group that left is not reported any longer.
MembersCurrent ==
  \A t \in Targets : (t # ti \/ pc = "query") => series[t] \subseteq last[t]
=============================================================================
