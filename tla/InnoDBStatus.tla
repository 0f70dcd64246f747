---------------------------- MODULE InnoDBStatus ----------------------------
(***************************************************************************)
(* The parser of SHOW ENGINE INNODB STATUS (src/internal/innodb/parser.go) *)
(* and the command around it (src/internal/cli/innodb.go).                 *)
(*                                                                         *)
(* A text is a sequence of lines, a line is what the parser tells of it:   *)
(* "---" for a rule of dashes, the name of a section, a pattern it looks   *)
(* for, "" or " " for an empty and a blank line.  A number is known by the *)
(* index of the line it was read from, 0 for none.  Patterns are written   *)
(* with underscores for what is between their words.                       *)
(***************************************************************************)
EXTENDS Sweep

ASSUME TextsAssumption == \A s \in Servers : s.text \in Seq(ToSet(s.text))

(***************************************************************************)
(* splitSections: the lines of every section, as indices into the text.    *)
(***************************************************************************)
isDashes(line) == line = "---"
TrimSpace(line) == IF line = " " THEN "" ELSE line

OpensSection(text, i) ==
  /\ i + 2 <= Len(text) /\ isDashes(text[i]) /\ isDashes(text[i + 2])
  /\ text[i + 1] # "" /\ ~isDashes(text[i + 1])

Save(acc) ==
  IF acc.current = "" THEN acc.sections
  ELSE [name \in DOMAIN acc.sections \cup {acc.current} |->
          IF name = acc.current THEN acc.lines ELSE acc.sections[name]]

\* Mutant: the closing rule is not skipped.
OpenSectionShort(text, acc, i) ==
  [skip |-> 1, current |-> TrimSpace(text[i + 1]), lines |-> <<>>, sections |-> Save(acc)]

OpenSection(text, acc, i) ==
  [skip |-> 2, current |-> TrimSpace(text[i + 1]), lines |-> <<>>, sections |-> Save(acc)]

ScanLine(text, acc, i) ==
  IF acc.skip > 0 THEN [acc EXCEPT !.skip = @ - 1]
  ELSE IF OpensSection(text, i) THEN OpenSection(text, acc, i)
  ELSE [acc EXCEPT !.lines = Append(@, i)]

splitSections(text) ==
  Save(FoldLeftDomain(LAMBDA acc, i : ScanLine(text, acc, i),
                      [skip |-> 0, current |-> "", lines |-> <<>>, sections |-> <<>>], text))

(***************************************************************************)
(* The fields: most are the last line of the section that matches.         *)
(***************************************************************************)
SectionOf(sections, name) == IF name \in DOMAIN sections THEN sections[name] ELSE <<>>

LinesOf(text, section, kind) == SelectSeq(section, LAMBDA i : text[i] = kind)
LastLine(text, section, kind) ==
  LET found == LinesOf(text, section, kind) IN IF found = <<>> THEN 0 ELSE Last(found)

\* The switch takes a line for the first pattern it contains only.
parseSemaphores(text, section) ==
  [spins |-> LastLine(text, section, "Mutex_spin_waits"),
   shared |-> LastLine(text, section, "RW_shared_spins"),
   excl |-> LastLine(text, section, "RW_excl_spins"),
   rounds |-> LastLine(text, section, "spin_rounds"),
   waits |-> LastLine(text, section, "OS_waits")]

parseTransactions(text, section) ==
  [active |-> Len(LinesOf(text, section, "TRANSACTION_ACTIVE")),
   history |-> LastLine(text, section, "History_list_length"),
   purge |-> LastLine(text, section, "Purge_done_for_trx")]

parseBufferPool(text, section) ==
  [total |-> LastLine(text, section, "Buffer_pool_size"),
   data |-> LastLine(text, section, "Database_pages"),
   free |-> LastLine(text, section, "Free_buffers"),
   dirty |-> LastLine(text, section, "Modified_db_pages"),
   hitRate |-> LastLine(text, section, "Buffer_pool_hit_rate"),
   pending |-> LastLine(text, section, "Pending_reads")]

\* One line holds all four rates.
parseRowOps(text, section) == [rates |-> LastLine(text, section, "inserts_updates")]

\* The age is computed only from two numbers that are there.
parseRedoLog(text, section) ==
  LET lsn == LastLine(text, section, "Log_sequence_number")
      checkpoint == LastLine(text, section, "Last_checkpoint_at")
  IN  [lsn |-> lsn, checkpoint |-> checkpoint,
       flushed |-> LastLine(text, section, "Log_flushed_up_to"),
       age |-> lsn > 0 /\ checkpoint > 0]

(***************************************************************************)
(* parseDeadlocks: current is the transaction being described, 0 for none. *)
(***************************************************************************)
Trx == [waiting |-> 0, lock |-> 0, table |-> 0, query |-> 0]
NoVictim == ""
NoDeadlock == [found |-> FALSE, current |-> 0, victim |-> NoVictim, trx |-> <<Trx, Trx>>]

\* Mutant: what was gathered before the first transaction is kept.
KeepDeadlock(dl) == [dl EXCEPT !.found = TRUE, !.current = 1]

FirstTransaction(dl) == [NoDeadlock EXCEPT !.found = TRUE, !.current = 1]

Describe(dl, field, i) ==
  IF dl.current = 0 THEN dl ELSE [dl EXCEPT !.trx[dl.current][field] = i]

Verbs == {"INSERT", "UPDATE", "DELETE", "SELECT"}

DeadlockLine(text, dl, i) ==
  CASE text[i] = "TRANSACTION_1"         -> FirstTransaction(dl)
    [] text[i] = "TRANSACTION_2"         -> [dl EXCEPT !.current = 2]
    [] text[i] = "WE_ROLL_BACK_1"        -> [dl EXCEPT !.victim = "transaction_1"]
    [] text[i] = "WE_ROLL_BACK_2"        -> [dl EXCEPT !.victim = "transaction_2"]
    [] text[i] = "WAITING_FOR_THIS_LOCK" -> Describe(dl, "waiting", i)
    [] text[i] = "lock_mode"             -> Describe(dl, "lock", i)
    [] text[i] = "TABLE"                 -> Describe(dl, "table", i)
    [] text[i] \in Verbs                 -> Describe(dl, "query", i)
    [] OTHER                             -> dl

\* At most one deadlock, although the result is a slice.
parseDeadlocks(text, section) ==
  LET dl == FoldLeft(LAMBDA d, i : DeadlockLine(text, d, i), NoDeadlock, section)
  IN  IF dl.found THEN <<[trx |-> dl.trx, victim |-> dl.victim]>> ELSE <<>>

Parse(text) ==
  LET sections == splitSections(text)
  IN  [semaphores |-> parseSemaphores(text, SectionOf(sections, "SEMAPHORES")),
       deadlocks |-> parseDeadlocks(text, SectionOf(sections, "LATEST_DETECTED_DEADLOCK")),
       transactions |-> parseTransactions(text, SectionOf(sections, "TRANSACTIONS")),
       bufferPool |-> parseBufferPool(text, SectionOf(sections, "BUFFER_POOL_AND_MEMORY")),
       rowOps |-> parseRowOps(text, SectionOf(sections, "ROW_OPERATIONS")),
       redoLog |-> parseRedoLog(text, SectionOf(sections, "LOG"))]

\* The command: the error, or the text, which is parsed for the report.
InnoDBQueries == {"SHOW ENGINE INNODB STATUS"}
queryInnoDBStatus(s, lost) == IF s.state = "bad" \/ lost # {} THEN <<>> ELSE <<s.text>>
InnoDBReport(i) == Parse(results[i][1])

(***************************************************************************)
(* Properties.                                                             *)
(***************************************************************************)
Parsed(i) == command = "innodb" /\ i \in DOMAIN results /\ results[i] # <<>>

\* The headings by a definition of their own: rule, name, rule, where the
\* closing rule of one heading does not open another.
Headings(text) ==
  LET shape == {i \in DOMAIN text : OpensSection(text, i)}
  IN  CHOOSE H \in SUBSET shape : \A i \in shape : i \in H <=> i - 2 \notin H

\* The lines of a section: those behind its last heading, up to the next one.
BodyOf(text, name) ==
  LET H == Headings(text)
      here == {h \in H : TrimSpace(text[h + 1]) = name}
  IN  {i \in DOMAIN text : \E h \in here :
         /\ \A g \in here : g <= h
         /\ i > h + 2 /\ \A g \in H : g > h => i < g}

\* However rules and names follow each other in the text, a section holds the
\* lines behind its last heading and no others: nothing of a heading, nothing
\* of a neighbour, nothing of an earlier section of the same name.
SectionsExact ==
  \A i \in DOMAIN fleet : Parsed(i) =>
    LET text == fleet[i].text
        sections == splitSections(results[i][1])
    IN  /\ \A name \in ToSet(text) \ {"---", "", " "} :
             ToSet(SectionOf(sections, name)) = BodyOf(text, name)
        /\ "" \notin DOMAIN sections

\* The last of some lines, 0 if there are none.
Latest(S) == IF S = {} THEN 0 ELSE CHOOSE j \in S : \A k \in S : k <= j
LinesAt(text, S, kinds) == {j \in S : text[j] \in kinds}

\* In the lines S of the deadlock section: where the last deadlock starts, what
\* stands in it under the heading of a transaction, and the line of its victim.
StartsAt(text, S) == Latest(LinesAt(text, S, {"TRANSACTION_1"}))
HeadOf(text, S, j) == Latest({h \in LinesAt(text, S, {"TRANSACTION_1", "TRANSACTION_2"}) : h < j})
Under(text, S, k) ==
  {j \in S : j > StartsAt(text, S) /\ text[HeadOf(text, S, j)] = <<"TRANSACTION_1", "TRANSACTION_2">>[k]}
RolledAt(text, S) ==
  Latest({j \in LinesAt(text, S, {"WE_ROLL_BACK_1", "WE_ROLL_BACK_2"}) : j > StartsAt(text, S)})

KindsOf == [waiting |-> {"WAITING_FOR_THIS_LOCK"}, lock |-> {"lock_mode"}, table |-> {"TABLE"},
            query |-> Verbs]

\* Whatever the order of the lines, the deadlock reported is the one of the last
\* "(1) TRANSACTION": each field comes from the last line of its kind that
\* stands behind it and under its own transaction's heading, and so does the
\* victim; an earlier deadlock leaves no trace.
DeadlockExact ==
  \A i \in DOMAIN fleet : Parsed(i) =>
    LET text == fleet[i].text
        body == BodyOf(text, "LATEST_DETECTED_DEADLOCK")
        rolled == RolledAt(text, body)
        dl == InnoDBReport(i).deadlocks
    IN  IF StartsAt(text, body) = 0 THEN dl = <<>>
        ELSE /\ \A k \in {1, 2}, field \in DOMAIN KindsOf :
                  dl[1].trx[k][field] = Latest(LinesAt(text, Under(text, body, k), KindsOf[field]))
             /\ dl[1].victim = IF rolled = 0 THEN NoVictim
                               ELSE IF text[rolled] = "WE_ROLL_BACK_1" THEN "transaction_1" ELSE "transaction_2"
=============================================================================
