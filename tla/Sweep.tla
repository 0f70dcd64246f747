------------------------------- MODULE Sweep -------------------------------
(***************************************************************************)
(* What the one-shot commands of mysqlpulse have in common: read the       *)
(* configuration, visit the servers of MYSQL_DSN one after the other under *)
(* one deadline that all of them share (doctor has none), gather what each *)
(* visit yields, and end with an exit code.  The modules that extend this  *)
(* one say what a visit yields and what is made of the results; Commands   *)
(* puts them together.                                                     *)
(*                                                                         *)
(* A server is what a DSN names, with the truth about it:                  *)
(*   label   what instanceLabel makes of the DSN: <<host, port>>           *)
(*   state   "bad" if sql.Open refuses the DSN, "down", "hung", or "up"    *)
(*   speaks  the statements of Statements it understands                   *)
(*   rows    the rows of its replica status: the source host, running      *)
(*           (both threads), and the lag, -1 for NULL                      *)
(*   denied  what it does not permit, which doctor alone tells from a      *)
(*           query that fails for another reason                           *)
(*   value, the checked metric; setting, the global variables; text, its   *)
(*   InnoDB status                                                         *)
(***************************************************************************)
EXTENDS Integers, SequencesExt

CONSTANTS
  Fleets,   \* [command -> the sequences of servers it is tried on]
  Flags     \* [command -> its arguments]

VARIABLES
  command, flags,  \* what was typed
  fleet,           \* the servers of MYSQL_DSN, in order
  stage,           \* "config", "sweep" or "ended"
  results,         \* what the visits yielded so far
  expired,         \* the deadline of the command's context has passed
  failed,          \* history: the servers on which something failed
  exit             \* the exit code

sweep == <<command, flags, fleet, stage, results, expired, failed, exit>>

SweepInit ==
  /\ command \in DOMAIN Fleets
  /\ flags \in Flags[command] /\ fleet \in Fleets[command]
  /\ stage = "config" /\ results = <<>>
  /\ expired = FALSE /\ failed = {} /\ exit = "none"

Ends(code) == stage' = "ended" /\ exit' = code

\* FromEnv, and the refusals before anything is opened.
Configure(refused, code) ==
  /\ stage = "config"
  /\ \/ ~refused /\ stage' = "sweep" /\ UNCHANGED exit
     \/ Ends(code)      \* a value in the environment that does not parse
  /\ UNCHANGED <<command, flags, fleet, results, expired, failed>>

HasDeadline == command \notin {"doctor", "watch"}

Expire ==
  /\ stage = "sweep" /\ HasDeadline /\ ~expired
  /\ expired' = TRUE
  /\ UNCHANGED <<command, flags, fleet, stage, results, failed, exit>>

\* Mutant: the queries are made without the context.
Unbounded(s) == s.state # "hung"

\* A call on a server that hangs returns when the deadline passes.
MayReturn(s) == s.state # "hung" \/ expired

Here == Len(results) + 1
ThisServer == fleet[Here]

\* Of the queries a visit would make, those that fail: any, at any time.
Losses(queries) ==
  IF ThisServer.state = "bad" THEN {{}}
  ELSE IF ThisServer.state = "up" /\ ~expired THEN SUBSET queries ELSE {queries}

\* One turn of the loop over the DSNs: yields[lost] is what it appends.
Visit(yields) ==
  /\ stage = "sweep" /\ Here <= Len(fleet) /\ MayReturn(ThisServer)
  /\ \E lost \in DOMAIN yields :
       /\ results' = Append(results, yields[lost])
       /\ failed' = IF lost # {} \/ ThisServer.state = "bad"
                    THEN failed \cup {Here} ELSE failed
  /\ UNCHANGED <<command, flags, fleet, stage, expired, exit>>

Finish(code) ==
  /\ stage = "sweep" /\ Here > Len(fleet)
  /\ Ends(code)
  /\ UNCHANGED <<command, flags, fleet, results, expired, failed>>

(***************************************************************************)
(* The replica status, which check, topology, status, report and watch     *)
(* read in the same way, each in code of its own: the modern statement     *)
(* first, then the legacy one, and the first row only.                     *)
(***************************************************************************)
Statements == {"SHOW REPLICA STATUS", "SHOW SLAVE STATUS"}

\* The source host of a row that has none, the empty string.
NoHost == "no host"

\* Every MySQL server understands one of the two, and its lag is a number.
Servers == UNION {UNION {ToSet(servers) : servers \in Fleets[c]} : c \in DOMAIN Fleets}
ASSUME FleetsAssumption ==
  /\ \A c \in DOMAIN Fleets : \A servers \in Fleets[c] : servers \in Seq(ToSet(servers))
  /\ \A s \in Servers : /\ s.state = "up" => Statements \cap s.speaks # {}
                        /\ s.rows # <<>> => s.rows[1].lag \in Int

\* Mutant: the legacy statement is forgotten.
ModernRows(s, lost) ==
  IF s.state # "bad" /\ "SHOW REPLICA STATUS" \in s.speaks \ lost THEN s.rows ELSE <<>>

ReplicaRows(s, lost) ==
  IF s.state # "bad" /\ (Statements \cap s.speaks) \ lost # {} THEN s.rows ELSE <<>>
=============================================================================
