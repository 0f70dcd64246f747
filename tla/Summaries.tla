----------------------------- MODULE Summaries -----------------------------
(***************************************************************************)
(* The commands that summarise one server at a time: status, report and    *)
(* doctor (src/internal/cli).  A failed query leaves its part of a summary *)
(* empty; only doctor says that it failed.                                 *)
(***************************************************************************)
EXTENDS Sweep

(***************************************************************************)
(* status                                                                  *)
(***************************************************************************)
StatusQueries == {"SHOW GLOBAL VARIABLES", "SHOW GLOBAL STATUS"} \cup Statements

ReplState(rows) == IF rows = <<>> THEN "not replicating"
                   ELSE IF rows[1].running THEN "running" ELSE "IO/SQL"
ReplLag(rows) == IF rows = <<>> THEN "-" ELSE IF rows[1].lag < 0 THEN "NULL" ELSE "known"

\* sql.Open's error leaves everything else empty.
collectStatus(s, lost) ==
  IF s.state = "bad" THEN [error |-> TRUE, filled |-> {}, state |-> "", lag |-> ""]
  ELSE [error |-> FALSE, filled |-> (StatusQueries \ Statements) \ lost,
        state |-> ReplState(ReplicaRows(s, lost)), lag |-> ReplLag(ReplicaRows(s, lost))]

(***************************************************************************)
(* report                                                                  *)
(***************************************************************************)
ReportQueries == {"variables", "status", "SHOW PROCESSLIST"} \cup Statements

\* The replication section is left out unless a row has something to show.
collectNodeReport(s, lost) ==
  IF s.state = "bad" THEN [error |-> TRUE, filled |-> {}, replication |-> FALSE]
  ELSE [error |-> FALSE, filled |-> (ReportQueries \ Statements) \ lost,
        replication |-> ReplicaRows(s, lost) # <<>>]

(***************************************************************************)
(* doctor                                                                  *)
(***************************************************************************)
\* What doctor asks for, besides the replica status; not PROCESS, which SHOW
\* ENGINE INNODB STATUS needs.
Permissions == {"version", "global_status", "global_variables", "performance_schema"}

DoctorQueries == {"connect"} \cup Permissions \cup Statements

\* checkQuery does not look for a row: a statement passes when it is understood.
replCheck(s, lost) ==
  "replica_status" \notin s.denied /\ (Statements \cap s.speaks) \ lost # {}

\* How many of the checks pass: after a failed connection there is only that one.
runDoctorChecks(s, lost) ==
  IF s.state = "bad" \/ "connect" \in lost THEN [passed |-> 0, total |-> 1]
  ELSE [passed |-> 1 + Cardinality(Permissions \ (lost \cup s.denied))
                     + IF replCheck(s, lost) THEN 1 ELSE 0,
        total |-> 2 + Cardinality(Permissions)]

Count(field) == FoldLeft(LAMBDA n, r : n + r[field], 0, results)

\* Mutant: any failure makes the status "degraded".
NeverUnavailable == IF Count("passed") < Count("total") THEN "degraded" ELSE "healthy"

\* readiness is passed / total, compared with 0 and 1.
overallStatus == IF Count("passed") = 0 THEN "unavailable"
                 ELSE IF Count("passed") < Count("total") THEN "degraded" ELSE "healthy"

(***************************************************************************)
(* Properties.                                                             *)
(***************************************************************************)
Asked == Permissions \cup {"replica_status"}

\* doctor calls a fleet healthy only if every server answers and permits all
\* that doctor asks for, whichever of the two replica statements it speaks; and,
\* if nothing was lost on the way, always then, whatever else a server denies to
\* the other commands.  It is unavailable exactly if no server could be
\* connected to.
DoctorTellsTruth ==
  command = "doctor" /\ stage = "ended" /\ results # <<>> =>
    LET Fit(s) == s.state = "up" /\ s.denied \cap Asked = {}
    IN  /\ overallStatus = "healthy" => \A s \in ToSet(fleet) : Fit(s)
        /\ failed = {} /\ (\A s \in ToSet(fleet) : Fit(s)) => overallStatus = "healthy"
        /\ overallStatus = "unavailable" <=> \A i \in DOMAIN fleet : results[i].total = 1
=============================================================================
