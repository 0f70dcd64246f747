------------------------------ MODULE Commands ------------------------------
(***************************************************************************)
(* The commands of mysqlpulse besides serve (src/internal/cli/root.go):    *)
(* one process runs one of them, on servers any of which may be refused,   *)
(* down, slow or without a permission.                                     *)
(***************************************************************************)
EXTENDS Check, Topology, Summaries, Diff, InnoDBStatus, Watch

vars == <<sweep, watchVars>>

Init == SweepInit /\ WatchInit

Step(action) == action /\ UNCHANGED watchVars

Refuse ==
  CASE command = "check" -> Configure(CheckRefuses, "3")
    [] command = "diff"  -> Configure(DiffRefuses, "1")
    [] OTHER             -> Configure(FALSE, "1")

VisitNode ==
  CASE command = "check"    -> Visit([lost \in Losses(CheckQueries) |-> CheckNode(ThisServer, lost)])
    [] command = "topology" -> Visit([lost \in Losses(Statements) |-> TopologyNode(ThisServer, lost)])
    [] command = "status"   -> Visit([lost \in Losses(StatusQueries) |-> collectStatus(ThisServer, lost)])
    [] command = "report"   -> Visit([lost \in Losses(ReportQueries) |-> collectNodeReport(ThisServer, lost)])
    [] command = "diff"     -> Visit([lost \in Losses({"SHOW GLOBAL VARIABLES"}) |-> fetchGlobalVars(ThisServer, lost)])
    [] command = "doctor"   -> Visit([lost \in Losses(DoctorQueries) |-> runDoctorChecks(ThisServer, lost)])
    [] command = "innodb"   -> Visit([lost \in Losses(InnoDBQueries) |-> queryInnoDBStatus(ThisServer, lost)])
    [] OTHER                -> FALSE

\* Only check's exit code depends on what was found.  Render refuses an unknown
\* format; check prints that and keeps its code.
Render ==
  CASE command = "check" -> Finish(CheckExit)
    [] command = "watch" -> FALSE
    [] OTHER             -> Finish("0") \/ Finish("1")

OneShot == command # "watch" /\ (VisitNode \/ Render)

Next ==
  \/ Step(Refuse)
  \/ Step(OneShot)
  \/ Step(Expire)
  \/ WatchNext

Spec == Init /\ [][Next]_vars

(***************************************************************************)
(* Fairness: the process runs and the timer of the deadline goes off.      *)
(***************************************************************************)
FairSpec ==
  /\ Spec /\ WatchFairness
  /\ WF_vars(Step(Refuse)) /\ WF_vars(Step(OneShot)) /\ WF_vars(Step(Expire))

(***************************************************************************)
(* Properties.                                                             *)
(***************************************************************************)
CommandsTypeOK ==
  /\ WatchTypeOK
  /\ stage \in {"config", "sweep", "ended"} /\ exit \in {"none", "0", "1", "2", "3"}
  /\ stage = "ended" <=> exit # "none"
  /\ Len(results) <= Len(fleet) /\ failed \subseteq DOMAIN fleet /\ expired \in BOOLEAN

\* Four commands that show the replica status, or judge by it, read it in code
\* of their own, and agree: where nothing failed, status and report see a replica
\* exactly where there is a row, whichever of the two statements the server
\* speaks, check a lag exactly where there is a row with one, and topology a
\* replica exactly where the row names its source.
ReplicaSeen ==
  \A i \in DOMAIN results : i \notin failed =>
    LET r == results[i]
        s == fleet[i]
        lags == s.rows # <<>> /\ s.rows[1].lag >= 0
    IN  /\ command = "topology" => (r.role = "replica" <=> Replicates(s))
        /\ command = "status" => (r.state # "not replicating" <=> s.rows # <<>>)
        /\ command = "status" => (r.lag = "known" <=> lags)
        /\ command = "report" => (r.replication <=> s.rows # <<>>)
        /\ command = "check" /\ flags.metric = "repl-lag" => (r # "UNKNOWN" <=> lags)

\* A command comes to its end although every server hangs, as its one deadline
\* covers all it has left to do; doctor has none, and ends if no server hangs.
CommandEnds ==
  LET hangs == \E s \in ToSet(fleet) : s.state = "hung"
  IN  command # "watch" /\ (HasDeadline \/ ~hangs) ~> stage = "ended"
=============================================================================
