------------------------------- MODULE Check -------------------------------
(***************************************************************************)
(* `mysqlpulse check <metric>` (src/internal/cli/check.go): one metric of  *)
(* every server against two thresholds, as a Nagios exit code.             *)
(***************************************************************************)
EXTENDS Sweep

Severities == <<"OK", "WARNING", "CRITICAL", "UNKNOWN">>   \* exit codes 0 to 3
Rank(status) == CHOOSE i \in 1..4 : Severities[i] = status
ExitCodes == <<"0", "1", "2", "3">>

CheckQueries ==
  CASE flags.metric = "repl-lag"    -> Statements
    [] flags.metric = "buffer-pool" -> {"reads", "requests"}
    [] OTHER                        -> {"status"}

\* The number the query gives, as a sequence of at most one: an error is none.
\* A NULL lag does not scan as a number.
Reading(s, lost) ==
  IF flags.metric = "repl-lag"
  THEN LET rows == ReplicaRows(s, lost)
       IN  IF rows # <<>> /\ rows[1].lag >= 0 THEN <<rows[1].lag>> ELSE <<>>
  ELSE IF s.state = "bad" \/ lost # {} THEN <<>> ELSE <<s.value>>

\* A threshold of zero is off.
Breaches(val, threshold) == threshold > 0 /\ val >= threshold

StatusOf(val) == IF Breaches(val, flags.crit) THEN "CRITICAL"
                 ELSE IF Breaches(val, flags.warn) THEN "WARNING" ELSE "OK"

CheckNode(s, lost) == LET r == Reading(s, lost)
                      IN  IF r = <<>> THEN "UNKNOWN" ELSE StatusOf(r[1])

\* Mutant: the verdict of the last node that is not OK stays.
LastVerdict(verdict, status) == IF status # "OK" THEN status ELSE verdict

escalate(verdict, status) == IF Rank(status) > Rank(verdict) THEN status ELSE verdict

Verdict == FoldLeft(escalate, "OK", results)
CheckExit == ExitCodes[Rank(Verdict)]

\* An unknown metric is refused like a bad configuration.
CheckMetrics == {"repl-lag", "buffer-pool", "counter"}
CheckRefuses == flags.metric \notin CheckMetrics

(***************************************************************************)
(* Properties.                                                             *)
(***************************************************************************)
\* What the server's state itself would be reported as.
TrueStatus(s) ==
  CASE flags.metric = "repl-lag" /\ s.rows = <<>>       -> "UNKNOWN"
    [] flags.metric = "repl-lag" /\ s.rows # <<>>       ->
         IF s.rows[1].lag < 0 THEN "UNKNOWN" ELSE StatusOf(s.rows[1].lag)
    [] OTHER                                            -> StatusOf(s.value)

\* The exit code of a check is that of the worst node, whichever nodes fail and
\* in whatever order they come: no node that was read is understated, none that
\* was not read is passed over, and nothing is overstated.
ExitIsWorst ==
  command = "check" /\ stage = "ended" /\ results # <<>> =>
    LET worst(i) == IF i \in failed /\ results[i] = "UNKNOWN" THEN 4
                    ELSE Rank(TrueStatus(fleet[i]))
        ranks == {worst(i) : i \in DOMAIN fleet}
    IN  exit = ExitCodes[CHOOSE r \in ranks : \A q \in ranks : q <= r]
=============================================================================
