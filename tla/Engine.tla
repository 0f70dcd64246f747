------------------------------- MODULE Engine -------------------------------
(***************************************************************************)
(* The poll loop (src/internal/engine/engine.go) with the retrying ping of *)
(* PingRetry inside it and the scrape collector behind it: one goroutine   *)
(* visits the targets in order, and owns mysql_up and the error counter.   *)
(*                                                                         *)
(* The targets are numbered in the order of MYSQL_DSN.  The metrics know a *)
(* target only by its instance label, and every DSN without tcp(...) has   *)
(* the same one, so several targets may write one series.  Collectors      *)
(* other than scrape touch neither of the two and appear as steps; what    *)
(* they write is VecCollector's subject, what an evaluation sends is       *)
(* Alerter's.                                                              *)
(***************************************************************************)
EXTENDS Naturals, FiniteSets

CONSTANTS
  NumTargets,     \* len(e.targets)
  NumCollectors,  \* len(e.collectors); scrape is the first
  MaxRetries,     \* maxRetries
  Instances,      \* the instance labels
  InstanceOf      \* instanceLabel, as the label of each target

Targets == 1..NumTargets

ASSUME EngineAssumption ==
  /\ NumTargets \in Nat \ {0}
  /\ NumCollectors \in Nat \ {0}
  /\ MaxRetries \in Nat
  /\ InstanceOf \in [Targets -> Instances]

VARIABLES
  at,         \* where the goroutine is
  ti, ci,     \* the target and the collector it is at
  ticking,    \* the ticker exists: Run creates it after the first poll
  tick,       \* its channel, of capacity one, holds a tick
  up,         \* mysql_up, by instance label
  errs,       \* mysql_scrape_errors_total, by label, since the poll began
  hung,       \* the servers that accept calls and never answer
  answer,     \* history: what the last ping of a target returned
  contacted,  \* history: targets on which work was begun after cancellation
  pc, attempt, backoff, lastErr, result, cancelled, pings, waited, late

ping == <<pc, attempt, backoff, lastErr, result, pings, waited, late>>
gauges == <<up, errs>>
vars == <<at, ti, ci, ticking, tick, gauges, hung, answer, contacted, ping, cancelled>>

\* The call of PingWithRetry in progress, in this module's variables.
Retry == INSTANCE PingRetry

Init ==
  /\ at = "next" /\ ti = 1 /\ ci = 1
  /\ ticking = FALSE /\ tick = FALSE
  /\ up = [l \in Instances |-> "absent"] /\ errs = [l \in Instances |-> 0]
  /\ hung \in SUBSET Targets
  /\ answer = [t \in Targets |-> "none"] /\ contacted = {}
  /\ Retry!Init

\* A server that hangs keeps a call until the context is cancelled.
CallReturns == ti \notin hung \/ cancelled

\* Work on target ti begins, knowingly or not, after the cancellation.
Touch == contacted' = IF cancelled THEN contacted \cup {ti} ELSE contacted

(***************************************************************************)
(* poll: one target after the other.                                       *)
(***************************************************************************)
NextTarget == at' = "next" /\ ti' = ti + 1

\* Mutant: the range over the targets goes one too far.
OneTooMany == ti <= NumTargets + 1

MoreTargets == ti <= NumTargets

StartTarget ==
  /\ at = "next" /\ MoreTargets
  /\ at' = "ping" /\ Retry!Call
  /\ UNCHANGED <<ti, ci, ticking, tick, gauges, hung, answer, contacted>>

\* The steps of PingWithRetry; its ping of the server is the one that can hang.
PingStep ==
  /\ at = "ping"
  /\ \/ /\ Retry!CheckCtx \/ Retry!BackoffElapsed \/ Retry!BackoffCancelled
        /\ UNCHANGED <<answer, contacted>>
     \/ Retry!BeginPing /\ Touch /\ UNCHANGED answer
     \/ \E o \in Retry!PingOutcomes :
          /\ CallReturns /\ Retry!PingReturns(o)
          /\ answer' = [answer EXCEPT ![ti] = o]
          /\ UNCHANGED contacted
  /\ UNCHANGED <<at, ti, ci, ticking, tick, gauges, hung>>

\* The label of the present target, under which it is reported.
Instance == InstanceOf[ti]

\* Mutants: the error is not counted; the gauge is not set.
GaugeOnly == up' = [up EXCEPT ![Instance] = "0"] /\ UNCHANGED errs
CountOnly == errs' = [errs EXCEPT ![Instance] = @ + 1] /\ UNCHANGED up

MarkDown == /\ up' = [up EXCEPT ![Instance] = "0"]
            /\ errs' = [errs EXCEPT ![Instance] = @ + 1]
MarkUp   == up' = [up EXCEPT ![Instance] = "1"] /\ UNCHANGED errs

\* Mutant: an unreachable target ends the poll (return for continue).
FailureEndsPoll ==
  /\ at = "ping" /\ pc = "done" /\ result # "nil"
  /\ MarkDown /\ at' = "next" /\ ti' = NumTargets + 1
  /\ UNCHANGED <<ci, ticking, tick, hung, answer, contacted, ping, cancelled>>

PingFailed ==
  /\ at = "ping" /\ pc = "done" /\ result # "nil"
  /\ MarkDown /\ NextTarget
  /\ UNCHANGED <<ci, ticking, tick, hung, answer, contacted, ping, cancelled>>

PingSucceeded ==
  /\ at = "ping" /\ pc = "done" /\ result = "nil"
  /\ at' = "collect" /\ ci' = 1
  /\ UNCHANGED <<ti, ticking, tick, gauges, hung, answer, contacted, ping, cancelled>>

AfterCollector == IF ci < NumCollectors THEN at' = "collect" /\ ci' = ci + 1
                                        ELSE at' = "evaluate" /\ UNCHANGED ci

\* Scrape.Collect pings once more, without retries: its answer is the gauge.
Scrape(o) ==
  /\ at = "collect" /\ ci = 1
  /\ CallReturns /\ o \in Retry!Answers
  /\ answer' = [answer EXCEPT ![ti] = o]
  /\ \/ o = "nil" /\ MarkUp
     \/ o # "nil" /\ MarkDown
  /\ Touch /\ AfterCollector
  /\ UNCHANGED <<ti, ticking, tick, hung, ping, cancelled>>

\* Any other collector; its error is logged and the poll goes on.
Collect ==
  /\ at = "collect" /\ ci > 1
  /\ CallReturns /\ Touch /\ AfterCollector
  /\ UNCHANGED <<ti, ticking, tick, gauges, hung, answer, ping, cancelled>>

EvaluateAlerts ==
  /\ at = "evaluate"
  /\ CallReturns /\ Touch /\ NextTarget
  /\ UNCHANGED <<ci, ticking, tick, gauges, hung, answer, ping, cancelled>>

(***************************************************************************)
(* Run: the first poll at once, then one per tick until the context ends.  *)
(***************************************************************************)
PollReturns ==
  /\ at = "next" /\ ~MoreTargets
  /\ at' = "select" /\ ticking' = TRUE
  /\ UNCHANGED <<ti, ci, tick, gauges, hung, answer, contacted, ping, cancelled>>

\* Both cases of the select may be ready; Go picks either.
SelectTick ==
  /\ at = "select" /\ tick
  /\ tick' = FALSE /\ at' = "next" /\ ti' = 1
  /\ errs' = [l \in Instances |-> 0]
  /\ UNCHANGED <<ci, ticking, up, hung, answer, contacted, ping, cancelled>>

\* Mutant: the context is only looked at when no tick is pending.
DoneWhenIdle ==
  /\ at = "select" /\ cancelled /\ ~tick
  /\ at' = "stopped" /\ ticking' = FALSE
  /\ UNCHANGED <<ti, ci, tick, gauges, hung, answer, contacted, ping, cancelled>>

SelectDone ==
  /\ at = "select" /\ cancelled
  /\ at' = "stopped" /\ ticking' = FALSE
  /\ UNCHANGED <<ti, ci, tick, gauges, hung, answer, contacted, ping, cancelled>>

\* A tick that finds the channel full is dropped.
Tick ==
  /\ ticking /\ ~tick /\ tick' = TRUE
  /\ UNCHANGED <<at, ti, ci, ticking, gauges, hung, answer, contacted, ping, cancelled>>

Cancel ==
  /\ Retry!Cancel
  /\ UNCHANGED <<at, ti, ci, ticking, tick, gauges, hung, answer, contacted>>

Poll ==
  \/ StartTarget \/ PingStep \/ PingFailed \/ PingSucceeded
  \/ \E o \in Retry!PingOutcomes : Scrape(o)
  \/ Collect \/ EvaluateAlerts \/ PollReturns

Next == Poll \/ SelectTick \/ SelectDone \/ Tick \/ Cancel

Spec == Init /\ [][Next]_vars

(***************************************************************************)
(* Fairness: the goroutine and the ticker run, a server that is not hung   *)
(* answers, a hung call ends with its context.  The select picks at random *)
(* among ready cases, so it does not overlook the same one for ever.       *)
(***************************************************************************)
FairSpec == Spec /\ WF_vars(Poll) /\ WF_vars(SelectTick) /\ SF_vars(SelectDone) /\ WF_vars(Tick)

(***************************************************************************)
(* Properties.                                                             *)
(***************************************************************************)
TypeOK ==
  /\ at \in {"next", "ping", "collect", "evaluate", "select", "stopped"}
  /\ ti \in 1..(NumTargets + 1) /\ ci \in 1..NumCollectors
  /\ at \in {"ping", "collect", "evaluate"} => ti \in Targets
  /\ ticking \in BOOLEAN /\ tick \in BOOLEAN
  /\ up \in [Instances -> {"absent", "0", "1"}] /\ errs \in [Instances -> Nat]
  /\ hung \subseteq Targets /\ contacted \subseteq Targets
  /\ answer \in [Targets -> Retry!PingOutcomes \cup {"none"}]
  /\ Retry!TypeOK

Namesakes(t) == {u \in Targets : InstanceOf[u] = InstanceOf[t]}

\* The targets of label l that the poll in progress is through with.
Visited(l) == {t \in Targets : t < ti /\ InstanceOf[t] = l}

\* The goroutine is at a target of label l.
Busy(l) == at \in {"ping", "collect", "evaluate"} /\ Instance = l

\* Of the targets that share its label, t was the last to be visited: by this
\* poll or, if it has come to none of them yet, by the one before.
VisitedLast(t) ==
  IF t < ti THEN \A u \in Namesakes(t) : u < ti => u <= t
            ELSE \A u \in Namesakes(t) : ti <= u /\ u <= t

\* mysql_up and the error counter are written in two places each, and targets
\* may share both; they agree: a poll counts each ping that failed, once, and
\* more than those only when it was cancelled; a label that is down has an error
\* to show for it, one that is up a target without.
ErrorsMatchUp ==
  \A l \in Instances :
    ~Busy(l) /\ Visited(l) # {} =>
      LET failed == {t \in Visited(l) : answer[t] # "nil"} IN
      /\ Cardinality(failed) <= errs[l] /\ errs[l] <= Cardinality(Visited(l))
      /\ ~cancelled => errs[l] = Cardinality(failed)
      /\ \/ up[l] = "0" /\ errs[l] > 0
         \/ up[l] = "1" /\ errs[l] < Cardinality(Visited(l))

\* Whatever targets of other labels do, mysql_up of a label the goroutine is not
\* at is what the last ping of the last target visited under it said, and hides
\* what its namesakes answered; "down" may also be the doing of a cancellation.
UpIsLastAnswer ==
  \A t \in Targets :
    VisitedLast(t) /\ ~Busy(InstanceOf[t]) =>
      /\ up[InstanceOf[t]] = "1" => answer[t] = "nil"
      /\ up[InstanceOf[t]] = "0" => answer[t] = "err" \/ cancelled

\* After the cancellation no work is begun on a second target, however the
\* signal falls between a check and a call, and whichever case the select picks.
CancelContained == Cardinality(contacted) <= 1

\* A cancelled engine stops, even inside a hung call, a backoff or a full tick.
CancelStops == cancelled ~> at = "stopped"

\* Unless a server hangs, an unreachable target or a failing collector never
\* keeps the engine from coming round to every target again.
EveryTargetAgain ==
  hung = {} => \A t \in Targets : []<>(at = "next" /\ ti = t + 1) \/ <>cancelled

\* mysql_up, by its help text: "Whether MySQL is reachable (1=up, 0=down)".
DownMeansUnreachable ==
  \A t \in Targets :
    t < ti /\ VisitedLast(t) /\ ~Busy(InstanceOf[t]) =>
      (up[InstanceOf[t]] = "0" => answer[t] # "nil")
=============================================================================
