---------------------------- MODULE EngineProofs ----------------------------
(***************************************************************************)
(* Proofs about Engine, for any number of targets, collectors and retries. *)
(* What PingRetryProofs proves of one PingWithRetry carries over to the    *)
(* calls the poll loop makes; on top of it stand the gauge, the counter    *)
(* and the containment of a cancellation.                                  *)
(***************************************************************************)
EXTENDS Engine, FiniteSetTheorems, TLAPS

R == INSTANCE PingRetryProofs

\* The goroutine is at a target of label l and has not yet heard from scrape.
Undecided(l) == Instance = l /\ (at = "ping" \/ (at = "collect" /\ ci = 1))

\* This poll is through with the gauge of t.
Settled(t) == t < ti \/ (t = ti /\ (at = "evaluate" \/ (at = "collect" /\ ci > 1)))

\* The targets of label l this poll is through with, and those of them that failed.
Through(l) == {t \in Targets : Settled(t) /\ InstanceOf[t] = l}
Failed(l) == {t \in Through(l) : answer[t] # "nil"}

\* Of its namesakes, t was the last to be settled, by this poll or the one before.
SettledLast(t) ==
  IF Settled(t) THEN \A u \in Namesakes(t) : Settled(u) => u <= t
                ELSE \A u \in Namesakes(t) : ~Settled(u) /\ u <= t

Places ==
  /\ at \in {"next", "ping", "collect", "evaluate", "select", "stopped"}
  /\ ti \in 1..(NumTargets + 1) /\ ci \in 1..NumCollectors
  /\ at \in {"ping", "collect", "evaluate"} => ti \in Targets
  /\ ticking \in BOOLEAN /\ tick \in BOOLEAN
  /\ hung \subseteq Targets
  /\ at # "ping" => pc \in {"idle", "done"}
  /\ at \in {"select", "stopped"} => ti = NumTargets + 1

\* The verdict of the call in progress is about the target's last answer.
Verdict ==
  /\ answer \in [Targets -> Retry!PingOutcomes \cup {"none"}]
  /\ at = "ping" /\ lastErr # "none" => answer[ti] = lastErr
  /\ pc = "done" <=> result # "none"

Gauge ==
  /\ up \in [Instances -> {"absent", "0", "1"}]
  /\ \A t \in Targets :
       SettledLast(t) /\ ~Undecided(InstanceOf[t]) =>
         /\ up[InstanceOf[t]] = "1" => answer[t] = "nil"
         /\ up[InstanceOf[t]] = "0" => answer[t] = "err" \/ cancelled

\* The counter of label l between the failures and the targets there were.
Tally(l) ==
  /\ Cardinality(Failed(l)) <= errs[l] /\ errs[l] <= Cardinality(Through(l))
  /\ ~cancelled => errs[l] = Cardinality(Failed(l))
  /\ Through(l) # {} => \/ up[l] = "0" /\ errs[l] > 0
                        \/ up[l] = "1" /\ errs[l] < Cardinality(Through(l))

Counter == errs \in [Instances -> Nat] /\ \A l \in Instances : Tally(l)

\* Work begun after the cancellation is on one target; while it goes on, on
\* the present one; and a ping whose check has passed is the first such work.
AtPresent == \/ at \in {"collect", "evaluate"}
             \/ at = "ping" /\ (pc = "ping" \/ (pc = "done" /\ result = "nil"))
Contained ==
  /\ contacted \subseteq Targets
  /\ ~cancelled => contacted = {}
  /\ at = "ping" /\ pc = "call" => contacted = {}
  /\ AtPresent => contacted \subseteq {ti}
  /\ \E t \in Targets : contacted \subseteq {t}

IInv == R!IInv /\ Places /\ Verdict /\ Gauge /\ Counter /\ Contained

-----------------------------------------------------------------------------
LEMMA RetryAssumption == R!MaxRetriesAssumption
BY EngineAssumption DEF R!MaxRetriesAssumption

\* Every step of the engine is a step of the retrying ping, or leaves it alone.
LEMMA PingSteps == [Next]_vars => [R!Next]_(R!vars)
<1> SUFFICES ASSUME [Next]_vars PROVE R!Next \/ UNCHANGED R!vars
  OBVIOUS
<1> USE DEF R!vars, R!call, ping
<1>1. CASE StartTarget
  BY <1>1 DEF StartTarget, Retry!Call, R!Call, R!Next
<1>2. CASE PingStep
  <2>1. CASE Retry!CheckCtx
    BY <2>1 DEF Retry!CheckCtx, Retry!Return, R!CheckCtx, R!Return, R!Next, R!Step
  <2>2. CASE Retry!BackoffElapsed
    BY <2>2 DEF Retry!BackoffElapsed, Retry!NextBackoff, R!BackoffElapsed, R!NextBackoff,
                R!Next, R!Step
  <2>3. CASE Retry!BackoffCancelled
    BY <2>3 DEF Retry!BackoffCancelled, Retry!Return, R!BackoffCancelled, R!Return,
                R!Next, R!Step
  <2>4. CASE Retry!BeginPing
    BY <2>4 DEF Retry!BeginPing, R!BeginPing, R!Next, R!Step
  <2>5. ASSUME NEW o \in Retry!PingOutcomes, Retry!PingReturns(o)
        PROVE  R!Next
    BY <2>5 DEF Retry!PingReturns, Retry!Return, Retry!MayRetry, Retry!Answers,
                Retry!PingOutcomes, R!PingReturns, R!Return, R!MayRetry, R!Answers,
                R!PingOutcomes, R!Next, R!Step
  <2>6. QED
    BY <1>2, <2>1, <2>2, <2>3, <2>4, <2>5 DEF PingStep
<1>3. CASE Cancel
  BY <1>3 DEF Cancel, Retry!Cancel, Retry!call, R!Cancel, R!Next
<1>4. CASE PingFailed \/ PingSucceeded
  BY <1>4 DEF PingFailed, PingSucceeded
<1>5. CASE \/ Collect \/ EvaluateAlerts \/ PollReturns \/ SelectTick \/ SelectDone
           \/ Tick \/ \E o \in Retry!PingOutcomes : Scrape(o)
  BY <1>5 DEF Collect, EvaluateAlerts, PollReturns, SelectTick, SelectDone, Tick, Scrape
<1>6. CASE UNCHANGED vars
  BY <1>6 DEF vars
<1>7. QED
  BY <1>1, <1>2, <1>3, <1>4, <1>5, <1>6 DEF Next, Poll

LEMMA PingInvariant == R!IInv /\ [Next]_vars => R!IInv'
BY RetryAssumption, R!NextInv, PingSteps

-----------------------------------------------------------------------------
LEMMA Labels == \A t \in Targets : InstanceOf[t] \in Instances
BY EngineAssumption

\* The sets counted are finite.
LEMMA Countable ==
  ASSUME NEW S, S \subseteq Targets
  PROVE  IsFiniteSet(S) /\ Cardinality(S) \in Nat
<1>1. IsFiniteSet(Targets)
  BY EngineAssumption, FS_Interval DEF Targets
<1>2. IsFiniteSet(S)
  BY <1>1, FS_Subset
<1>3. QED
  BY <1>2, FS_CardinalityType

\* At the start of a poll there is nothing to count.
LEMMA NoneSettled ==
  ASSUME errs = [l \in Instances |-> 0], \A t \in Targets : ~Settled(t)
  PROVE  errs \in [Instances -> Nat] /\ \A l \in Instances : Tally(l)
<1>1. errs \in [Instances -> Nat]
  OBVIOUS
<1>2. ASSUME NEW l \in Instances PROVE Tally(l)
  <2>1. Through(l) = {} /\ Failed(l) = {}
    BY DEF Through, Failed
  <2>2. errs[l] = 0 /\ Cardinality({}) = 0
    BY FS_EmptySet
  <2>3. QED
    BY <2>1, <2>2 DEF Tally
<1>3. QED
  BY <1>1, <1>2

LEMMA InitInv == Init => IInv
<1> SUFFICES ASSUME Init PROVE IInv
  OBVIOUS
<1> USE EngineAssumption
<1>1. R!IInv
  <2>1. R!Init
    BY DEF Init, Retry!Init, R!Init
  <2>2. QED
    BY <2>1, RetryAssumption, R!InitInv
<1>2. 1 \in Targets
  BY DEF Targets
<1>3. Places
  <2>1. ti \in 1..(NumTargets + 1) /\ ci \in 1..NumCollectors
    BY DEF Init
  <2>2. ticking \in BOOLEAN /\ tick \in BOOLEAN
    BY DEF Init
  <2>3. QED
    BY <2>1, <2>2 DEF Init, Retry!Init, Places
<1>4. Verdict
  BY DEF Init, Retry!Init, Verdict, Retry!PingOutcomes
<1>5. Gauge
  BY Labels DEF Init, Gauge
<1>6. Counter
  <2>1. errs = [l \in Instances |-> 0] /\ \A t \in Targets : ~Settled(t)
    BY DEF Init, Settled, Targets
  <2>2. QED
    BY <2>1, NoneSettled DEF Counter
<1>7. Contained
  BY <1>2 DEF Init, Contained, AtPresent
<1>8. QED
  BY <1>1, <1>3, <1>4, <1>5, <1>6, <1>7 DEF IInv

LEMMA Numbers ==
  /\ NumTargets \in Nat /\ NumCollectors \in Nat
  /\ \A t \in Targets : t \in Nat /\ t <= NumTargets
  /\ \A n \in 1..(NumTargets + 1) : n \in Nat /\ (n \in Targets <=> n <= NumTargets)
BY EngineAssumption DEF Targets

\* Where the goroutine is.
LEMMA PlacesInv == IInv /\ [Next]_vars => Places'
<1> SUFFICES ASSUME IInv, [Next]_vars PROVE Places'
  OBVIOUS
<1> USE Numbers DEF IInv, Places, NextTarget, ping, gauges
<1>0. Targets' = Targets /\ R!TypeOK
  BY DEF Targets, R!IInv
<1>1. CASE StartTarget
  BY <1>0, <1>1 DEF StartTarget, MoreTargets
<1>2. CASE PingStep
  BY <1>0, <1>2 DEF PingStep
<1>3. CASE PingFailed \/ PingSucceeded \/ EvaluateAlerts
  <2>1. CASE PingSucceeded
    BY <1>0, <2>1, EngineAssumption DEF PingSucceeded
  <2>2. CASE PingFailed \/ EvaluateAlerts
    <3>1. /\ ti \in Targets /\ ti' = ti + 1 /\ at' = "next" /\ pc' \in {"idle", "done"}
          /\ UNCHANGED <<ci, ticking, tick, hung>>
      BY <2>2 DEF PingFailed, EvaluateAlerts
    <3>2. ti' \in 1..(NumTargets + 1)
      BY <3>1, EngineAssumption DEF Targets
    <3>3. QED
      BY <1>0, <3>1, <3>2
  <2>3. QED
    BY <1>3, <2>1, <2>2
<1>4. ASSUME AfterCollector, ti' = ti, at = "collect",
             UNCHANGED <<ticking, tick, hung, ping, cancelled>>
      PROVE  Places'
  BY <1>0, <1>4 DEF AfterCollector
<1>5. CASE Collect \/ \E o \in Retry!PingOutcomes : Scrape(o)
  BY <1>4, <1>5 DEF Collect, Scrape
<1>6. CASE PollReturns
  BY <1>0, <1>6 DEF PollReturns, MoreTargets
<1>7. CASE SelectTick
  <2>1. tick' \in BOOLEAN
    BY <1>7 DEF SelectTick
  <2>2. ti' \in 1..(NumTargets + 1) /\ at' = "next"
    BY <1>7, EngineAssumption DEF SelectTick
  <2>3. QED
    BY <1>0, <1>7, <2>1, <2>2 DEF SelectTick
<1>8. CASE SelectDone \/ Tick \/ UNCHANGED vars
  BY <1>0, <1>8 DEF SelectDone, Tick, vars
<1>9. CASE Cancel
  BY <1>0, <1>9 DEF Cancel, Retry!Cancel, Retry!call
<1>10. QED
  BY <1>1, <1>2, <1>3, <1>5, <1>6, <1>7, <1>8, <1>9 DEF Next, Poll

\* What the steps of the poll do to the variables the other parts speak of.
LEMMA VerdictInv == IInv /\ [Next]_vars => Verdict'
<1> SUFFICES ASSUME IInv, [Next]_vars PROVE Verdict'
  OBVIOUS
<1> USE DEF IInv, Places, Verdict, ping
<1>0. Targets' = Targets /\ Retry!PingOutcomes' = Retry!PingOutcomes
  BY DEF Targets, Retry!PingOutcomes
<1>1. CASE StartTarget
  BY <1>0, <1>1 DEF StartTarget, Retry!Call
<1>2. CASE PingStep
  <2>1. CASE Retry!CheckCtx \/ Retry!BackoffElapsed \/ Retry!BackoffCancelled
    BY <1>0, <1>2, <2>1
       DEF PingStep, Retry!CheckCtx, Retry!BackoffElapsed, Retry!BackoffCancelled,
           Retry!Return, Retry!BeginPing, Retry!PingReturns
  <2>2. CASE Retry!BeginPing
    BY <1>0, <1>2, <2>2
       DEF PingStep, Retry!CheckCtx, Retry!BackoffElapsed, Retry!BackoffCancelled,
           Retry!BeginPing, Retry!PingReturns
  <2>3. ASSUME NEW o \in Retry!PingOutcomes, Retry!PingReturns(o),
               answer' = [answer EXCEPT ![ti] = o]
        PROVE  Verdict'
    <3>1. ti \in Targets /\ ti' = ti /\ lastErr' = o /\ answer'[ti] = o
      BY <1>2, <2>3 DEF PingStep, Retry!PingReturns
    <3>2. answer' \in [Targets -> Retry!PingOutcomes \cup {"none"}]
      BY <2>3
    <3>3. (pc = "done" <=> result # "none")'
      BY <2>3 DEF Retry!PingReturns, Retry!Return, Retry!PingOutcomes
    <3>4. QED
      BY <1>0, <3>1, <3>2, <3>3
  <2>4. QED
    BY <1>2, <2>1, <2>2, <2>3 DEF PingStep
<1>3. ASSUME NEW o \in Retry!PingOutcomes, Scrape(o) PROVE Verdict'
  <2>1. answer' \in [Targets -> Retry!PingOutcomes \cup {"none"}]
    BY <1>3 DEF Scrape
  <2>2. at' # "ping" /\ UNCHANGED <<pc, result>>
    BY <1>3 DEF Scrape, AfterCollector
  <2>3. QED
    BY <1>0, <2>1, <2>2
<1>4. CASE PingFailed \/ PingSucceeded \/ Collect \/ EvaluateAlerts \/ PollReturns
           \/ SelectTick \/ SelectDone \/ Tick \/ Cancel \/ UNCHANGED vars
  <2>1. /\ UNCHANGED <<answer, lastErr, result, pc>>
        /\ at' = "ping" => at = "ping" /\ ti' = ti
    BY <1>4 DEF PingFailed, PingSucceeded, NextTarget, Collect, AfterCollector,
                EvaluateAlerts, PollReturns, SelectTick, SelectDone, Tick, Cancel,
                Retry!Cancel, Retry!call, vars
  <2>2. QED
    BY <1>0, <2>1
<1>5. QED
  BY <1>1, <1>2, <1>3, <1>4 DEF Next, Poll

\* Marking a target down, or up, by what was last heard of it: from here on it
\* speaks for its label.
LEMMA MarkGauge ==
  ASSUME IInv, ti \in Targets, at = "ping" \/ (at = "collect" /\ ci = 1),
         \/ MarkDown /\ (answer'[ti] = "err" \/ cancelled')
         \/ MarkUp /\ answer'[ti] = "nil",
         cancelled => cancelled',
         \A t \in Targets : t # ti => answer'[t] = answer[t],
         \A t \in Targets : Settled(t)' <=> t <= ti
  PROVE  Gauge'
<1> USE DEF IInv, Gauge
<1>0. Targets' = Targets
  BY DEF Targets
<1>1. up' \in [Instances -> {"absent", "0", "1"}]
  BY DEF MarkDown, MarkUp
<1>2. \A t \in Targets : Settled(t) <=> t < ti
  BY Numbers DEF Settled, Places
<1>3. ASSUME NEW t \in Targets, SettledLast(t)', InstanceOf[t] = Instance
      PROVE  t = ti
  <2>a. ti \in {u \in Targets : InstanceOf[u] = InstanceOf[t]}
    BY <1>3 DEF Instance
  <2>b. ti <= ti
    BY Numbers
  <2>1. IF t <= ti THEN \A u \in Targets : InstanceOf[u] = InstanceOf[t] => (u <= ti => u <= t)
                   ELSE \A u \in Targets : InstanceOf[u] = InstanceOf[t] => ~(u <= ti) /\ u <= t
    BY <1>0, <1>3 DEF SettledLast, Namesakes
  <2>2. t <= ti /\ ti <= t
    BY <2>a, <2>b, <2>1
  <2>3. QED
    BY <2>2, Numbers
<1>4. ASSUME NEW t \in Targets, SettledLast(t)', InstanceOf[t] # Instance
      PROVE  /\ up'[InstanceOf[t]] = "1" => answer'[t] = "nil"
             /\ up'[InstanceOf[t]] = "0" => answer'[t] = "err" \/ cancelled'
  <2>1. \A u \in Namesakes(t) : u # ti /\ (Settled(u)' <=> Settled(u))
    BY <1>2, <1>4, Numbers DEF Namesakes, Instance
  <2>2. t \in Namesakes(t)
    BY DEF Namesakes
  <2>3. SettledLast(t) /\ ~Undecided(InstanceOf[t])
    BY <1>0, <1>4, <2>1, <2>2 DEF SettledLast, Undecided, Namesakes
  <2>4. up'[InstanceOf[t]] = up[InstanceOf[t]] /\ answer'[t] = answer[t]
    BY <1>4, <2>1, <2>2, Labels DEF MarkDown, MarkUp
  <2>5. QED
    BY <2>3, <2>4
<1>5. /\ up'[Instance] = "1" => answer'[ti] = "nil"
      /\ up'[Instance] = "0" => answer'[ti] = "err" \/ cancelled'
  BY Labels DEF MarkDown, MarkUp, Instance
<1>6. QED
  BY <1>0, <1>1, <1>3, <1>4, <1>5 DEF Instance

LEMMA MarkCounter ==
  ASSUME IInv, ti \in Targets, at = "ping" \/ (at = "collect" /\ ci = 1),
         \/ MarkDown /\ (answer'[ti] # "nil" \/ cancelled')
         \/ MarkUp /\ answer'[ti] = "nil",
         cancelled => cancelled',
         \A t \in Targets : t # ti => answer'[t] = answer[t],
         \A t \in Targets : Settled(t)' <=> t <= ti
  PROVE  Counter'
<1> USE DEF IInv, Counter
<1>0. Targets' = Targets /\ Instance \in Instances
  BY Labels DEF Targets, Instance
<1>1. \A t \in Targets : Settled(t) <=> t < ti
  BY Numbers DEF Settled, Places
<1>2. errs' \in [Instances -> Nat]
  BY <1>0 DEF MarkDown, MarkUp
<1>3. ASSUME NEW l \in Instances, l # Instance PROVE Tally(l)'
  <2>1. Through(l)' = Through(l)
    BY <1>0, <1>1, <1>3, Numbers DEF Through, Instance
  <2>2. ti \notin Through(l) /\ Through(l) \subseteq Targets
    BY <1>3 DEF Through, Instance
  <2>3. Failed(l)' = Failed(l)
    BY <2>1, <2>2 DEF Failed
  <2>4. up'[l] = up[l] /\ errs'[l] = errs[l]
    BY <1>3 DEF MarkDown, MarkUp, Gauge
  <2>5. QED
    BY <2>1, <2>3, <2>4 DEF Tally
<1>4. ASSUME NEW l \in Instances, l = Instance PROVE Tally(l)'
  <2> DEFINE T == Through(l)
             F == Failed(l)
  <2>1. /\ T \subseteq Targets /\ F \subseteq Targets
        /\ ti \notin T /\ ti \notin F
    BY <1>1, Numbers DEF Through, Failed
  <2>2. Through(l)' = T \cup {ti}
    BY <1>0, <1>1, <1>4, Numbers DEF Through, Instance
  <2>3. Failed(l)' = IF answer'[ti] = "nil" THEN F ELSE F \cup {ti}
    BY <2>1, <2>2 DEF Failed
  <2>4. /\ Cardinality(T) \in Nat /\ Cardinality(F) \in Nat
        /\ Cardinality(T \cup {ti}) = Cardinality(T) + 1
        /\ Cardinality(F \cup {ti}) = Cardinality(F) + 1
    BY <2>1, Countable, FS_AddElement
  <2>5. /\ errs[l] \in Nat /\ errs[l] <= Cardinality(T) /\ Cardinality(F) <= errs[l]
        /\ ~cancelled => errs[l] = Cardinality(F)
    BY DEF Tally
  <2>6. \/ up'[l] = "0" /\ errs'[l] = errs[l] + 1 /\ (answer'[ti] # "nil" \/ cancelled')
        \/ up'[l] = "1" /\ errs'[l] = errs[l] /\ answer'[ti] = "nil"
    BY <1>4 DEF MarkDown, MarkUp, Gauge
  <2>7. /\ Cardinality(Through(l)') = Cardinality(T) + 1
        /\ \/ answer'[ti] = "nil" /\ Cardinality(Failed(l)') = Cardinality(F)
           \/ answer'[ti] # "nil" /\ Cardinality(Failed(l)') = Cardinality(F) + 1
    BY <2>2, <2>3, <2>4
  <2> HIDE DEF T, F
  <2>8. QED
    BY <2>4, <2>5, <2>6, <2>7 DEF Tally
<1>5. QED
  BY <1>0, <1>2, <1>3, <1>4

\* A step that marks nothing, and settles nothing, leaves both as they were.
LEMMA GaugeKept ==
  ASSUME IInv, UNCHANGED up, cancelled => cancelled',
         \A t \in Targets : /\ Settled(t)' <=> Settled(t)
                            /\ Undecided(InstanceOf[t]) => Undecided(InstanceOf[t])'
                            /\ Undecided(InstanceOf[t]) \/ answer'[t] = answer[t]
  PROVE  Gauge'
<1>1. Targets' = Targets
  BY DEF Targets
<1>2. ASSUME NEW t \in Targets, SettledLast(t)' PROVE SettledLast(t)
  BY <1>1, <1>2 DEF SettledLast, Namesakes
<1>3. up' \in [Instances -> {"absent", "0", "1"}]
  BY DEF IInv, Gauge
<1>4. ASSUME NEW t \in Targets, SettledLast(t)', ~Undecided(InstanceOf[t])'
      PROVE  /\ up'[InstanceOf[t]] = "1" => answer'[t] = "nil"
             /\ up'[InstanceOf[t]] = "0" => answer'[t] = "err" \/ cancelled'
  BY <1>2, <1>4 DEF IInv, Gauge
<1>5. QED
  BY <1>1, <1>3, <1>4 DEF Gauge

LEMMA CounterKept ==
  ASSUME IInv, UNCHANGED <<up, errs>>, cancelled => cancelled',
         \A t \in Targets : /\ Settled(t)' <=> Settled(t)
                            /\ ~Settled(t) \/ answer'[t] = answer[t]
  PROVE  Counter'
<1>1. Targets' = Targets
  BY DEF Targets
<1>2. ASSUME NEW l \in Instances PROVE Through(l)' = Through(l) /\ Failed(l)' = Failed(l)
  BY <1>1 DEF Through, Failed
<1>3. QED
  BY <1>1, <1>2 DEF IInv, Counter, Tally

LEMMA MarkInv == IInv /\ [Next]_vars /\ Places' => Gauge' /\ Counter'
<1> SUFFICES ASSUME IInv, [Next]_vars, Places' PROVE Gauge' /\ Counter'
  OBVIOUS
<1>0. Targets' = Targets
  BY DEF Targets
<1>1. CASE PingFailed
  <2>1. /\ ti \in Targets /\ at = "ping" /\ MarkDown /\ ti' = ti + 1 /\ at' = "next"
        /\ UNCHANGED <<answer, cancelled>>
    BY <1>1 DEF PingFailed, NextTarget, IInv, Places
  <2>2. answer[ti] = "err" \/ cancelled
    BY <1>1 DEF PingFailed, IInv, Verdict, R!IInv, R!HonestVerdict, R!TypeOK, R!PingOutcomes
  <2>3. \A t \in Targets : Settled(t)' <=> t <= ti
    BY <2>1, Numbers DEF Settled
  <2>4. Gauge'
    BY <2>1, <2>2, <2>3, MarkGauge
  <2>5. Counter'
    BY <2>1, <2>2, <2>3, MarkCounter
  <2>6. QED
    BY <2>4, <2>5
<1>2. ASSUME NEW o \in Retry!PingOutcomes, Scrape(o) PROVE Gauge' /\ Counter'
  <2>1. /\ ti \in Targets /\ at = "collect" /\ ci = 1 /\ ti' = ti /\ UNCHANGED cancelled
        /\ answer' = [answer EXCEPT ![ti] = o] /\ o \in Retry!Answers
        /\ \/ o = "nil" /\ MarkUp
           \/ o # "nil" /\ MarkDown
        /\ (at' = "collect" /\ ci' = ci + 1) \/ at' = "evaluate"
    BY <1>2 DEF Scrape, AfterCollector, IInv, Places
  <2>2. /\ answer'[ti] = o
        /\ \A t \in Targets : t # ti => answer'[t] = answer[t]
    BY <2>1 DEF IInv, Verdict
  <2>3. o = "nil" \/ o = "err" \/ cancelled
    BY <2>1 DEF Retry!Answers
  <2>4. \A t \in Targets : Settled(t)' <=> t <= ti
    BY <2>1, Numbers DEF Settled
  <2>5. Gauge'
    BY <2>1, <2>2, <2>3, <2>4, MarkGauge
  <2>6. Counter'
    BY <2>1, <2>2, <2>4, MarkCounter
  <2>7. QED
    BY <2>5, <2>6
<1>3. CASE SelectTick
  <2>1. /\ errs' = [l \in Instances |-> 0] /\ ti' = 1 /\ at' = "next" /\ at = "select"
        /\ UNCHANGED <<up, answer, cancelled>>
    BY <1>3 DEF SelectTick
  <2>2. \A t \in Targets : ~Settled(t)'
    BY <2>1 DEF Settled, Targets
  <2>3. Counter'
    <3>1. ASSUME NEW l \in Instances PROVE Tally(l)'
      <4>1. Through(l)' = {} /\ Failed(l)' = {}
        BY <1>0, <2>2 DEF Through, Failed
      <4>2. errs'[l] = 0 /\ Cardinality({}) = 0
        BY <2>1, FS_EmptySet
      <4>3. QED
        BY <4>1, <4>2 DEF Tally
    <3>2. QED
      BY <2>1, <3>1 DEF Counter
  <2>4. \A t \in Targets : Settled(t)
    BY <2>1, Numbers, EngineAssumption DEF IInv, Places, Settled
  <2>5. ASSUME NEW t \in Targets, SettledLast(t)' PROVE SettledLast(t)
    BY <1>0, <2>2, <2>4, <2>5 DEF SettledLast, Namesakes
  <2>6. Gauge'
    BY <1>0, <2>1, <2>5 DEF IInv, Gauge, Undecided
  <2>7. QED
    BY <2>3, <2>6
<1>4. CASE PingStep
  <2>1. /\ at = "ping" /\ at' = "ping" /\ UNCHANGED <<ti, ci, up, errs, cancelled>>
        /\ ti \in Targets
    BY <1>4 DEF PingStep, gauges, Retry!CheckCtx, Retry!BackoffElapsed,
                Retry!BackoffCancelled, Retry!BeginPing, Retry!PingReturns, IInv, Places
  <2>2. \A t \in Targets : t # ti => answer'[t] = answer[t]
    BY <1>4 DEF PingStep, IInv, Verdict
  <2>3. \A t \in Targets : Settled(t)' <=> Settled(t)
    BY <2>1 DEF Settled
  <2>4. ~Settled(ti)
    BY <2>1, Numbers DEF Settled
  <2>5. \A t \in Targets : /\ Undecided(InstanceOf[t])' <=> Undecided(InstanceOf[t])
                           /\ t = ti => Undecided(InstanceOf[t])
    BY <2>1 DEF Undecided, Instance
  <2>6. Gauge'
    BY <2>1, <2>2, <2>3, <2>5, GaugeKept
  <2>7. Counter'
    BY <2>1, <2>2, <2>3, <2>4, CounterKept
  <2>8. QED
    BY <2>6, <2>7
<1>5. ASSUME UNCHANGED <<up, errs, answer>>, cancelled => cancelled',
             \A t \in Targets : /\ Settled(t)' <=> Settled(t)
                                /\ Undecided(InstanceOf[t]) => Undecided(InstanceOf[t])'
      PROVE  Gauge' /\ Counter'
  BY <1>5, GaugeKept, CounterKept
<1>6. CASE EvaluateAlerts
  <2>1. /\ ti \in Targets /\ at = "evaluate" /\ at' = "next" /\ ti' = ti + 1
        /\ UNCHANGED <<up, errs, answer, cancelled>>
    BY <1>6 DEF EvaluateAlerts, NextTarget, gauges, IInv, Places
  <2>2. \A t \in Targets : Settled(t)' <=> Settled(t)
    BY <2>1, Numbers DEF Settled
  <2>3. QED
    BY <1>5, <2>1, <2>2 DEF Undecided
<1>7. CASE Collect
  <2>1. /\ at = "collect" /\ ci > 1 /\ ti' = ti /\ UNCHANGED <<up, errs, answer, cancelled>>
        /\ (at' = "collect" /\ ci' = ci + 1) \/ at' = "evaluate"
        /\ ci \in Nat
    BY <1>7, Numbers DEF Collect, AfterCollector, gauges, IInv, Places
  <2>2. \A t \in Targets : Settled(t)' <=> Settled(t)
    BY <2>1, Numbers DEF Settled
  <2>3. \A t \in Targets : ~Undecided(InstanceOf[t])
    BY <2>1 DEF Undecided
  <2>4. QED
    BY <1>5, <2>1, <2>2, <2>3
<1>8. CASE PingSucceeded
  <2>1. /\ at = "ping" /\ at' = "collect" /\ ci' = 1 /\ ti' = ti
        /\ UNCHANGED <<up, errs, answer, cancelled>>
    BY <1>8 DEF PingSucceeded, gauges
  <2>2. \A t \in Targets : Settled(t)' <=> Settled(t)
    BY <2>1 DEF Settled
  <2>3. QED
    BY <1>5, <2>1, <2>2 DEF Undecided, Instance
<1>9. CASE StartTarget \/ PollReturns \/ SelectDone \/ Tick \/ Cancel \/ UNCHANGED vars
  <2>1. /\ UNCHANGED <<ti, ci, up, errs, answer>> /\ (cancelled => cancelled')
        /\ UNCHANGED at \/ (at \in {"next", "select"} /\ at' \in {"ping", "select", "stopped"})
    BY <1>9 DEF StartTarget, Retry!Call, PollReturns, SelectDone, Tick, Cancel, Retry!Cancel,
                vars, gauges
  <2>2. \A t \in Targets : Settled(t)' <=> Settled(t)
    BY <2>1 DEF Settled
  <2>3. QED
    BY <1>5, <2>1, <2>2 DEF Undecided, Instance
<1>10. QED
  BY <1>1, <1>2, <1>3, <1>4, <1>6, <1>7, <1>8, <1>9 DEF Next, Poll

LEMMA ContainedInv == IInv /\ [Next]_vars /\ Places' => Contained'
<1> SUFFICES ASSUME IInv, [Next]_vars, Places' PROVE Contained'
  OBVIOUS
<1> USE DEF IInv, Contained
<1>0. Targets' = Targets
  BY DEF Targets
\* Touching the present target is harmless as soon as what is there is its own.
<1>1. ASSUME ti \in Targets, contacted \subseteq {ti}, Touch,
             UNCHANGED <<ti, cancelled>>, ~(at' = "ping" /\ pc' = "call")
      PROVE  Contained'
  BY <1>0, <1>1 DEF Touch
<1>2. ASSUME UNCHANGED contacted, cancelled' = cancelled,
             AtPresent' => AtPresent /\ ti' = ti,
             at' = "ping" /\ pc' = "call" => contacted = {}
      PROVE  Contained'
  BY <1>0, <1>2
<1>3. CASE Collect \/ \E o \in Retry!PingOutcomes : Scrape(o)
  <2>1. /\ ti \in Targets /\ contacted \subseteq {ti} /\ Touch /\ UNCHANGED <<ti, cancelled>>
        /\ at' # "ping"
    BY <1>3 DEF Collect, Scrape, AfterCollector, Places, AtPresent
  <2>2. QED
    BY <1>1, <2>1
<1>4. CASE EvaluateAlerts
  <2>1. /\ ti \in Targets /\ contacted \subseteq {ti} /\ Touch /\ cancelled' = cancelled
        /\ at' = "next"
    BY <1>4 DEF EvaluateAlerts, NextTarget, Places, AtPresent
  <2>2. QED
    BY <1>0, <2>1 DEF Touch, AtPresent
<1>5. CASE PingStep
  <2>1. at = "ping" /\ at' = "ping" /\ ti \in Targets /\ ti' = ti
    BY <1>5 DEF PingStep, Places
  <2>2. CASE Retry!CheckCtx /\ UNCHANGED contacted
    <3>1. /\ cancelled' = cancelled
          /\ \/ pc' = "done" /\ result' = "ctx"
             \/ ~cancelled /\ pc' = "call"
      BY <2>2 DEF Retry!CheckCtx, Retry!Return
    <3>2. QED
      BY <1>2, <2>1, <2>2, <3>1 DEF AtPresent
  <2>3. CASE (Retry!BackoffElapsed \/ Retry!BackoffCancelled) /\ UNCHANGED contacted
    <3>1. /\ cancelled' = cancelled
          /\ \/ pc' = "done" /\ result' = "ctx"
             \/ pc' = "check"
      BY <2>3 DEF Retry!BackoffElapsed, Retry!BackoffCancelled, Retry!Return
    <3>2. QED
      BY <1>2, <2>1, <2>3, <3>1 DEF AtPresent
  <2>4. CASE Retry!BeginPing /\ Touch
    <3>1. cancelled' = cancelled /\ pc = "call" /\ pc' = "ping"
      BY <2>4 DEF Retry!BeginPing
    <3>2. QED
      BY <1>1, <2>1, <2>4, <3>1
  <2>5. ASSUME NEW o \in Retry!PingOutcomes, Retry!PingReturns(o), UNCHANGED contacted
        PROVE  Contained'
    <3>1. cancelled' = cancelled /\ pc = "ping" /\ pc' \in {"done", "backoff"}
      BY <2>5 DEF Retry!PingReturns, Retry!Return
    <3>2. QED
      BY <1>2, <2>1, <2>5, <3>1 DEF AtPresent
  <2>6. QED
    BY <1>5, <2>2, <2>3, <2>4, <2>5 DEF PingStep
<1>6. CASE PingFailed \/ StartTarget \/ PollReturns \/ SelectTick \/ SelectDone
  <2>1. /\ UNCHANGED contacted /\ cancelled' = cancelled /\ ~AtPresent'
        /\ ~(at' = "ping" /\ pc' = "call")
    BY <1>6 DEF PingFailed, NextTarget, StartTarget, Retry!Call, PollReturns, SelectTick,
                SelectDone, AtPresent
  <2>2. QED
    BY <1>2, <2>1
<1>7. CASE PingSucceeded
  BY <1>2, <1>7 DEF PingSucceeded, AtPresent
<1>8. CASE Tick \/ UNCHANGED vars
  BY <1>2, <1>8 DEF Tick, vars, ping, AtPresent
<1>9. CASE Cancel
  <2>1. /\ contacted = {} /\ contacted' = {} /\ cancelled' = TRUE
    BY <1>9 DEF Cancel, Retry!Cancel
  <2>2. QED
    BY <1>0, <2>1
<1>10. QED
  BY <1>3, <1>4, <1>5, <1>6, <1>7, <1>8, <1>9 DEF Next, Poll

THEOREM Invariance == Spec => []IInv
<1>1. IInv /\ [Next]_vars => IInv'
  BY PingInvariant, PlacesInv, VerdictInv, MarkInv, ContainedInv DEF IInv
<1>2. QED
  BY <1>1, InitInv, PTL DEF Spec

\* TypeOK, for any number of targets, collectors and retries.
THEOREM TypeCorrect == Spec => []TypeOK
<1>1. R!TypeOK => Retry!TypeOK
  BY DEF R!TypeOK, Retry!TypeOK, R!PingOutcomes, Retry!PingOutcomes
<1>2. IInv => TypeOK
  BY <1>1 DEF IInv, R!IInv, Places, Verdict, Gauge, Counter, Contained, TypeOK
<1>3. QED
  BY <1>2, Invariance, PTL

-----------------------------------------------------------------------------
\* Of a label the goroutine is not at, a target is settled if it was visited.
LEMMA SettledIsVisited ==
  ASSUME Places, NEW t \in Targets, ~Busy(InstanceOf[t])
  PROVE  Settled(t) <=> t < ti
BY DEF Busy, Settled, Instance

\* However targets share labels, a poll counts each ping that failed, once, and
\* the gauge agrees with the counter.
THEOREM ErrorsAreCounted == Spec => []ErrorsMatchUp
<1>1. IInv => ErrorsMatchUp
  <2> SUFFICES ASSUME IInv, NEW l \in Instances, ~Busy(l), Visited(l) # {}
               PROVE  LET failed == {t \in Visited(l) : answer[t] # "nil"} IN
                      /\ Cardinality(failed) <= errs[l]
                      /\ errs[l] <= Cardinality(Visited(l))
                      /\ ~cancelled => errs[l] = Cardinality(failed)
                      /\ \/ up[l] = "0" /\ errs[l] > 0
                         \/ up[l] = "1" /\ errs[l] < Cardinality(Visited(l))
    BY DEF ErrorsMatchUp
  <2>1. Through(l) = Visited(l)
    BY SettledIsVisited DEF IInv, Through, Visited
  <2>2. Failed(l) = {t \in Visited(l) : answer[t] # "nil"}
    BY <2>1 DEF Failed
  <2>3. Tally(l)
    BY DEF IInv, Counter
  <2>4. QED
    BY <2>1, <2>2, <2>3 DEF Tally
<1>2. QED
  BY <1>1, Invariance, PTL

\* mysql_up is what the last target of its label answered, but for a cancellation.
THEOREM GaugeIsHonest == Spec => []UpIsLastAnswer
<1>1. IInv => UpIsLastAnswer
  <2> SUFFICES ASSUME IInv, NEW t \in Targets, VisitedLast(t), ~Busy(InstanceOf[t])
               PROVE  /\ up[InstanceOf[t]] = "1" => answer[t] = "nil"
                      /\ up[InstanceOf[t]] = "0" => answer[t] = "err" \/ cancelled
    BY DEF UpIsLastAnswer
  <2>1. \A u \in Namesakes(t) : Settled(u) <=> u < ti
    BY SettledIsVisited DEF IInv, Namesakes
  <2>2. \A u \in Namesakes(t) : u < ti <=> ~(ti <= u)
    BY Numbers DEF IInv, Places, Namesakes
  <2>3. t \in Namesakes(t)
    BY DEF Namesakes
  <2>4. SettledLast(t)
    BY <2>1, <2>2, <2>3 DEF VisitedLast, SettledLast
  <2>5. ~Undecided(InstanceOf[t])
    BY DEF Undecided, Busy
  <2>6. QED
    BY <2>4, <2>5 DEF IInv, Gauge
<1>2. QED
  BY <1>1, Invariance, PTL

\* After the cancellation no work is begun on a second target.
THEOREM CancellationIsContained == Spec => []CancelContained
<1>1. IInv => CancelContained
  <2> SUFFICES ASSUME IInv PROVE CancelContained
    OBVIOUS
  <2>1. PICK t \in Targets : contacted \subseteq {t}
    BY DEF IInv, Contained
  <2>2. contacted = {} \/ contacted = {t}
    BY <2>1
  <2>3. Cardinality({}) = 0 /\ Cardinality({t}) = 1
    BY FS_EmptySet, FS_Singleton
  <2>4. QED
    BY <2>2, <2>3 DEF CancelContained
<1>2. QED
  BY <1>1, Invariance, PTL
=============================================================================
