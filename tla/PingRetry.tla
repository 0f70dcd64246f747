----------------------------- MODULE PingRetry -----------------------------
(***************************************************************************)
(* PingWithRetry (src/internal/engine/retry.go): the bounded retry with    *)
(* exponential backoff that decides, once per target and poll, whether a   *)
(* MySQL server counts as reachable.                                       *)
(*                                                                         *)
(* One call runs at a time, made again and again by the poll loop under    *)
(* one context, which the environment may cancel at any moment: between    *)
(* the ctx.Err() check and the ping, during the ping, or during the wait.  *)
(* A duration is counted in units of the first backoff (500 ms).           *)
(***************************************************************************)
EXTENDS Naturals

CONSTANT MaxRetries     \* the argument maxRetries; engine.go passes 3

ASSUME MaxRetriesAssumption == MaxRetries \in Nat

VARIABLES
  pc,         \* where the call stands
  attempt,    \* the loop variable
  backoff,    \* the next wait
  lastErr,    \* what the last ping returned, "none" before the first
  result,     \* what the call returned
  cancelled,  \* ctx.Err() # nil
  pings,      \* history: pings begun in this call
  waited,     \* history: time this call spent in complete backoffs
  late        \* history: pings begun, in any call, after the cancellation

call == <<pc, attempt, backoff, lastErr, result, pings, waited>>
vars == <<call, cancelled, late>>

\* What PingContext returns: success, the server's error, or (only once the
\* context is cancelled) the context's error.
PingOutcomes == {"nil", "err", "ctx"}
Answers == IF cancelled THEN PingOutcomes ELSE {"nil", "err"}

Init ==
  /\ pc = "idle" /\ attempt = 0 /\ backoff = 1
  /\ lastErr = "none" /\ result = "none"
  /\ cancelled = FALSE
  /\ pings = 0 /\ waited = 0 /\ late = 0

(***************************************************************************)
(* The steps of the call.                                                  *)
(***************************************************************************)
Return(r) == pc' = "done" /\ result' = r

Call ==
  /\ pc \in {"idle", "done"}
  /\ pc' = "check" /\ attempt' = 0 /\ backoff' = 1
  /\ lastErr' = "none" /\ result' = "none"
  /\ pings' = 0 /\ waited' = 0
  /\ UNCHANGED <<cancelled, late>>

\* Mutant: the context is not looked at before the ping.
UncheckedCtx ==
  /\ pc = "check" /\ pc' = "call"
  /\ UNCHANGED <<attempt, backoff, lastErr, result, pings, waited, cancelled, late>>

CheckCtx ==
  /\ pc = "check"
  /\ \/ cancelled /\ Return("ctx")
     \/ ~cancelled /\ pc' = "call" /\ UNCHANGED result
  /\ UNCHANGED <<attempt, backoff, lastErr, pings, waited, cancelled, late>>

BeginPing ==
  /\ pc = "call"
  /\ pc' = "ping" /\ pings' = pings + 1
  /\ late' = IF cancelled THEN late + 1 ELSE late
  /\ UNCHANGED <<attempt, backoff, lastErr, result, waited, cancelled>>

\* Mutants: one attempt too many, and one too few.
OneMore == attempt <= MaxRetries
OneLess == attempt + 1 < MaxRetries

MayRetry == attempt < MaxRetries

PingReturns(o) ==
  /\ pc = "ping" /\ o \in Answers
  /\ lastErr' = o
  /\ \/ o = "nil" /\ Return("nil")
     \/ o # "nil" /\ MayRetry /\ pc' = "backoff" /\ UNCHANGED result
     \/ o # "nil" /\ ~MayRetry /\ Return(o)
  /\ UNCHANGED <<attempt, backoff, pings, waited, cancelled, late>>

\* Mutant: the wait grows by one unit instead of doubling.
Linear == backoff + 1

NextBackoff == 2 * backoff

\* The timer's case of the select; Go picks either case when both are ready.
BackoffElapsed ==
  /\ pc = "backoff"
  /\ waited' = waited + backoff /\ backoff' = NextBackoff
  /\ attempt' = attempt + 1 /\ pc' = "check"
  /\ UNCHANGED <<lastErr, result, pings, cancelled, late>>

BackoffCancelled ==
  /\ pc = "backoff" /\ cancelled
  /\ Return("ctx")
  /\ UNCHANGED <<attempt, backoff, lastErr, pings, waited, cancelled, late>>

Cancel ==
  /\ ~cancelled /\ cancelled' = TRUE
  /\ UNCHANGED <<call, late>>

Step ==
  \/ CheckCtx \/ BeginPing \/ BackoffElapsed \/ BackoffCancelled
  \/ \E o \in PingOutcomes : PingReturns(o)

Next == Call \/ Step \/ Cancel

Spec == Init /\ [][Next]_vars

(***************************************************************************)
(* Fairness: the goroutine keeps running and the timer fires.  A ping is   *)
(* only sure to return once the context is cancelled: PingContext carries  *)
(* no deadline of its own.                                                 *)
(***************************************************************************)
\* Mutant: Ping() instead of PingContext(ctx), which nothing interrupts.
PingWithoutContext == FALSE

PingCanBeAwaited == cancelled /\ \E o \in PingOutcomes : PingReturns(o)

Fairness ==
  /\ WF_vars(CheckCtx) /\ WF_vars(BeginPing)
  /\ WF_vars(BackoffElapsed)
  /\ WF_vars(PingCanBeAwaited)

FairSpec == Spec /\ Fairness

(***************************************************************************)
(* Properties.                                                             *)
(***************************************************************************)
TypeOK ==
  /\ pc \in {"idle", "check", "call", "ping", "backoff", "done"}
  /\ attempt \in 0..MaxRetries
  /\ backoff \in Nat /\ backoff >= 1
  /\ lastErr \in PingOutcomes \cup {"none"}
  /\ result \in PingOutcomes \cup {"none"}
  /\ cancelled \in BOOLEAN
  /\ pings \in 0..(MaxRetries + 1)
  /\ waited \in Nat /\ late \in Nat

\* The verdict is never better or worse than what was seen: a call that
\* returns nil saw its last ping succeed; one that returns a server error
\* used up all its attempts, and waited the whole backoff budget, without
\* seeing one success; and only a cancelled context makes it give up early.
HonestVerdict ==
  /\ result = "nil" => lastErr = "nil"
  /\ result = "err" =>
       /\ lastErr = "err" /\ pings = MaxRetries + 1
       /\ waited + 1 = backoff /\ attempt = MaxRetries
  /\ result = "ctx" => cancelled /\ lastErr # "nil"

\* However the cancellation interleaves with the calls of a poll, at most one
\* ping is begun after it: the one whose ctx.Err() check came just before.
AtMostOneLatePing == late <= 1

\* A retry never comes early: before ping number n the call has waited
\* 1 + 2 + ... + 2^(n-2) units.
BackoffDoubles == pc # "idle" => backoff = 2^attempt /\ waited + 1 = backoff

\* Cancelling the context ends the call in progress, whatever the server does.
CancelEndsCall == cancelled ~> pc \in {"idle", "done"}
=============================================================================
