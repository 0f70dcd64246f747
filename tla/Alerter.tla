------------------------------ MODULE Alerter ------------------------------
(***************************************************************************)
(* Alert evaluation and delivery (src/internal/alerter): Evaluate queries  *)
(* a target, works out which of the built-in rules it breaches and fires   *)
(* them one by one; Alerter.Send rate-limits by type and masked DSN before *)
(* it posts to Telegram and to the webhook; Annotator.Annotate rate-limits *)
(* by type and host before it posts to Grafana.                            *)
(*                                                                         *)
(* The engine's goroutine runs one Evaluate at a time; posts are made      *)
(* inline, so everything waits for them.  Time advances only where that    *)
(* goroutine waits: between evaluations, in a query, or in a post, which   *)
(* the HTTP client cuts off after Timeout.  A map of "last sent" times is  *)
(* modelled by what the code computes from it, time.Since(last), which     *)
(* stops counting at Cooldown: an absent entry and an expired one are the  *)
(* same to the code.                                                       *)
(***************************************************************************)
EXTENDS Naturals, FiniteSets

CONSTANTS
  Targets,      \* the DSNs of MYSQL_DSN
  Keys, Masked, \* Masked[t]: MaskDSN of a target's DSN, in Keys
  Hosts, HostOf,\* HostOf[t]: HostFromDSN of a target's DSN, in Hosts
  Watched,      \* the alert types that may occur (bound: at most AlertTypes)
  Cooldown,     \* Config.Cooldown; five minutes in serve
  Timeout,      \* http.Client.Timeout; ten seconds
  MaxDeadlocks, \* bound: deadlocks a server counts
  Setups        \* how the process may be configured: sets of Settings

ReplTypes   == {"repl_stopped", "repl_lag"}
StatusTypes == {"conn_exhaustion", "buffer_pool_pressure", "deadlocks", "history_list"}
AlertTypes  == ReplTypes \cup StatusTypes

\* The order in which Evaluate fires: evaluateReplication first, then the
\* status rules as they are written.
Rank(y) == CASE y = "repl_stopped" -> 1 [] y = "repl_lag" -> 2
             [] y = "conn_exhaustion" -> 3 [] y = "buffer_pool_pressure" -> 4
             [] y = "deadlocks" -> 5 [] y = "history_list" -> 6

\* What the environment sets; "badurl": GRAFANA_URL does not parse.
Channels == {"token", "chat", "webhook", "grafana"}
Settings == Channels \cup {"badurl"}

ASSUME AlerterAssumption ==
  /\ Masked \in [Targets -> Keys] /\ HostOf \in [Targets -> Hosts]
  /\ Watched \subseteq AlertTypes
  /\ Cooldown \in Nat \ {0} /\ Timeout \in Nat \ {0} /\ MaxDeadlocks \in Nat
  /\ Setups \subseteq SUBSET Settings

VARIABLES
  configured, \* the settings of this process, fixed at startup
  pc,         \* what the goroutine is doing
  tgt,        \* Evaluate's target
  stage,      \* the query the rules being fired came from
  todo,       \* the breached rules not yet fired
  cur,        \* the alert being fired
  elapsed,    \* time in the post in progress
  sinceSent,  \* Alerter.lastSent, by masked DSN and type
  sinceAnn,   \* Annotator.alerts.lastSent, by host and type
  deadlocks,  \* Innodb_deadlocks of each server
  seen,       \* the value of it in the status last read
  reported,   \* history: the value of it in a target's last deadlock alert
  sincePost,  \* history: time since a webhook post of a key was begun
  posting     \* history: time this Evaluate has spent in posts

memory == <<sinceSent, sinceAnn, sincePost>>
work   == <<tgt, stage, todo, cur>>
counts == <<deadlocks, seen, reported>>
vars   == <<configured, pc, work, elapsed, memory, counts, posting>>

HasTelegram  == {"token", "chat"} \subseteq configured
HasWebhook   == "webhook" \in configured
HasAlerter   == "token" \in configured \/ HasWebhook    \* New # nil
HasAnnotator == "grafana" \in configured                \* NewAnnotator # nil
UrlParses    == "badurl" \notin configured              \* http.NewRequest succeeds

Posts   == {"telegram", "webhook", "grafana"}
Waiting == {"wait", "repl", "status", "vars"}
Slot    == <<Masked[tgt], cur>>     \* the key of the alert being fired

Init ==
  /\ configured \in Setups
  /\ pc = "wait" /\ tgt \in Targets /\ stage = "status"
  /\ todo = {} /\ cur = "none" /\ elapsed = 0 /\ posting = 0
  /\ sinceSent = [k \in Keys \X AlertTypes |-> Cooldown]
  /\ sinceAnn  = [h \in Hosts \X AlertTypes |-> Cooldown]
  /\ sincePost = [k \in Keys \X AlertTypes |-> Cooldown]
  /\ deadlocks = [t \in Targets |-> 0] /\ seen = 0
  /\ reported = [t \in Targets |-> 0]

(***************************************************************************)
(* Evaluate: the queries.  Whatever a failing query would have shown is    *)
(* not found; a failing status query ends the evaluation, a variables      *)
(* query that fails before it read max_connections only hides the          *)
(* connection rule, and one that fails after it hides nothing.             *)
(***************************************************************************)
Evaluate(t) ==
  /\ pc = "wait" /\ (HasAlerter \/ HasAnnotator)
  /\ pc' = "repl" /\ tgt' = t /\ posting' = 0
  /\ UNCHANGED <<configured, stage, todo, cur, elapsed, memory, counts>>

QueryReplication(found) ==
  /\ pc = "repl"
  /\ pc' = "fire" /\ stage' = "repl" /\ todo' = found
  /\ UNCHANGED <<configured, tgt, cur, elapsed, memory, counts, posting>>

\* Innodb_deadlocks is cumulative: the rule holds from the first one on.
DeadlockRule == {y \in Watched : y = "deadlocks" /\ deadlocks[tgt] > 0}

QueryStatus(found) ==
  /\ pc = "status"
  /\ pc' = "vars" /\ todo' = found \cup DeadlockRule
  /\ seen' = deadlocks[tgt]
  /\ UNCHANGED <<configured, tgt, stage, cur, elapsed, memory, deadlocks, reported, posting>>

QueryStatusFails ==
  /\ pc = "status" /\ pc' = "wait"
  /\ UNCHANGED <<configured, work, elapsed, memory, counts, posting>>

\* read: max_connections was read, whether or not the stream broke after it.
QueryVars(read) ==
  /\ pc = "vars"
  /\ pc' = "fire" /\ stage' = "status"
  /\ todo' = IF read THEN todo ELSE todo \ {"conn_exhaustion"}
  /\ UNCHANGED <<configured, tgt, cur, elapsed, memory, counts, posting>>

EndOfRules ==
  /\ pc = "fire" /\ todo = {}
  /\ pc' = IF stage = "repl" THEN "status" ELSE "wait"
  /\ UNCHANGED <<configured, work, elapsed, memory, counts, posting>>

(***************************************************************************)
(* fire: Alerter.Send, then Annotator.Annotate.                            *)
(***************************************************************************)
First(y) == y \in todo /\ \A z \in todo : Rank(y) <= Rank(z)

\* Mutant: the cooldown ends one unit early.
CoolingDownLess(key) == sinceSent[key] + 1 < Cooldown

CoolingDown(key) == sinceSent[key] < Cooldown
Record(key)      == sinceSent' = [sinceSent EXCEPT ![key] = 0]

\* The posts Send makes, in order: "annotate" is where it returns.
BeginTelegram == pc' = "telegram" /\ UNCHANGED sincePost
BeginWebhook(key) == pc' = "webhook" /\ sincePost' = [sincePost EXCEPT ![key] = 0]
SendReturns == pc' = "annotate" /\ UNCHANGED sincePost

\* Mutant: the webhook as the alternative to Telegram (else if).
EitherChannel(key) == IF HasWebhook /\ ~HasTelegram THEN BeginWebhook(key) ELSE SendReturns

AfterTelegram(key) == IF HasWebhook THEN BeginWebhook(key) ELSE SendReturns
AfterRecord(key) == IF HasTelegram THEN BeginTelegram ELSE AfterTelegram(key)

Report(y) ==
  reported' = IF y = "deadlocks" THEN [reported EXCEPT ![tgt] = seen] ELSE reported

\* Mutant: a suppressed alert starts the cooldown afresh.
SuppressAndRecord(key) == SendReturns /\ Record(key) /\ UNCHANGED reported

Suppress(key) == SendReturns /\ UNCHANGED <<sinceSent, reported>>

Send(y) ==
  /\ pc = "fire" /\ First(y)
  /\ todo' = todo \ {y} /\ cur' = y
  /\ LET key == <<Masked[tgt], y>>
     IN  \/ /\ HasAlerter /\ ~CoolingDown(key)
            /\ Record(key) /\ AfterRecord(key) /\ Report(y)
         \/ (~HasAlerter \/ CoolingDown(key)) /\ Suppress(key)
  /\ UNCHANGED <<configured, tgt, stage, elapsed, sinceAnn, deadlocks, seen, posting>>

\* A post returns, with an answer or an error: neither is looked at.
TelegramReturns ==
  /\ pc = "telegram" /\ elapsed' = 0
  /\ AfterTelegram(Slot)
  /\ UNCHANGED <<configured, work, sinceSent, sinceAnn, counts, posting>>

WebhookReturns ==
  /\ pc = "webhook" /\ elapsed' = 0
  /\ SendReturns
  /\ UNCHANGED <<configured, work, sinceSent, sinceAnn, counts, posting>>

FireReturns == pc' = "fire" /\ cur' = "none"

\* Mutant: a suppressed annotation starts the cooldown afresh.
SkipAndRecord(key) == FireReturns /\ sinceAnn' = [sinceAnn EXCEPT ![key] = 0]

SkipAnnotation(key) == FireReturns /\ UNCHANGED sinceAnn

\* The record stands before the request is made, and stays when that fails.
Request == IF UrlParses THEN pc' = "grafana" /\ UNCHANGED cur ELSE FireReturns

Annotate ==
  /\ pc = "annotate"
  /\ LET key == <<HostOf[tgt], cur>>
     IN  \/ /\ HasAnnotator /\ sinceAnn[key] >= Cooldown
            /\ sinceAnn' = [sinceAnn EXCEPT ![key] = 0]
            /\ Request
         \/ (~HasAnnotator \/ sinceAnn[key] < Cooldown) /\ SkipAnnotation(key)
  /\ UNCHANGED <<configured, tgt, stage, todo, elapsed, sinceSent, sincePost, counts, posting>>

GrafanaReturns ==
  /\ pc = "grafana" /\ elapsed' = 0
  /\ FireReturns
  /\ UNCHANGED <<configured, tgt, stage, todo, memory, counts, posting>>

(***************************************************************************)
(* The environment: time, and the servers' deadlock counters.              *)
(***************************************************************************)
Older(age) == [k \in DOMAIN age |-> IF age[k] < Cooldown THEN age[k] + 1 ELSE Cooldown]

\* Mutant: an HTTP client without a timeout.
NoTimeout == pc \in Waiting \cup Posts

MayTick == pc \in Waiting \/ (pc \in Posts /\ elapsed < Timeout)
InPost  == IF pc \in Posts THEN 1 ELSE 0

Tick ==
  /\ MayTick
  /\ elapsed' = elapsed + InPost /\ posting' = posting + InPost
  /\ sinceSent' = Older(sinceSent) /\ sinceAnn' = Older(sinceAnn)
  /\ sincePost' = Older(sincePost)
  /\ UNCHANGED <<configured, pc, work, counts>>

Deadlock(t) ==
  /\ "deadlocks" \in Watched /\ deadlocks[t] < MaxDeadlocks
  /\ deadlocks' = [deadlocks EXCEPT ![t] = @ + 1]
  /\ UNCHANGED <<configured, pc, work, elapsed, memory, seen, reported, posting>>

Deliver ==
  \/ \E y \in Watched : Send(y)
  \/ TelegramReturns \/ WebhookReturns \/ Annotate \/ GrafanaReturns
  \/ EndOfRules

Next ==
  \/ Deliver
  \/ \E t \in Targets : Evaluate(t) \/ Deadlock(t)
  \/ \E found \in SUBSET (Watched \cap ReplTypes) : QueryReplication(found)
  \/ \E found \in SUBSET ((Watched \cap StatusTypes) \ {"deadlocks"}) : QueryStatus(found)
  \/ QueryStatusFails
  \/ \E read \in BOOLEAN : QueryVars(read)
  \/ Tick

Spec == Init /\ [][Next]_vars

(***************************************************************************)
(* Fairness: the goroutine runs and a post ends, at the latest by its      *)
(* timeout; time passes again and again (the poll loop waits for its       *)
(* ticker).  No query is assumed to answer: none carries a deadline.       *)
(***************************************************************************)
FairSpec == Spec /\ WF_vars(Deliver) /\ SF_vars(Tick)

(***************************************************************************)
(* Properties.                                                             *)
(***************************************************************************)
Slots == Keys \X AlertTypes
Notes == Hosts \X AlertTypes

TypeOK ==
  /\ configured \in Setups
  /\ pc \in Waiting \cup Posts \cup {"fire", "annotate"}
  /\ tgt \in Targets /\ stage \in {"repl", "status"}
  /\ todo \subseteq Watched
  /\ cur \in AlertTypes \cup {"none"}
  /\ pc \in Posts \cup {"annotate"} => cur \in AlertTypes
  /\ elapsed \in 0..Timeout
  /\ sinceSent \in [Slots -> 0..Cooldown]
  /\ sinceAnn  \in [Notes -> 0..Cooldown]
  /\ sincePost \in [Slots -> 0..Cooldown]
  /\ deadlocks \in [Targets -> Nat] /\ reported \in [Targets -> Nat] /\ seen \in Nat
  /\ posting \in Nat

Sending(key) == pc = "telegram" /\ key = Slot

\* lastSent is written before anything is posted, so silence must not rest on
\* a record alone: outside the window in which Send is still at Telegram,
\* every record was followed by a webhook post, at most Timeout later.
RecordsArePosted ==
  HasWebhook =>
    \A key \in Slots :
      \/ Sending(key)
      \/ sincePost[key] <= sinceSent[key] /\ sinceSent[key] <= sincePost[key] + Timeout

\* "cooldown/dedup to prevent alert storms" (README), as the receiver of the
\* webhook sees it: a slow Telegram post moves a webhook post by up to Timeout,
\* so two posts of one key are only Cooldown - Timeout apart, and never closer.
WebhookGap == IF Cooldown > Timeout THEN Cooldown - Timeout ELSE 0
Capped(n) == IF n < WebhookGap THEN n ELSE WebhookGap
Webhook == INSTANCE RateLimit
             WITH Keys <- Slots, MinGap <- WebhookGap,
                  age <- [key \in Slots |-> Capped(sincePost[key])]
WebhookSpacing == Webhook!Spec

\* Delivery is synchronous: the rules one evaluation finds hold up every
\* other target, for three timeouts each at the most.
PostingBounded == posting <= 3 * Timeout * Cardinality(Watched)

\* The cooldown postpones and never silences: a rule found breached again and
\* again is posted again and again, on each channel that is set up, whatever
\* the other rules and the other targets that share its key do.  (A Grafana URL
\* that does not parse is recorded for, and never posted to.)
Found(target, y) == pc = "fire" /\ tgt \in target /\ y \in todo
KeyTargets(k)  == {t \in Targets : Masked[t] = k}
HostTargets(h) == {t \in Targets : HostOf[t] = h}
WebhookReminds ==
  \A key \in Slots :
    HasWebhook /\ []<>Found(KeyTargets(key[1]), key[2]) => []<>(pc = "webhook" /\ key = Slot)
GrafanaReminds ==
  \A note \in Notes :
    HasAnnotator /\ UrlParses /\ []<>Found(HostTargets(note[1]), note[2])
      => []<>(pc = "grafana" /\ note = <<HostOf[tgt], cur>>)

\* The comment in Evaluate: a deadlock alerts "once via cooldown", although
\* the counter stays above zero.
OneAlertPerDeadlock ==
  [][\A t \in Targets :
       (pc = "fire" /\ tgt = t /\ cur' = "deadlocks" /\ sinceSent' # sinceSent)
         => seen > reported[t]]_vars
=============================================================================
