--------------------------- MODULE AlerterProofs ---------------------------
(***************************************************************************)
(* Proofs about Alerter, for every set of targets, DSNs, watched rules and *)
(* channels, every cooldown and every client timeout: typing, and the      *)
(* spacing of webhook posts, as a refinement of RateLimit.                 *)
(***************************************************************************)
EXTENDS Alerter, FiniteSetTheorems, TLAPS

\* While Send waits for Telegram the record is as old as that post, and the
\* key's last webhook post is already far enough in the past.
InFlight ==
  /\ pc \notin Posts => elapsed = 0
  /\ pc = "telegram" => sinceSent[Slot] <= elapsed
  /\ pc = "telegram" /\ HasWebhook => sincePost[Slot] >= WebhookGap

IInv == TypeOK /\ InFlight /\ RecordsArePosted

\* An age counts up to Cooldown.
LEMMA OlderType ==
  ASSUME NEW S, NEW f \in [S -> 0..Cooldown]
  PROVE  /\ Older(f) \in [S -> 0..Cooldown]
         /\ \A k \in S : Older(f)[k] = IF f[k] < Cooldown THEN f[k] + 1 ELSE Cooldown
BY AlerterAssumption DEF Older

\* The key of the alert being fired is one of the alerter's keys, and of the
\* annotator's.
LEMMA SlotType ==
  ASSUME TypeOK, NEW y \in AlertTypes
  PROVE  <<Masked[tgt], y>> \in Slots /\ <<HostOf[tgt], y>> \in Notes
BY AlerterAssumption DEF TypeOK, Slots, Notes

LEMMA GapType == WebhookGap \in Nat /\ WebhookGap <= Cooldown
BY AlerterAssumption DEF WebhookGap

-----------------------------------------------------------------------------
\* TypeOK is inductive.
LEMMA InitType == Init => TypeOK
<1> SUFFICES ASSUME Init PROVE TypeOK
  OBVIOUS
<1>1. /\ sinceSent \in [Slots -> 0..Cooldown] /\ sinceAnn \in [Notes -> 0..Cooldown]
      /\ sincePost \in [Slots -> 0..Cooldown]
  BY AlerterAssumption DEF Init, Slots, Notes
<1>2. elapsed \in 0..Timeout /\ posting \in Nat
  BY AlerterAssumption DEF Init
<1>3. deadlocks \in [Targets -> Nat] /\ reported \in [Targets -> Nat] /\ seen \in Nat
  BY DEF Init
<1>4. QED
  BY <1>1, <1>2, <1>3 DEF Init, TypeOK, Waiting, Posts

LEMMA NextType == TypeOK /\ [Next]_vars => TypeOK'
<1> SUFFICES ASSUME TypeOK, [Next]_vars PROVE TypeOK'
  OBVIOUS
<1> USE AlerterAssumption DEF TypeOK, memory, work, counts, Posts, Waiting
<1>1. ASSUME NEW y \in Watched, Send(y) PROVE TypeOK'
  <2>1. y \in AlertTypes /\ <<Masked[tgt], y>> \in Slots
    BY SlotType
  <2>2. PICK key \in Slots :
          /\ key = <<Masked[tgt], y>>
          /\ \/ /\ HasAlerter /\ ~CoolingDown(key)
                /\ Record(key) /\ AfterRecord(key) /\ Report(y)
             \/ (~HasAlerter \/ CoolingDown(key)) /\ Suppress(key)
    BY <1>1, <2>1 DEF Send
  <2>3. sinceSent' \in [Slots -> 0..Cooldown] /\ reported' \in [Targets -> Nat]
    BY <2>2 DEF Record, Report, Suppress
  <2>4. /\ pc' \in {"telegram", "webhook", "annotate"}
        /\ sincePost' \in [Slots -> 0..Cooldown]
    BY <2>2 DEF AfterRecord, AfterTelegram, BeginTelegram, BeginWebhook, SendReturns,
                Suppress
  <2>5. QED
    BY <1>1, <2>1, <2>3, <2>4 DEF Send
<1>2. ASSUME TelegramReturns \/ WebhookReturns PROVE TypeOK'
  <2>1. cur \in AlertTypes /\ Slot \in Slots
    BY <1>2, SlotType DEF TelegramReturns, WebhookReturns, Slot
  <2>2. /\ pc' \in {"webhook", "annotate"}
        /\ sincePost' \in [Slots -> 0..Cooldown]
    BY <1>2, <2>1
       DEF TelegramReturns, WebhookReturns, AfterTelegram, BeginWebhook, SendReturns
  <2>3. QED
    BY <1>2, <2>1, <2>2 DEF TelegramReturns, WebhookReturns
<1>3. CASE Annotate
  <2>1. cur \in AlertTypes /\ <<HostOf[tgt], cur>> \in Notes
    BY <1>3, SlotType DEF Annotate
  <2>2. /\ sinceAnn' \in [Notes -> 0..Cooldown]
        /\ \/ pc' = "grafana" /\ cur' = cur
           \/ pc' = "fire" /\ cur' = "none"
    BY <1>3, <2>1 DEF Annotate, Request, FireReturns, SkipAnnotation
  <2>3. QED
    BY <1>3, <2>1, <2>2 DEF Annotate
<1>4. CASE GrafanaReturns
  BY <1>4 DEF GrafanaReturns, FireReturns
<1>5. CASE EndOfRules
  BY <1>5 DEF EndOfRules
<1>6. ASSUME NEW t \in Targets, Evaluate(t) PROVE TypeOK'
  BY <1>6 DEF Evaluate
<1>7. ASSUME NEW t \in Targets, Deadlock(t) PROVE TypeOK'
  BY <1>7 DEF Deadlock
<1>8. ASSUME NEW found \in SUBSET (Watched \cap ReplTypes), QueryReplication(found)
      PROVE TypeOK'
  BY <1>8 DEF QueryReplication
<1>9. ASSUME NEW found \in SUBSET ((Watched \cap StatusTypes) \ {"deadlocks"}),
             QueryStatus(found)
      PROVE TypeOK'
  BY <1>9 DEF QueryStatus, DeadlockRule
<1>10. CASE QueryStatusFails
  BY <1>10 DEF QueryStatusFails
<1>11. ASSUME NEW read \in BOOLEAN, QueryVars(read) PROVE TypeOK'
  BY <1>11 DEF QueryVars
<1>12. CASE Tick
  <2>1. elapsed' \in 0..Timeout /\ posting' \in Nat
    BY <1>12 DEF Tick, MayTick, InPost
  <2>2. /\ sinceSent' \in [Slots -> 0..Cooldown] /\ sinceAnn' \in [Notes -> 0..Cooldown]
        /\ sincePost' \in [Slots -> 0..Cooldown]
    BY <1>12, OlderType DEF Tick
  <2>3. QED
    BY <1>12, <2>1, <2>2 DEF Tick
<1>13. CASE UNCHANGED vars
  BY <1>13 DEF vars
<1>14. QED
  BY <1>1, <1>2, <1>3, <1>4, <1>5, <1>6, <1>7, <1>8, <1>9, <1>10, <1>11, <1>12, <1>13
     DEF Next, Deliver

\* TypeOK, for every value of the constants.
THEOREM TypeCorrect == Spec => []TypeOK
BY InitType, NextType, PTL DEF Spec

-----------------------------------------------------------------------------
\* The strengthening is inductive too.
LEMMA InitInv == Init => IInv
<1> SUFFICES ASSUME Init PROVE IInv
  OBVIOUS
<1>1. TypeOK
  BY InitType
<1>2. InFlight
  BY DEF Init, InFlight, Posts
<1>3. RecordsArePosted
  BY AlerterAssumption DEF Init, RecordsArePosted, Slots
<1>4. QED
  BY <1>1, <1>2, <1>3 DEF IInv

\* A step that moves no age and stays clear of Telegram keeps the invariant.
Quiet == /\ UNCHANGED <<configured, sinceSent, sincePost>>
         /\ pc # "telegram" /\ pc' # "telegram"
         /\ pc' \notin Posts => elapsed' = 0

LEMMA QuietInv == IInv /\ TypeOK' /\ Quiet => IInv'
<1> SUFFICES ASSUME IInv, TypeOK', Quiet PROVE IInv'
  OBVIOUS
<1>1. HasWebhook' = HasWebhook
  BY DEF Quiet, HasWebhook
<1>2. InFlight'
  BY DEF Quiet, InFlight
<1>3. RecordsArePosted'
  BY <1>1 DEF Quiet, IInv, RecordsArePosted, Sending
<1>4. QED
  BY <1>2, <1>3 DEF IInv

\* Send either suppresses the alert or starts its record and its posts at zero;
\* a key that may be sent again was last posted a WebhookGap ago.
LEMMA SendInv ==
  ASSUME IInv, TypeOK', NEW y \in Watched, Send(y)
  PROVE  IInv'
<1> DEFINE key == <<Masked[tgt], y>>
<1>1. /\ key \in Slots /\ y \in AlertTypes /\ tgt' = tgt /\ cur' = y
      /\ Slot' = key /\ configured' = configured /\ pc = "fire" /\ elapsed' = elapsed
  BY SlotType, AlerterAssumption DEF IInv, TypeOK, Send, Slot
<1>2. HasWebhook' = HasWebhook /\ elapsed' = 0 /\ TypeOK
  BY <1>1 DEF HasWebhook, IInv, InFlight, Posts
<1>3. CASE SendReturns /\ UNCHANGED sinceSent
  <2>1. Quiet
    BY <1>1, <1>2, <1>3 DEF Quiet, SendReturns, Posts
  <2>2. QED
    BY <2>1, QuietInv
<1>4. CASE ~CoolingDown(key) /\ Record(key) /\ AfterRecord(key)
  <2>1. sinceSent[key] = Cooldown /\ sinceSent' = [sinceSent EXCEPT ![key] = 0]
    <3>1. sinceSent[key] \in 0..Cooldown
      BY <1>1, <1>2 DEF TypeOK
    <3>2. ~(sinceSent[key] < Cooldown)
      BY <1>4 DEF CoolingDown
    <3>3. QED
      BY <1>4, <3>1, <3>2, AlerterAssumption DEF Record
  <2>2. HasWebhook => sincePost[key] + Timeout >= Cooldown
    BY <1>1, <2>1 DEF IInv, RecordsArePosted, Sending
  <2>3. CASE BeginTelegram
    <3>1. pc' = "telegram" /\ sincePost' = sincePost
      BY <2>3 DEF BeginTelegram
    <3>2. sinceSent'[key] = 0 /\ sincePost[key] \in Nat
      BY <1>1, <1>2, <2>1, AlerterAssumption DEF TypeOK
    <3>3. HasWebhook => sincePost[key] >= WebhookGap
      BY <2>2, <3>2, AlerterAssumption DEF WebhookGap
    <3>4. InFlight'
      BY <1>1, <1>2, <3>1, <3>2, <3>3 DEF InFlight, WebhookGap, Posts
    <3>5. \A k \in Slots : k # key => sinceSent'[k] = sinceSent[k]
      BY <1>2, <2>1 DEF TypeOK
    <3>6. RecordsArePosted'
      BY <1>1, <1>2, <3>1, <3>5 DEF IInv, RecordsArePosted, Sending
    <3>7. QED
      BY <3>4, <3>6 DEF IInv
  <2>4. CASE ~BeginTelegram
    <3>1. pc' # "telegram" /\ (pc' \in Posts => HasWebhook)
      BY <1>4, <2>4 DEF AfterRecord, AfterTelegram, BeginWebhook, SendReturns, Posts
    <3>2. InFlight'
      BY <1>2, <3>1 DEF InFlight
    <3>3. ASSUME HasWebhook
          PROVE  \A k \in Slots : /\ sincePost'[k] <= sinceSent'[k]
                                  /\ sinceSent'[k] <= sincePost'[k] + Timeout
      <4>1. sincePost' = [sincePost EXCEPT ![key] = 0]
        BY <1>4, <2>4, <3>3 DEF AfterRecord, AfterTelegram, BeginWebhook
      <4>2. QED
        BY <1>1, <1>2, <2>1, <3>3, <4>1, AlerterAssumption
           DEF IInv, TypeOK, RecordsArePosted, Sending
    <3>4. RecordsArePosted'
      BY <1>2, <3>3 DEF RecordsArePosted
    <3>5. QED
      BY <3>2, <3>4 DEF IInv
  <2>5. QED
    BY <2>3, <2>4
<1>5. QED
  BY <1>3, <1>4 DEF Send, Suppress

\* Telegram returns within its timeout, and the webhook follows at once.
LEMMA TelegramInv ==
  ASSUME IInv, TypeOK', TelegramReturns
  PROVE  IInv'
<1>1. /\ Slot \in Slots /\ pc = "telegram" /\ elapsed' = 0
      /\ UNCHANGED <<configured, sinceSent>> /\ TypeOK
  BY SlotType DEF IInv, TypeOK, TelegramReturns, Slot, Posts
<1>2. pc' \in {"webhook", "annotate"} /\ HasWebhook' = HasWebhook
  BY <1>1 DEF TelegramReturns, AfterTelegram, BeginWebhook, SendReturns, HasWebhook
<1>3. InFlight'
  BY <1>1, <1>2 DEF InFlight
<1>4. sinceSent[Slot] <= Timeout
  BY <1>1, AlerterAssumption DEF IInv, InFlight, TypeOK
<1>5. ASSUME HasWebhook
      PROVE  \A k \in Slots : /\ sincePost'[k] <= sinceSent'[k]
                              /\ sinceSent'[k] <= sincePost'[k] + Timeout
  <2>1. sincePost' = [sincePost EXCEPT ![Slot] = 0]
    BY <1>5 DEF TelegramReturns, AfterTelegram, BeginWebhook
  <2>2. \A k \in Slots : k # Slot => /\ sincePost[k] <= sinceSent[k]
                                     /\ sinceSent[k] <= sincePost[k] + Timeout
    BY <1>5 DEF IInv, RecordsArePosted, Sending
  <2>3. QED
    BY <1>1, <1>4, <2>1, <2>2, AlerterAssumption DEF TypeOK
<1>6. RecordsArePosted'
  BY <1>2, <1>5 DEF RecordsArePosted
<1>7. QED
  BY <1>3, <1>6 DEF IInv

\* Time moves all ages alike.
LEMMA TickInv ==
  ASSUME IInv, TypeOK', Tick
  PROVE  IInv'
<1>1. /\ \A k \in Slots : /\ sinceSent[k] \in 0..Cooldown /\ sincePost[k] \in 0..Cooldown
                          /\ sinceSent'[k] = IF sinceSent[k] < Cooldown
                                             THEN sinceSent[k] + 1 ELSE Cooldown
                          /\ sincePost'[k] = IF sincePost[k] < Cooldown
                                             THEN sincePost[k] + 1 ELSE Cooldown
      /\ TypeOK
  BY OlderType DEF IInv, TypeOK, Tick
<1>2. /\ UNCHANGED <<configured, pc, tgt, cur>> /\ Slot' = Slot /\ HasWebhook' = HasWebhook
      /\ pc \notin Posts => elapsed' = elapsed
      /\ pc \in Posts => elapsed' = elapsed + 1
  BY <1>1 DEF Tick, work, InPost, TypeOK, Slot, HasWebhook
<1>3. InFlight'
  <2>1. pc \notin Posts => elapsed' = 0
    BY <1>2 DEF IInv, InFlight
  <2>2. ASSUME pc = "telegram"
        PROVE  sinceSent'[Slot] <= elapsed'
    <3>1. Slot \in Slots /\ sinceSent[Slot] <= elapsed /\ elapsed' = elapsed + 1
      BY <1>1, <1>2, <2>2, SlotType DEF IInv, InFlight, TypeOK, Slot, Posts
    <3>2. QED
      BY <1>1, <3>1, AlerterAssumption DEF TypeOK
  <2>3. ASSUME pc = "telegram", HasWebhook
        PROVE  sincePost'[Slot] >= WebhookGap
    <3>1. Slot \in Slots /\ sincePost[Slot] >= WebhookGap
      BY <1>1, <2>3, SlotType DEF IInv, InFlight, TypeOK, Slot, Posts
    <3>2. QED
      BY <1>1, <3>1, GapType, AlerterAssumption
  <2>4. QED
    BY <1>2, <2>1, <2>2, <2>3 DEF InFlight, WebhookGap
<1>4. RecordsArePosted'
  <2> SUFFICES ASSUME HasWebhook, NEW key \in Slots, ~Sending(key)
               PROVE  /\ sincePost'[key] <= sinceSent'[key]
                      /\ sinceSent'[key] <= sincePost'[key] + Timeout
    BY <1>2 DEF RecordsArePosted, Sending
  <2>1. sincePost[key] <= sinceSent[key] /\ sinceSent[key] <= sincePost[key] + Timeout
    BY DEF IInv, RecordsArePosted
  <2>2. QED
    BY <1>1, <2>1, AlerterAssumption
<1>5. QED
  BY <1>3, <1>4 DEF IInv

LEMMA NextInv == IInv /\ [Next]_vars => IInv'
<1> SUFFICES ASSUME IInv, [Next]_vars PROVE IInv'
  OBVIOUS
<1>1. TypeOK'
  BY NextType DEF IInv
<1>2. ASSUME NEW y \in Watched, Send(y) PROVE IInv'
  BY <1>1, <1>2, SendInv
<1>3. CASE TelegramReturns
  BY <1>1, <1>3, TelegramInv
<1>4. CASE Tick
  BY <1>1, <1>4, TickInv
<1>5. CASE WebhookReturns \/ Annotate \/ GrafanaReturns \/ EndOfRules
  <2>1. Quiet
    BY <1>5 DEF IInv, InFlight, Quiet, WebhookReturns, SendReturns, Annotate,
                Request, GrafanaReturns, FireReturns, SkipAnnotation, EndOfRules, memory, Posts
  <2>2. QED
    BY <1>1, <2>1, QuietInv
<1>6. ASSUME NEW t \in Targets, Evaluate(t) PROVE IInv'
  <2>1. Quiet
    BY <1>6 DEF IInv, InFlight, Quiet, Evaluate, memory, Posts
  <2>2. QED
    BY <1>1, <2>1, QuietInv
<1>7. ASSUME NEW t \in Targets, Deadlock(t) PROVE IInv'
  BY <1>1, <1>7 DEF Deadlock, work, memory, IInv, InFlight, RecordsArePosted, Sending,
                    Slot, HasWebhook, Posts, WebhookGap
<1>8. ASSUME NEW found, QueryReplication(found) \/ QueryStatus(found) PROVE IInv'
  <2>1. Quiet
    BY <1>8 DEF IInv, InFlight, Quiet, QueryReplication, QueryStatus, memory, Posts
  <2>2. QED
    BY <1>1, <2>1, QuietInv
<1>9. ASSUME NEW read \in BOOLEAN, QueryStatusFails \/ QueryVars(read) PROVE IInv'
  <2>1. Quiet
    BY <1>9 DEF IInv, InFlight, Quiet, QueryStatusFails, QueryVars, memory, Posts
  <2>2. QED
    BY <1>1, <2>1, QuietInv
<1>10. CASE UNCHANGED vars
  BY <1>1, <1>10 DEF vars, work, memory, IInv, InFlight, RecordsArePosted, Sending,
                     Slot, HasWebhook, Posts, WebhookGap
<1>11. QED
  BY <1>2, <1>3, <1>4, <1>5, <1>6, <1>7, <1>8, <1>9, <1>10 DEF Next, Deliver

THEOREM Invariance == Spec => []IInv
BY InitInv, NextInv, PTL DEF Spec

\* Every lastSent record outside Send's Telegram window was followed by a
\* webhook post within Timeout.
THEOREM SilenceIsExplained == Spec => []RecordsArePosted
<1>1. IInv => RecordsArePosted
  BY DEF IInv
<1>2. QED
  BY <1>1, Invariance, PTL

-----------------------------------------------------------------------------
(***************************************************************************)
(* The refinement: a webhook post is the limit's Emit, time is its Tick,   *)
(* and every other step a stutter.                                         *)
(***************************************************************************)
Age == [key \in Slots |-> Capped(sincePost[key])]

LEMMA InitLimit == Init => Webhook!Init
<1> SUFFICES ASSUME Init PROVE Webhook!Init
  OBVIOUS
<1>1. \A key \in Slots : Capped(sincePost[key]) = WebhookGap
  BY GapType, AlerterAssumption DEF Init, Slots, Capped
<1>2. QED
  BY <1>1 DEF Webhook!Init

\* Beginning a post of a key whose last one is a WebhookGap old is an Emit.
LEMMA EmitLimit ==
  ASSUME TypeOK, NEW key \in Slots, sincePost[key] >= WebhookGap,
         sincePost' = [sincePost EXCEPT ![key] = 0]
  PROVE  Webhook!Emit(key)
<1>1. Age[key] = WebhookGap
  BY GapType, AlerterAssumption DEF TypeOK, Age, Capped
<1>2. Capped(0) = 0
  BY GapType DEF Capped
<1>3. Age' = [Age EXCEPT ![key] = 0]
  <2>1. Age' = [k \in Slots |-> Capped(sincePost'[k])]
    BY DEF Age, Capped, WebhookGap
  <2>2. \A k \in Slots : sincePost'[k] = IF k = key THEN 0 ELSE sincePost[k]
    BY DEF TypeOK
  <2>3. \A k \in Slots : Capped(sincePost'[k]) = IF k = key THEN 0 ELSE Age[k]
    BY <1>2, <2>2 DEF Age
  <2>4. [Age EXCEPT ![key] = 0] = [k \in Slots |-> IF k = key THEN 0 ELSE Age[k]]
    BY DEF Age
  <2>5. QED
    BY <2>1, <2>3, <2>4
<1>4. QED
  BY <1>1, <1>3 DEF Age, Webhook!Emit, Capped, WebhookGap

\* A step that leaves sincePost alone is a stutter of the limit.
LEMMA StutterLimit == UNCHANGED sincePost => UNCHANGED Age
BY DEF Age, Capped, WebhookGap

LEMMA TickLimit == TypeOK /\ Tick => Webhook!Tick
<1> SUFFICES ASSUME TypeOK, Tick PROVE Webhook!Tick
  OBVIOUS
<1>1. \A k \in Slots : /\ sincePost[k] \in 0..Cooldown
                       /\ sincePost'[k] = IF sincePost[k] < Cooldown
                                          THEN sincePost[k] + 1 ELSE Cooldown
  BY OlderType DEF TypeOK, Tick
<1>2. ASSUME NEW k \in Slots
      PROVE  Capped(sincePost'[k]) = IF Capped(sincePost[k]) < WebhookGap
                                     THEN Capped(sincePost[k]) + 1 ELSE WebhookGap
  BY <1>1, GapType, AlerterAssumption DEF Capped
<1>3. Age' = [k \in Slots |-> IF Age[k] < WebhookGap THEN Age[k] + 1 ELSE WebhookGap]
  <2>1. Age' = [k \in Slots |-> Capped(sincePost'[k])]
    BY DEF Age, Capped, WebhookGap
  <2>2. QED
    BY <1>2, <2>1 DEF Age
<1>4. QED
  BY <1>3 DEF Age, Webhook!Tick, Webhook!Older, Capped, WebhookGap

LEMMA NextLimit == IInv /\ [Next]_vars => [Webhook!Next]_Age
<1> SUFFICES ASSUME IInv, [Next]_vars PROVE Webhook!Next \/ UNCHANGED Age
  OBVIOUS
<1>1. TypeOK
  BY DEF IInv
<1>2. ASSUME NEW y \in Watched, Send(y)
      PROVE  Webhook!Next \/ UNCHANGED Age
  <2> DEFINE key == <<Masked[tgt], y>>
  <2>1. key \in Slots /\ pc = "fire"
    BY <1>1, <1>2, SlotType, AlerterAssumption DEF TypeOK, Send
  <2>2. CASE UNCHANGED sincePost
    BY <2>2, StutterLimit
  <2>3. CASE sincePost' # sincePost
    <3>1. ~CoolingDown(key) /\ BeginWebhook(key) /\ HasWebhook
      BY <1>2, <2>3 DEF Send, AfterRecord, AfterTelegram, BeginTelegram, SendReturns,
                               Suppress
    <3>2. sincePost[key] + Timeout >= Cooldown /\ sincePost[key] \in Nat
      <4> HIDE DEF key
      <4>1. sincePost[key] \in 0..Cooldown /\ sinceSent[key] \in 0..Cooldown
        BY <1>1, <2>1 DEF TypeOK
      <4>2. sinceSent[key] <= sincePost[key] + Timeout /\ ~(sinceSent[key] < Cooldown)
        BY <2>1, <3>1 DEF IInv, RecordsArePosted, Sending, CoolingDown
      <4>3. QED
        BY <4>1, <4>2, AlerterAssumption
    <3>3. sincePost[key] >= WebhookGap
      BY <3>2, AlerterAssumption DEF WebhookGap
    <3>4. Webhook!Emit(key)
      BY <1>1, <2>1, <3>1, <3>3, EmitLimit DEF BeginWebhook
    <3>5. QED
      BY <2>1, <3>4 DEF Webhook!Next
  <2>4. QED
    BY <2>2, <2>3
<1>3. CASE TelegramReturns
  <2>1. Slot \in Slots /\ pc = "telegram"
    BY <1>1, <1>3, SlotType DEF TypeOK, TelegramReturns, Slot, Posts
  <2>2. CASE HasWebhook
    <3>1. sincePost' = [sincePost EXCEPT ![Slot] = 0] /\ sincePost[Slot] >= WebhookGap
      BY <1>3, <2>1, <2>2 DEF TelegramReturns, AfterTelegram, BeginWebhook, IInv, InFlight
    <3>2. Webhook!Emit(Slot)
      BY <1>1, <2>1, <3>1, EmitLimit
    <3>3. QED
      BY <2>1, <3>2 DEF Webhook!Next
  <2>3. CASE ~HasWebhook
    BY <1>3, <2>3, StutterLimit DEF TelegramReturns, AfterTelegram, SendReturns
  <2>4. QED
    BY <2>2, <2>3
<1>4. CASE Tick
  BY <1>1, <1>4, TickLimit DEF Webhook!Next
<1>5. ASSUME \/ WebhookReturns \/ Annotate \/ GrafanaReturns \/ EndOfRules
             \/ QueryStatusFails \/ UNCHANGED vars
             \/ \E t \in Targets : Evaluate(t) \/ Deadlock(t)
             \/ \E found \in SUBSET (Watched \cap ReplTypes) : QueryReplication(found)
             \/ \E found \in SUBSET ((Watched \cap StatusTypes) \ {"deadlocks"}) :
                  QueryStatus(found)
             \/ \E read \in BOOLEAN : QueryVars(read)
      PROVE  UNCHANGED Age
  <2>1. UNCHANGED sincePost
    BY <1>5 DEF WebhookReturns, SendReturns, Annotate, GrafanaReturns, EndOfRules,
                QueryStatusFails, vars, Evaluate, Deadlock, QueryReplication,
                QueryStatus, QueryVars, memory
  <2>2. QED
    BY <2>1, StutterLimit
<1>6. QED
  BY <1>2, <1>3, <1>4, <1>5 DEF Next, Deliver

\* The alerter, seen from the webhook, implements the rate limit: two posts of
\* one key are at least Cooldown - Timeout apart.
THEOREM SpacingHolds == Spec => WebhookSpacing
<1>1. [Webhook!Next]_Age => [Webhook!Next]_([key \in Slots |-> Capped(sincePost[key])])
  BY DEF Age
<1>2. QED
  BY InitLimit, NextLimit, Invariance, <1>1, PTL DEF Spec, WebhookSpacing, Webhook!Spec
-----------------------------------------------------------------------------
(***************************************************************************)
(* How long one evaluation can hold up the poll loop: every rule is fired  *)
(* once, and pays for three posts.                                         *)
(***************************************************************************)
\* The rules this evaluation may still fire.
ToFire == CASE pc = "wait"   -> {}
            [] pc = "repl"   -> Watched
            [] pc = "status" -> Watched \cap StatusTypes
            [] pc \notin Waiting /\ stage = "repl" -> todo \cup (Watched \cap StatusTypes)
            [] OTHER         -> todo

\* A query finds rules of its own kind only, and a rule being fired has been
\* taken off the list.
Sorted ==
  /\ pc = "vars" \/ (pc \notin Waiting /\ stage = "status") => todo \subseteq StatusTypes
  /\ pc \notin Waiting /\ stage = "repl" => todo \subseteq ReplTypes
  /\ pc \in Posts \cup {"annotate"} => cur \in Watched \ ToFire

\* What the posts still to be made for this alert can take.
Behind == CASE pc = "telegram" -> 3 * Timeout - elapsed
            [] pc = "webhook"  -> 2 * Timeout - elapsed
            [] pc = "annotate" -> Timeout
            [] pc = "grafana"  -> Timeout - elapsed
            [] OTHER           -> 0

Fired  == Cardinality(Watched \ ToFire)
Budget == posting + Behind <= 3 * Timeout * Fired

BudgetInv == Sorted /\ Budget

LEMMA RulesFinite == IsFiniteSet(Watched) /\ IsFiniteSet(Watched \ ToFire) /\ Fired \in Nat
<1>1. AlertTypes = {"repl_stopped"} \cup {"repl_lag"} \cup {"conn_exhaustion"}
                   \cup {"buffer_pool_pressure"} \cup {"deadlocks"} \cup {"history_list"}
  BY DEF AlertTypes, ReplTypes, StatusTypes
<1>2. IsFiniteSet(AlertTypes)
  BY <1>1, FS_Singleton, FS_Union
<1>3. IsFiniteSet(Watched)
  BY <1>2, FS_Subset, AlerterAssumption
<1>4. IsFiniteSet(Watched \ ToFire)
  BY <1>3, FS_Subset
<1>5. QED
  BY <1>3, <1>4, FS_CardinalityType DEF Fired

\* A budget of three timeouts a rule.
LEMMA Shares ==
  ASSUME NEW m \in Nat, NEW n \in Nat, m <= n
  PROVE  /\ 3 * Timeout * m \in Nat /\ 3 * Timeout * m <= 3 * Timeout * n
         /\ 3 * Timeout * (m + 1) = 3 * Timeout * m + 3 * Timeout
<1> DEFINE U == 3 * Timeout
<1>1. PICK d \in Nat : n = m + d
  <2>1. n - m \in Nat /\ n = m + (n - m)
    OBVIOUS
  <2>2. QED
    BY <2>1
<1>2. U \in Nat
  BY AlerterAssumption
<1>3. U * (m + d) = U * m + U * d /\ U * (m + 1) = U * m + U /\ U * m \in Nat /\ U * d \in Nat
  BY <1>2
<1>4. U * m <= U * (m + d)
  <2> HIDE DEF U
  <2>1. QED
    BY <1>3
<1>5. QED
  BY <1>1, <1>3, <1>4

\* What the steps below need of sums and of the order.
LEMMA Spent ==
  ASSUME NEW p \in Nat, NEW b \in Int, NEW q \in Nat, NEW c \in Int
  PROVE  /\ q = p /\ c <= b => q + c <= p + b
         /\ \A e \in Nat : q = p /\ b = 0 /\ c <= e => q + c <= p + b + e
OBVIOUS

LEMMA Within ==
  ASSUME NEW s \in Int, NEW r \in Int, NEW u \in Int, NEW v \in Int, r <= s, s <= u, u <= v
  PROVE  r <= v
OBVIOUS

\* A step that leaves fewer rules to fire and makes no post longer.
LEMMA BudgetKept ==
  ASSUME TypeOK, TypeOK', Budget, ToFire' \subseteq ToFire,
         posting' + Behind' <= posting + Behind, Behind \in Int, Behind' \in Int
  PROVE  Budget'
<1>1. Watched \ ToFire \subseteq Watched \ ToFire'
  OBVIOUS
<1>2. IsFiniteSet(Watched \ ToFire') /\ Fired' \in Nat
  BY RulesFinite, FS_Subset, FS_CardinalityType DEF Fired
<1>3. Fired <= Fired' /\ Fired \in Nat
  BY <1>1, <1>2, RulesFinite, FS_Subset DEF Fired
<1>4. /\ 3 * Timeout * Fired <= 3 * Timeout * Fired'
      /\ 3 * Timeout * Fired \in Int /\ 3 * Timeout * Fired' \in Int
  <2>1. PICK m \in Nat : m = Fired
    BY <1>3
  <2>2. PICK n \in Nat : n = Fired'
    BY <1>2
  <2>3. 3 * Timeout * m \in Int /\ 3 * Timeout * n \in Int
    BY AlerterAssumption
  <2>4. m <= n
    BY <1>3, <2>1, <2>2
  <2>5. QED
    BY <2>1, <2>2, <2>3, <2>4, Shares, Zenon
<1>5. posting + Behind \in Int /\ posting' + Behind' \in Int
  BY DEF TypeOK
<1>6. posting + Behind <= 3 * Timeout * Fired
  BY DEF Budget
<1>7. posting' + Behind' <= 3 * Timeout * Fired'
  BY <1>4, <1>5, <1>6, Within, Zenon
<1>8. QED
  BY <1>7 DEF Budget

\* Taking a rule off the list pays for its three posts.
LEMMA BudgetGrows ==
  ASSUME TypeOK, TypeOK', Budget, NEW y \in Watched, y \in ToFire, ToFire' = ToFire \ {y},
         posting' + Behind' <= posting + Behind + 3 * Timeout,
         Behind \in Int, Behind' \in Int
  PROVE  Budget'
<1>1. Watched \ ToFire' = (Watched \ ToFire) \cup {y}
  OBVIOUS
<1>2. Fired' = Fired + 1
  BY <1>1, RulesFinite, FS_AddElement DEF Fired
<1>3. 3 * Timeout * Fired' = 3 * Timeout * Fired + 3 * Timeout /\ 3 * Timeout * Fired \in Nat
  BY <1>2, RulesFinite, Shares, AlerterAssumption
<1>4. posting \in Nat /\ posting' \in Nat /\ 3 * Timeout \in Nat
  BY AlerterAssumption DEF TypeOK
<1>5. QED
  BY <1>3, <1>4 DEF Budget

LEMMA BehindType == TypeOK => Behind \in Int
BY AlerterAssumption DEF TypeOK, Behind

LEMMA BudgetStep == IInv /\ BudgetInv /\ [Next]_vars => BudgetInv'
<1> SUFFICES ASSUME IInv, BudgetInv, [Next]_vars PROVE BudgetInv'
  OBVIOUS
<1>0. TypeOK /\ TypeOK' /\ Behind \in Int /\ Behind' \in Int
  <2>1. TypeOK'
    BY NextType DEF IInv
  <2>2. Behind' \in Int
    BY <2>1, AlerterAssumption DEF TypeOK, Behind
  <2>3. QED
    BY <2>1, <2>2, BehindType DEF IInv
<1>a. ReplTypes \cap StatusTypes = {}
  BY DEF ReplTypes, StatusTypes
<1> USE AlerterAssumption DEF Waiting, Posts, work, memory, counts
<1>1. ASSUME NEW y \in Watched, Send(y) PROVE BudgetInv'
  <2>1. /\ pc = "fire" /\ y \in todo /\ todo' = todo \ {y} /\ cur' = y
        /\ UNCHANGED <<stage, elapsed, posting>>
    BY <1>1 DEF Send, First
  <2>2. pc' \in {"telegram", "webhook", "annotate"} /\ elapsed = 0
    BY <1>1, <2>1 DEF Send, AfterRecord, AfterTelegram, BeginTelegram, BeginWebhook,
                      SendReturns, Suppress, IInv, InFlight
  <2>3. Behind = 0 /\ Behind' <= 3 * Timeout
    BY <2>1, <2>2 DEF Behind
  <2>4. y \in ToFire /\ ToFire' = ToFire \ {y}
    BY <1>0, <1>a, <2>1, <2>2 DEF ToFire, BudgetInv, Sorted, TypeOK
  <2>5. Sorted'
    BY <2>1, <2>2, <2>4 DEF BudgetInv, Sorted
  <2>6. posting' + Behind' <= posting + Behind + 3 * Timeout
    <3>1. posting \in Nat /\ posting' \in Nat /\ posting' = posting /\ 3 * Timeout \in Nat
      BY <1>0, <2>1 DEF TypeOK
    <3>2. QED
      BY <1>0, <2>3, <3>1, Spent, Zenon
  <2>7. Budget'
    BY <1>0, <2>4, <2>6, BudgetGrows DEF BudgetInv
  <2>8. QED
    BY <2>5, <2>7 DEF BudgetInv
<1>2. CASE TelegramReturns \/ WebhookReturns \/ Annotate \/ GrafanaReturns
  <2>1. /\ pc \in Posts \cup {"annotate"} /\ pc' \in Posts \cup {"annotate", "fire"}
        /\ UNCHANGED <<stage, todo, posting>>
        /\ pc' # "fire" => cur' = cur
    BY <1>2 DEF TelegramReturns, AfterTelegram, BeginWebhook, WebhookReturns, SendReturns,
                Annotate, Request, SkipAnnotation, GrafanaReturns, FireReturns
  <2>2. ToFire' = ToFire
    BY <2>1 DEF ToFire
  <2>3. Sorted'
    BY <2>1, <2>2 DEF BudgetInv, Sorted
  <2>4. elapsed \in 0..Timeout /\ (pc = "annotate" => elapsed' = 0)
    BY <1>0, <1>2 DEF TypeOK, IInv, InFlight, TelegramReturns, WebhookReturns, Annotate,
                      GrafanaReturns
  <2>5. Behind' <= Behind
    <3>1. CASE TelegramReturns
      BY <2>4, <3>1 DEF TelegramReturns, AfterTelegram, BeginWebhook, SendReturns, Behind
    <3>2. CASE WebhookReturns
      BY <2>4, <3>2 DEF WebhookReturns, SendReturns, Behind
    <3>3. CASE Annotate
      BY <2>4, <3>3 DEF Annotate, Request, SkipAnnotation, FireReturns, Behind
    <3>4. CASE GrafanaReturns
      BY <2>4, <3>4 DEF GrafanaReturns, FireReturns, Behind
    <3>5. QED
      BY <1>2, <3>1, <3>2, <3>3, <3>4
  <2>6. posting' + Behind' <= posting + Behind
    <3>1. posting \in Nat /\ posting' \in Nat /\ posting' = posting
      BY <1>0, <2>1 DEF TypeOK
    <3>2. QED
      BY <1>0, <2>5, <3>1, Spent, Zenon
  <2>7. Budget'
    BY <1>0, <2>2, <2>6, BudgetKept DEF BudgetInv
  <2>8. QED
    BY <2>3, <2>7 DEF BudgetInv
<1>3. ASSUME UNCHANGED posting, Behind = 0, Behind' = 0, ToFire' \subseteq ToFire, Sorted'
      PROVE  BudgetInv'
  <2>1. posting' + Behind' <= posting + Behind
    BY <1>0, <1>3 DEF TypeOK
  <2>2. QED
    BY <1>0, <1>3, <2>1, BudgetKept DEF BudgetInv
<1>4. ASSUME \/ EndOfRules \/ QueryStatusFails
             \/ \E found \in SUBSET (Watched \cap ReplTypes) : QueryReplication(found)
             \/ \E found \in SUBSET ((Watched \cap StatusTypes) \ {"deadlocks"}) :
                  QueryStatus(found)
             \/ \E read \in BOOLEAN : QueryVars(read)
      PROVE  BudgetInv'
  <2>1. /\ UNCHANGED posting /\ pc \in {"fire", "status", "repl", "vars"}
        /\ pc' \in {"fire", "status", "wait", "vars"}
    BY <1>4 DEF EndOfRules, QueryStatusFails, QueryReplication, QueryStatus, QueryVars
  <2>2. Behind = 0 /\ Behind' = 0
    BY <2>1 DEF Behind
  <2>3. ToFire' \subseteq ToFire /\ Sorted'
    <3>1. CASE EndOfRules
      BY <1>0, <3>1 DEF EndOfRules, ToFire, Sorted, TypeOK
    <3>2. CASE QueryStatusFails
      BY <3>2 DEF QueryStatusFails, ToFire, Sorted
    <3>3. ASSUME NEW found \in SUBSET (Watched \cap ReplTypes), QueryReplication(found)
          PROVE  ToFire' \subseteq ToFire /\ Sorted'
      BY <3>3 DEF QueryReplication, ToFire, Sorted
    <3>4. ASSUME NEW found \in SUBSET ((Watched \cap StatusTypes) \ {"deadlocks"}),
                 QueryStatus(found)
          PROVE  ToFire' \subseteq ToFire /\ Sorted'
      <4>1. DeadlockRule \subseteq Watched \cap StatusTypes
        BY DEF DeadlockRule, StatusTypes
      <4>2. pc = "status" /\ pc' = "vars" /\ todo' \subseteq Watched \cap StatusTypes
        BY <3>4, <4>1 DEF QueryStatus
      <4>3. QED
        BY <4>2 DEF ToFire, Sorted
    <3>5. ASSUME NEW read \in BOOLEAN, QueryVars(read)
          PROVE  ToFire' \subseteq ToFire /\ Sorted'
      BY <3>5 DEF QueryVars, ToFire, BudgetInv, Sorted
    <3>6. QED
      BY <1>4, <3>1, <3>2, <3>3, <3>4, <3>5
  <2>4. QED
    BY <1>3, <2>1, <2>2, <2>3
<1>5. ASSUME NEW t \in Targets, Evaluate(t) PROVE BudgetInv'
  <2>1. pc' = "repl" /\ posting' = 0
    BY <1>5 DEF Evaluate
  <2>2. Sorted' /\ Behind' = 0 /\ ToFire' = Watched
    BY <2>1 DEF Sorted, Behind, ToFire
  <2>3. Fired' = 0
    BY <2>2, FS_EmptySet DEF Fired
  <2>4. QED
    BY <2>1, <2>2, <2>3 DEF BudgetInv, Budget
<1>6. CASE Tick
  <2>1. /\ UNCHANGED <<pc, stage, todo, cur>>
        /\ elapsed' = elapsed + InPost /\ posting' = posting + InPost
    BY <1>6 DEF Tick
  <2>2. ToFire' = ToFire
    BY <2>1 DEF ToFire
  <2>3. Sorted'
    BY <2>1, <2>2 DEF BudgetInv, Sorted
  <2>4. pc # "annotate"
    BY <1>6 DEF Tick, MayTick
  <2>5. posting' + Behind' <= posting + Behind
    BY <1>0, <2>1, <2>4 DEF TypeOK, Behind, InPost
  <2>6. QED
    BY <1>0, <2>2, <2>3, <2>5, BudgetKept DEF BudgetInv
<1>7. ASSUME (\E t \in Targets : Deadlock(t)) \/ UNCHANGED vars PROVE BudgetInv'
  <2>1. UNCHANGED <<pc, stage, todo, cur, elapsed, posting>>
    BY <1>7 DEF Deadlock, vars
  <2>2. ToFire' = ToFire /\ Behind' = Behind
    BY <2>1 DEF ToFire, Behind
  <2>3. QED
    BY <2>1, <2>2 DEF BudgetInv, Sorted, Budget, Fired
<1>8. QED
  BY <1>1, <1>2, <1>4, <1>5, <1>6, <1>7 DEF Next, Deliver

\* One Evaluate spends at most three timeouts per rule in posts, so many and no
\* more can it hold up the poll of all other targets.
THEOREM EvaluationIsBounded == Spec => []PostingBounded
<1>1. Init => BudgetInv
  <2> SUFFICES ASSUME Init PROVE BudgetInv
    OBVIOUS
  <2>1. pc = "wait" /\ posting = 0
    BY DEF Init
  <2>2. Sorted /\ Behind = 0
    BY <2>1 DEF Sorted, Behind, Waiting, Posts
  <2>3. 3 * Timeout * Fired \in Nat
    BY RulesFinite, Shares, AlerterAssumption
  <2>4. QED
    BY <2>1, <2>2, <2>3 DEF BudgetInv, Budget
<1>2. IInv /\ BudgetInv => PostingBounded
  <2> SUFFICES ASSUME IInv, BudgetInv PROVE PostingBounded
    OBVIOUS
  <2>1. posting \in Nat /\ Behind \in Int /\ Behind >= 0
    BY BehindType, AlerterAssumption DEF IInv, TypeOK, Behind
  <2>2. Fired <= Cardinality(Watched) /\ Fired \in Nat /\ Cardinality(Watched) \in Nat
    BY RulesFinite, FS_Subset, FS_CardinalityType DEF Fired
  <2>3. /\ 3 * Timeout * Fired <= 3 * Timeout * Cardinality(Watched)
        /\ 3 * Timeout * Fired \in Nat /\ 3 * Timeout * Cardinality(Watched) \in Nat
    BY <2>2, Shares, AlerterAssumption
  <2>4. QED
    BY <2>1, <2>3 DEF BudgetInv, Budget, PostingBounded
<1>3. QED
  BY <1>1, <1>2, BudgetStep, Invariance, PTL DEF Spec
=============================================================================
