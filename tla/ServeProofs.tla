----------------------------- MODULE ServeProofs -----------------------------
(***************************************************************************)
(* Proofs about Serve, for any number of targets, retries and requests and *)
(* any deadline.  The process runs the poll loop as Engine has it, so what *)
(* EngineProofs proves holds inside the process; on top of it stand the    *)
(* handles, the answers, and what the closing can cut short.               *)
(***************************************************************************)
EXTENDS Serve, EngineProofs

\* Typing of the variables the process adds to the engine's.
Process ==
  /\ main \in {"config", "open", "wait", "drain", "close", "exited"}
  /\ malformed \subseteq Targets /\ opened \subseteq Targets /\ closed \subseteq opened
  /\ http \in {"none", "listening", "failed", "closed"}
  /\ requests \in 0..MaxRequests /\ draining \in 0..Drain
  /\ exit \in {"none", "0", "1"} /\ lost \in 0..MaxRequests /\ cut \subseteq Targets

Handles ==
  /\ main = "config" => opened = {}
  /\ main \in {"config", "open", "wait", "drain"} => closed = {}
  /\ main = "exited" => closed = opened

\* Once the drain has begun no request is accepted, so those there were when it
\* ended well are those there are.
Answers ==
  /\ main \in {"drain", "close"} => http # "listening"
  /\ main \in {"close", "exited"} => exit \in {"0", "1"}
  /\ main = "close" /\ exit = "0" => requests = 0
  /\ lost > 0 => main = "exited" /\ exit = "1"

\* The poll loop uses a handle, or goes on to without another look at the context.
MayUse == \/ at \in {"collect", "evaluate"}
          \/ at = "ping" /\ (pc \in {"call", "ping"} \/ (pc = "done" /\ result = "nil"))

Closing ==
  /\ main \in {"drain", "close"} => cancelled
  /\ cut # {} => cancelled /\ \E t \in Targets : cut \subseteq {t}
  /\ cut # {} /\ MayUse => cut \subseteq {ti}

ServeInv == Process /\ Handles /\ Answers /\ Closing

-----------------------------------------------------------------------------
LEMMA ServeStepOfEngine == [ServeNext]_serveVars => [Next]_vars
<1> SUFFICES ASSUME [ServeNext]_serveVars PROVE Next \/ UNCHANGED vars
  OBVIOUS
<1>1. CASE MainStep
  BY <1>1 DEF MainStep, FromEnv, OpenTarget, OpenFails, Start, Shutdown, Drained,
              DrainTimesOut, CloseHandle, Exit
<1>2. CASE Listen \/ Accept \/ Answer \/ DrainTick
  BY <1>2 DEF Listen, Accept, Answer, DrainTick
<1>3. CASE Signal \/ EngineStep
  BY <1>3 DEF Signal, EngineStep, Next
<1>4. CASE UNCHANGED serveVars
  BY <1>4 DEF serveVars
<1>5. QED
  BY <1>1, <1>2, <1>3, <1>4 DEF ServeNext

\* The process runs the poll loop that Engine specifies: everything proved of
\* Engine holds in it, whatever the HTTP server and the shutdown do beside it.
THEOREM ServeRunsEngine == ServeSpec => Spec
<1>1. ServeInit => Init
  BY DEF ServeInit
<1>2. QED
  BY <1>1, ServeStepOfEngine, PTL DEF ServeSpec, Spec

LEMMA ServeInitInv == ServeInit => ServeInv
<1> SUFFICES ASSUME ServeInit PROVE ServeInv
  OBVIOUS
<1> USE ServeAssumption DEF ServeInit
<1>1. Process
  BY DEF Process
<1>2. Handles /\ Answers /\ Closing
  BY DEF Handles, Answers, Closing
<1>3. QED
  BY <1>1, <1>2 DEF ServeInv

-----------------------------------------------------------------------------
\* After the cancellation the poll loop takes no handle into use that it was not
\* already bound to use: the check in PingWithRetry stands before every target.
LEMMA NoNewUse ==
  IInv /\ [Next]_vars /\ cancelled => cancelled' /\ (MayUse' => MayUse /\ ti' = ti)
<1> SUFFICES ASSUME IInv, [Next]_vars, cancelled
             PROVE  cancelled' /\ (MayUse' => MayUse /\ ti' = ti)
  OBVIOUS
<1> USE DEF ping, gauges
<1>1. CASE StartTarget
  BY <1>1 DEF StartTarget, Retry!Call, MayUse
<1>2. CASE PingStep
  <2>1. at = "ping" /\ at' = "ping" /\ ti' = ti
    BY <1>2 DEF PingStep
  <2>2. CASE Retry!CheckCtx
    BY <2>1, <2>2 DEF Retry!CheckCtx, Retry!Return, MayUse
  <2>3. CASE Retry!BackoffElapsed \/ Retry!BackoffCancelled
    BY <2>1, <2>3 DEF Retry!BackoffElapsed, Retry!BackoffCancelled, Retry!Return, MayUse
  <2>4. CASE Retry!BeginPing
    BY <2>1, <2>4 DEF Retry!BeginPing, MayUse
  <2>5. ASSUME NEW o \in Retry!PingOutcomes, Retry!PingReturns(o)
        PROVE  cancelled' /\ (MayUse' => MayUse /\ ti' = ti)
    BY <2>1, <2>5 DEF Retry!PingReturns, Retry!Return, MayUse
  <2>6. QED
    BY <1>2, <2>2, <2>3, <2>4, <2>5 DEF PingStep
<1>3. CASE PingFailed \/ EvaluateAlerts \/ PollReturns \/ SelectTick \/ SelectDone
  BY <1>3 DEF PingFailed, EvaluateAlerts, NextTarget, PollReturns, SelectTick, SelectDone, MayUse
<1>4. CASE PingSucceeded
  BY <1>4 DEF PingSucceeded, MayUse
<1>5. CASE Collect \/ \E o \in Retry!PingOutcomes : Scrape(o)
  <2>1. at = "collect" /\ ti' = ti /\ cancelled' = cancelled
    BY <1>5 DEF Collect, Scrape
  <2>2. QED
    BY <2>1 DEF MayUse
<1>6. CASE Tick \/ UNCHANGED vars
  BY <1>6 DEF Tick, vars, MayUse
<1>7. CASE Cancel
  BY <1>7 DEF Cancel, Retry!Cancel, Retry!call, MayUse
<1>8. QED
  BY <1>1, <1>2, <1>3, <1>4, <1>5, <1>6, <1>7 DEF Next, Poll

\* A step that leaves main's and the closing's variables alone keeps Closing.
LEMMA ClosingKept ==
  ASSUME IInv, ServeInv, [Next]_vars, cut' = cut,
         main' \in {"drain", "close"} => cancelled'
  PROVE  Closing'
<1>1. Targets' = Targets
  BY DEF Targets
<1>2. CASE cut = {}
  BY <1>2 DEF Closing
<1>3. CASE cut # {}
  BY <1>1, <1>3, NoNewUse DEF ServeInv, Closing
<1>4. QED
  BY <1>2, <1>3

LEMMA ServeStepInv == IInv /\ ServeInv /\ [ServeNext]_serveVars => ServeInv'
<1> SUFFICES ASSUME IInv, ServeInv, [ServeNext]_serveVars PROVE ServeInv'
  OBVIOUS
<1> USE ServeAssumption DEF ServeInv
<1>0. Targets' = Targets /\ [Next]_vars
  BY ServeStepOfEngine DEF Targets
<1>a. UNCHANGED vars => UNCHANGED cancelled
  BY DEF vars
<1>1. ASSUME UNCHANGED process, [Next]_vars PROVE ServeInv'
  <2>1. Process' /\ Handles' /\ Answers'
    BY <1>0, <1>1 DEF process, handles, server, Process, Handles, Answers
  <2>2. main' \in {"drain", "close"} => cancelled'
    BY <1>1, NoNewUse DEF process, Closing
  <2>3. QED
    BY <1>0, <1>1, <2>1, <2>2, ClosingKept DEF process
<1>2. CASE Signal \/ EngineStep \/ UNCHANGED serveVars
  BY <1>0, <1>1, <1>2 DEF Signal, EngineStep, serveVars
<1> USE DEF handles, server
<1>3. CASE FromEnv \/ OpenTarget \/ OpenFails \/ Start
  <2>1. UNCHANGED <<vars, malformed, server, lost, cut>> /\ main \in {"config", "open"}
    BY <1>3 DEF FromEnv, OpenTarget, OpenFails, Start
  <2>2. Process'
    BY <1>0, <1>3, <2>1 DEF FromEnv, OpenTarget, OpenFails, Start, CloseOpened, First, Process
  <2>3. Handles'
    BY <1>3 DEF FromEnv, OpenTarget, OpenFails, Start, CloseOpened, Handles
  <2>4. Answers'
    BY <1>3 DEF FromEnv, OpenTarget, OpenFails, Start, CloseOpened, Answers, Process
  <2>5. main' \notin {"drain", "close"}
    BY <1>3 DEF FromEnv, OpenTarget, OpenFails, Start
  <2>6. Closing'
    BY <1>0, <2>1, <2>5, ClosingKept
  <2>7. QED
    BY <2>2, <2>3, <2>4, <2>6
<1>4. CASE Listen \/ Accept \/ Answer \/ DrainTick
  <2>1. UNCHANGED <<vars, main, malformed, opened, closed, exit, lost, cut>>
    BY <1>4 DEF Listen, Accept, Answer, DrainTick
  <2>2. Process'
    BY <1>0, <1>4, <2>1 DEF Listen, Accept, Answer, DrainTick, Process
  <2>3. Handles'
    BY <2>1 DEF Handles
  <2>4. Answers'
    BY <1>4, <2>1 DEF Listen, Accept, Answer, DrainTick, Answers, Process
  <2>5. Closing'
    BY <1>0, <1>a, <2>1, ClosingKept DEF Closing
  <2>6. QED
    BY <2>2, <2>3, <2>4, <2>5
<1>5. CASE Shutdown \/ Drained \/ DrainTimesOut \/ Exit
  <2>1. UNCHANGED <<vars, malformed, opened, closed, requests, draining, cut>>
    BY <1>5 DEF Shutdown, Drained, DrainTimesOut, Exit
  <2>2. Process'
    BY <1>0, <1>5, <2>1 DEF Shutdown, Drained, DrainTimesOut, Exit, Returns, Process
  <2>3. Handles'
    BY <1>5, <2>1 DEF Shutdown, Drained, DrainTimesOut, Exit, Returns, Handles
  <2>4. Answers'
    BY <1>5, <2>1 DEF Shutdown, Drained, DrainTimesOut, Exit, Returns, Answers, Process
  <2>5. main' \in {"drain", "close"} => cancelled'
    BY <1>5, <1>a, <2>1 DEF Shutdown, Drained, DrainTimesOut, Exit, Returns, Closing
  <2>6. Closing'
    BY <1>0, <2>1, <2>5, ClosingKept
  <2>7. QED
    BY <2>2, <2>3, <2>4, <2>6
<1>6. CASE CloseHandle
  <2>1. /\ main = "close" /\ main' = "close" /\ cancelled /\ cancelled' = cancelled
        /\ UNCHANGED <<vars, malformed, opened, http, requests, draining, exit, lost>>
    BY <1>6, <1>a DEF CloseHandle, Closing
  <2>2. PICK t \in Targets : /\ t \in opened /\ closed' = closed \cup {t}
                             /\ cut' = IF InUse /\ ti = t THEN cut \cup {t} ELSE cut
    BY <1>6 DEF CloseHandle, First
  <2>3. Process' /\ Handles' /\ Answers'
    BY <1>0, <2>1, <2>2 DEF Process, Handles, Answers
  <2>4. CASE InUse /\ ti = t
    <3>1. cut \subseteq {ti}
      BY <2>4 DEF InUse, MayUse, Closing
    <3>2. cut' \subseteq {ti'} /\ ti' \in Targets
      BY <2>1, <2>2, <2>4, <3>1 DEF vars
    <3>3. QED
      BY <1>0, <2>1, <2>3, <3>2 DEF Closing
  <2>5. CASE ~(InUse /\ ti = t)
    BY <1>0, <2>1, <2>2, <2>3, <2>5, ClosingKept
  <2>6. QED
    BY <2>4, <2>5
<1>7. QED
  BY <1>2, <1>3, <1>4, <1>5, <1>6 DEF ServeNext, MainStep

\* Every reachable state of the process has its handles, its answers and what the
\* closing may cut short in order, wherever newServeCmd stands.
THEOREM ServeInvariance == ServeSpec => []ServeInv
<1>1. ServeSpec => []IInv
  BY ServeRunsEngine, Invariance, PTL
<1>2. QED
  BY <1>1, ServeInitInv, ServeStepInv, PTL DEF ServeSpec

-----------------------------------------------------------------------------
\* What newServeCmd, the HTTP server and the poll loop inside keep is of its type.
THEOREM ServeTypeCorrect == ServeSpec => []ServeTypeOK
<1>1. TypeOK /\ ServeInv => ServeTypeOK
  BY DEF ServeInv, Process, ServeTypeOK
<1>2. QED
  BY <1>1, ServeInvariance, ServeRunsEngine, TypeCorrect, PTL

\* A process that exits with success has answered every request it accepted: the
\* error of Shutdown's deadline is the command's.
THEOREM SuccessIsHonest == ServeSpec => []ExitZeroAnswersAll
<1>1. ServeInv => ExitZeroAnswersAll
  BY DEF ServeInv, Answers, ExitZeroAnswersAll
<1>2. QED
  BY <1>1, ServeInvariance, PTL

\* However the command ends (a refused DSN, a drain that times out, a signal),
\* every handle newServeCmd opened is closed.
THEOREM HandlesAreClosed == ServeSpec => []NoHandleLeaks
<1>1. ServeInv => NoHandleLeaks
  BY DEF ServeInv, Handles, NoHandleLeaks
<1>2. QED
  BY <1>1, ServeInvariance, PTL

\* Of any number of targets, the deferred closing of the handles meets the poll
\* loop's work on one at the most.
THEOREM AtMostOneCut == ServeSpec => []OneCutShort
<1>1. ServeInv => OneCutShort
  <2> SUFFICES ASSUME ServeInv PROVE OneCutShort
    OBVIOUS
  <2>1. cut = {} \/ \E t \in Targets : cut = {t}
    BY DEF ServeInv, Closing
  <2>2. Cardinality({}) = 0 /\ \A t \in Targets : Cardinality({t}) = 1
    BY FS_EmptySet, FS_Singleton
  <2>3. QED
    BY <2>1, <2>2 DEF OneCutShort
<1>2. QED
  BY <1>1, ServeInvariance, PTL
=============================================================================
