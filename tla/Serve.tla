------------------------------- MODULE Serve -------------------------------
(***************************************************************************)
(* The life of `mysqlpulse serve` (src/internal/cli/serve.go): main reads  *)
(* the configuration, opens one handle per DSN, starts the HTTP server and *)
(* the poll loop of Engine as goroutines, waits for a signal, drains the   *)
(* HTTP server under a deadline and closes the handles.  Nobody waits for  *)
(* the poll loop: it goes on beside the drain and the closing until the    *)
(* process is gone.                                                        *)
(*                                                                         *)
(* A signal before NotifyContext kills the process at once and is left     *)
(* out.  The HTTP server is modelled by what net/http promises of Serve    *)
(* and Shutdown.                                                           *)
(***************************************************************************)
EXTENDS Engine

CONSTANTS
  Drain,        \* the deadline of Shutdown: five seconds
  MaxRequests   \* bound: requests in flight at a time

ASSUME ServeAssumption == Drain \in Nat \ {0} /\ MaxRequests \in Nat

VARIABLES
  main,       \* where the main goroutine is
  malformed,  \* the DSNs sql.Open refuses
  opened,     \* the handles opened,
  closed,     \*   and those closed again
  http,       \* the HTTP server
  requests,   \* requests accepted and not answered
  draining,   \* how long Shutdown has been waiting
  exit,       \* what the command returns, as an exit code
  lost,       \* history: requests in flight when the process ended
  cut         \* history: targets the poll loop was using when their handle closed

handles == <<opened, closed>>
server  == <<http, requests, draining>>
process == <<main, malformed, handles, server, exit, lost, cut>>
serveVars == <<vars, process>>

ServeInit ==
  /\ Init
  /\ main = "config" /\ exit = "none"
  /\ malformed \in SUBSET Targets /\ opened = {} /\ closed = {}
  /\ http = "none" /\ requests = 0 /\ draining = 0
  /\ lost = 0 /\ cut = {}

Started == main \in {"wait", "drain", "close"}

(***************************************************************************)
(* Starting.                                                               *)
(***************************************************************************)
FromEnv ==
  /\ main = "config"
  /\ \/ main' = "open" /\ UNCHANGED exit
     \/ main' = "exited" /\ exit' = "1"   \* a value that does not parse
  /\ UNCHANGED <<vars, malformed, handles, server, lost, cut>>

First(t, S) == t \in S /\ \A u \in S : t <= u

OpenTarget ==
  /\ main = "open"
  /\ \E t \in Targets : /\ First(t, Targets \ opened) /\ t \notin malformed
                        /\ opened' = opened \cup {t}
  /\ UNCHANGED <<vars, main, malformed, closed, server, exit, lost, cut>>

\* Mutants: the handles opened before stay open; one that was not opened is
\* closed too.
ForgetHandles == UNCHANGED closed
CloseRefused  == closed' = opened \cup malformed

CloseOpened == closed' = opened

OpenFails ==
  /\ main = "open"
  /\ \E t \in malformed : First(t, Targets \ opened)
  /\ CloseOpened
  /\ main' = "exited" /\ exit' = "1"
  /\ UNCHANGED <<vars, malformed, opened, server, lost, cut>>

\* NotifyContext and the two go statements; the goroutines run when they run.
Start ==
  /\ main = "open" /\ opened = Targets
  /\ main' = "wait"
  /\ UNCHANGED <<vars, malformed, handles, server, exit, lost, cut>>

(***************************************************************************)
(* The HTTP server.                                                        *)
(***************************************************************************)
\* ListenAndServe; that it fails is only logged.
Listen ==
  /\ Started /\ http = "none"
  /\ IF main = "wait" THEN http' \in {"listening", "failed"} ELSE http' = "closed"
  /\ UNCHANGED <<vars, main, malformed, handles, requests, draining, exit, lost, cut>>

Accept ==
  /\ Started /\ http = "listening" /\ requests < MaxRequests
  /\ requests' = requests + 1
  /\ UNCHANGED <<vars, main, malformed, handles, http, draining, exit, lost, cut>>

Answer ==
  /\ Started /\ requests > 0
  /\ requests' = requests - 1
  /\ UNCHANGED <<vars, main, malformed, handles, http, draining, exit, lost, cut>>

(***************************************************************************)
(* Stopping.                                                               *)
(***************************************************************************)
Signal ==
  /\ Started /\ Cancel
  /\ UNCHANGED process

Shutdown ==
  /\ main = "wait" /\ cancelled
  /\ main' = "drain"
  /\ http' = IF http = "listening" THEN "closed" ELSE http
  /\ UNCHANGED <<vars, malformed, handles, requests, draining, exit, lost, cut>>

Returns(code) == main' = "close" /\ exit' = code

\* Mutant: Close in place of Shutdown, which does not wait for requests.
HardClose ==
  /\ main = "drain" /\ Returns("0")
  /\ UNCHANGED <<vars, malformed, handles, server, lost, cut>>

Drained ==
  /\ main = "drain" /\ requests = 0
  /\ Returns("0")
  /\ UNCHANGED <<vars, malformed, handles, server, lost, cut>>

\* Mutant: Shutdown under a context without a deadline.
NoDeadline == FALSE

DeadlinePassed == draining = Drain

DrainTimesOut ==
  /\ main = "drain" /\ DeadlinePassed
  /\ Returns("1")
  /\ UNCHANGED <<vars, malformed, handles, server, lost, cut>>

DrainTick ==
  /\ main = "drain" /\ draining < Drain
  /\ draining' = draining + 1
  /\ UNCHANGED <<vars, main, malformed, handles, http, requests, exit, lost, cut>>

\* The poll loop has target ti's handle in a call.
InUse == at \in {"collect", "evaluate"} \/ (at = "ping" /\ pc = "ping")

\* The deferred calls: the handles are closed one by one, used or not.
CloseHandle ==
  /\ main = "close"
  /\ \E t \in Targets : /\ First(t, opened \ closed)
                        /\ closed' = closed \cup {t}
                        /\ cut' = IF InUse /\ ti = t THEN cut \cup {t} ELSE cut
  /\ UNCHANGED <<vars, main, malformed, opened, server, exit, lost>>

Exit ==
  /\ main = "close" /\ closed = opened
  /\ main' = "exited" /\ lost' = requests
  /\ UNCHANGED <<vars, malformed, handles, server, exit, cut>>

(***************************************************************************)
(* The whole process.                                                      *)
(***************************************************************************)
EngineStep ==
  /\ Started
  /\ Poll \/ SelectTick \/ SelectDone \/ Tick
  /\ UNCHANGED process

MainStep ==
  \/ FromEnv \/ OpenTarget \/ OpenFails \/ Start
  \/ Shutdown \/ Drained \/ DrainTimesOut \/ CloseHandle \/ Exit

ServeNext == MainStep \/ Listen \/ Accept \/ Answer \/ Signal \/ EngineStep \/ DrainTick

ServeSpec == ServeInit /\ [][ServeNext]_serveVars

(***************************************************************************)
(* Fairness: the main goroutine runs and the deadline's timer advances.    *)
(* Neither an answer to a request nor a step of the poll loop is assumed.  *)
(***************************************************************************)
ServeFairSpec == ServeSpec /\ WF_serveVars(MainStep) /\ WF_serveVars(DrainTick)

(***************************************************************************)
(* Properties.                                                             *)
(***************************************************************************)
ServeTypeOK ==
  /\ TypeOK
  /\ main \in {"config", "open", "wait", "drain", "close", "exited"}
  /\ malformed \subseteq Targets /\ opened \subseteq Targets /\ closed \subseteq opened
  /\ http \in {"none", "listening", "failed", "closed"}
  /\ requests \in 0..MaxRequests /\ draining \in 0..Drain
  /\ exit \in {"none", "0", "1"} /\ lost \in 0..MaxRequests /\ cut \subseteq Targets

\* "Graceful shutdown" (changelog): a process that exits with success has
\* answered every request it accepted, however requests, the signal and the
\* deadline interleave; one that drops a request says so by its exit code.
ExitZeroAnswersAll == main = "exited" /\ lost > 0 => exit = "1"

\* Whichever way the command ends, no handle it opened stays open: also not
\* the ones opened before a DSN that is refused.
NoHandleLeaks == main = "exited" => closed = opened

\* The handles are closed under a poll loop that nobody waits for; it is by the
\* ctx.Err() check of PingWithRetry that this meets the work on one target at
\* the most, and never a second one.
OneCutShort == Cardinality(cut) <= 1

\* A signal ends the process, whatever servers hang, wherever the poll loop
\* is, and however long requests stay unanswered.
SignalExits == cancelled ~> main = "exited"
=============================================================================
