------------------------------- MODULE Watch -------------------------------
(***************************************************************************)
(* `mysqlpulse watch` (src/internal/cli/watch.go): one goroutine reads     *)
(* keys from the terminal into a channel, the main one draws the screen on *)
(* every tick and every key and meanwhile takes neither.  The queries of a *)
(* screen carry the context of the signals, and no deadline.               *)
(***************************************************************************)
EXTENDS Sweep

CONSTANTS
  KeyBuffer,   \* the capacity of the channel: ten
  MaxKeys      \* bound: keys typed

ASSUME WatchAssumption == KeyBuffer \in Nat

VARIABLES
  at,           \* "select", "draw", or "off" before and after the loop
  mode, drawn,  \* the mode, and what the screen shows, target by target
  keys, held,   \* the channel; the key the reader is sending
  typed, taken, \* history: the keys typed and the keys acted on
  refresh,      \* the ticker's channel, of capacity one, holds a tick
  terminal,     \* "cooked" or "raw"
  interrupted   \* SIGINT or SIGTERM has arrived

reader  == <<keys, held, typed>>
watchVars == <<at, mode, drawn, reader, taken, refresh, terminal, interrupted>>

modes == <<"overview", "processlist", "replication", "innodb">>
Keys == {"q", "n", "3", "x"}     \* quit, next mode, one of the digits, no meaning

WatchInit ==
  /\ at = "off" /\ mode = 1 /\ drawn = <<>>
  /\ keys = <<>> /\ held = <<>> /\ typed = <<>> /\ taken = <<>>
  /\ refresh = FALSE /\ terminal = "cooked" /\ interrupted = FALSE

\* Targets whose DSN is refused are passed over.
AddTarget(targets, s) == IF s.state = "bad" THEN targets ELSE Append(targets, s)
OpenTargets(dsns) == FoldLeft(AddTarget, <<>>, dsns)
Targets == OpenTargets(fleet)

(***************************************************************************)
(* The main goroutine.                                                     *)
(***************************************************************************)
\* Without any target the command ends before it touches the terminal.
StartWatch ==
  /\ stage = "sweep" /\ at = "off"
  /\ IF Targets = <<>> THEN Ends("1") /\ UNCHANGED <<at, terminal>>
     ELSE at' = "draw" /\ terminal' = "raw" /\ UNCHANGED <<stage, exit>>
  /\ UNCHANGED <<command, flags, fleet, results, expired, failed>>
  /\ UNCHANGED <<mode, drawn, reader, taken, refresh, interrupted>>

\* What a screen shows of a server: an error, or what its queries gave.  A
\* replica whose queries fail is "not a replica".
Draw(s, lost) ==
  IF modes[mode] = "replication"
  THEN IF ReplicaRows(s, lost) # <<>> THEN "replica" ELSE "not a replica"
  ELSE IF lost # {} THEN "error" ELSE modes[mode]

ScreenQueries == IF modes[mode] = "replication" THEN Statements ELSE {"query"}

\* Mutant: the queries are made without the context.
ScreenUnbounded(s) == s.state # "hung"

ScreenMayReturn(s) == s.state # "hung" \/ interrupted

DrawTarget ==
  /\ at = "draw" /\ Len(drawn) < Len(Targets)
  /\ LET s == Targets[Len(drawn) + 1]
     IN  /\ ScreenMayReturn(s)
         /\ \E lost \in IF s.state = "up" /\ ~interrupted THEN SUBSET ScreenQueries
                                                          ELSE {ScreenQueries} :
              drawn' = Append(drawn, Draw(s, lost))
  /\ UNCHANGED <<sweep, at, mode, reader, taken, refresh, terminal, interrupted>>

DrawReturns ==
  /\ at = "draw" /\ Len(drawn) = Len(Targets)
  /\ at' = "select"
  /\ UNCHANGED <<sweep, mode, drawn, reader, taken, refresh, terminal, interrupted>>

Redraw == at' = "draw" /\ drawn' = <<>>

\* The deferred calls: the terminal is put back, whichever way the loop ends.
Leave == at' = "off" /\ terminal' = "cooked" /\ Ends("0")

SelectSignal ==
  /\ at = "select" /\ interrupted /\ Leave
  /\ UNCHANGED <<command, flags, fleet, results, expired, failed>>
  /\ UNCHANGED <<mode, drawn, reader, taken, refresh, interrupted>>

SelectRefresh ==
  /\ at = "select" /\ refresh /\ refresh' = FALSE
  /\ Redraw
  /\ UNCHANGED <<sweep, mode, reader, taken, terminal, interrupted>>

\* Mutant: the modes do not go round.
NoRound(key) == CASE key = "n" -> mode + 1 [] key = "3" -> 3 [] OTHER -> mode

NextMode(key) == CASE key = "n" -> (mode % Len(modes)) + 1
                   [] key = "3" -> 3
                   [] OTHER     -> mode

SelectKey ==
  /\ at = "select" /\ keys # <<>>
  /\ keys' = Tail(keys) /\ taken' = Append(taken, Head(keys))
  /\ mode' = NextMode(Head(keys))
  /\ CASE Head(keys) = "q" -> Leave /\ UNCHANGED drawn
       [] Head(keys) = "x" -> UNCHANGED <<at, drawn, terminal, stage, exit>>
       [] OTHER            -> Redraw /\ UNCHANGED <<terminal, stage, exit>>
  /\ UNCHANGED <<command, flags, fleet, results, expired, failed>>
  /\ UNCHANGED <<held, typed, refresh, interrupted>>

(***************************************************************************)
(* The key reader, the ticker and the user.                                *)
(***************************************************************************)
\* The terminal hands a key to the reader, which is free to take it; later keys
\* wait in the terminal.
ReadKey(key) ==
  /\ terminal = "raw" /\ held = <<>> /\ Len(typed) < MaxKeys
  /\ held' = <<key>> /\ typed' = Append(typed, key)
  /\ UNCHANGED <<sweep, at, mode, drawn, keys, taken, refresh, terminal, interrupted>>

\* Mutant: a key that finds the channel full is dropped.
DropKey == held # <<>> /\ held' = <<>> /\ keys' = IF Len(keys) < KeyBuffer THEN keys \o held ELSE keys

SendKey == held # <<>> /\ Len(keys) < KeyBuffer /\ keys' = keys \o held /\ held' = <<>>

PassKey ==
  /\ terminal = "raw" /\ SendKey
  /\ UNCHANGED <<sweep, at, mode, drawn, typed, taken, refresh, terminal, interrupted>>

Refresh ==
  /\ terminal = "raw" /\ ~refresh /\ refresh' = TRUE
  /\ UNCHANGED <<sweep, at, mode, drawn, reader, taken, terminal, interrupted>>

Interrupt ==
  /\ stage = "sweep" /\ ~interrupted /\ interrupted' = TRUE
  /\ UNCHANGED <<sweep, at, mode, drawn, reader, taken, refresh, terminal>>

WatchNext ==
  /\ command = "watch"
  /\ \/ StartWatch \/ DrawTarget \/ DrawReturns
     \/ SelectSignal \/ SelectRefresh \/ SelectKey
     \/ \E key \in Keys : ReadKey(key)
     \/ PassKey \/ Refresh \/ Interrupt

\* Both goroutines run; a select that keeps running takes each case that keeps
\* being ready, since it picks at random.
WatchFairness ==
  LET all == <<sweep, watchVars>> IN
  /\ WF_all(command = "watch" /\ (StartWatch \/ DrawTarget \/ DrawReturns))
  /\ SF_all(command = "watch" /\ SelectSignal) /\ SF_all(command = "watch" /\ SelectKey)
  /\ WF_all(command = "watch" /\ PassKey)

(***************************************************************************)
(* Properties.                                                             *)
(***************************************************************************)
WatchTypeOK ==
  /\ at \in {"off", "select", "draw"} /\ mode \in DOMAIN modes
  /\ keys \in BoundedSeq(Keys, KeyBuffer) /\ held \in BoundedSeq(Keys, 1)
  /\ drawn \in BoundedSeq(ToSet(modes) \cup {"replica", "not a replica", "error"}, Len(Targets))
  /\ {refresh, interrupted} \subseteq BOOLEAN /\ terminal \in {"cooked", "raw"}

\* No key is lost, doubled or overtaken between the terminal and the loop,
\* however long screens take and however full the channel is.
KeysInOrder == typed = taken \o keys \o held

\* A signal ends the command and puts the terminal back, whatever servers hang
\* and wherever the loop is; unless a server hangs, so does "q", however many
\* ticks compete with it.
WatchEnds ==
  LET over == stage = "ended" /\ terminal = "cooked"
      hangs == \E s \in ToSet(fleet) : s.state = "hung"
  IN  /\ interrupted ~> over
      /\ Contains(typed, "q") /\ ~hangs ~> over
=============================================================================
