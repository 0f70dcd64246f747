--------------------------- MODULE CommandsProofs ---------------------------
(***************************************************************************)
(* What is proved of the commands, for every fleet of servers.  One        *)
(* invariant carries most of it: every result is what a visit to the       *)
(* server of the same index yields for some loss of queries (Told), the    *)
(* history has the index if anything was lost, and a command that ends     *)
(* well has been to every server (SweepInv).  What is made of the results  *)
(* is a fold over them, taken apart by FoldChain of FoldProofs.            *)
(***************************************************************************)
EXTENDS Commands, FoldProofs, SequenceTheorems

(***************************************************************************)
(* watch: the keys between the terminal and the loop.                      *)
(***************************************************************************)
\* The reader holds one key, and the channel no more than its capacity.
KeysTyped ==
  /\ keys \in Seq(Keys) /\ Len(keys) <= KeyBuffer
  /\ held \in Seq(Keys) /\ Len(held) <= 1
  /\ typed \in Seq(Keys) /\ taken \in Seq(Keys)

KeysInv == KeysTyped /\ KeysInOrder

LEMMA OneKey == ASSUME NEW key \in Keys PROVE <<key>> \in Seq(Keys) /\ Len(<<key>>) = 1
OBVIOUS

LEMMA KeysAssociate ==
  ASSUME NEW s \in Seq(Keys), NEW t \in Seq(Keys), NEW u \in Seq(Keys)
  PROVE  (s \o t) \o u = s \o (t \o u)
BY ConcatAssociative

\* A key that is taken off the channel moves on to those acted on.
LEMMA TakesKey ==
  ASSUME NEW s \in Seq(Keys), NEW k \in Seq(Keys), k # <<>>
  PROVE  /\ Append(s, Head(k)) \in Seq(Keys) /\ Tail(k) \in Seq(Keys) /\ Len(Tail(k)) = Len(k) - 1
         /\ Append(s, Head(k)) \o Tail(k) = s \o k
<1>1. Head(k) \in Keys /\ Tail(k) \in Seq(Keys) /\ Len(Tail(k)) = Len(k) - 1
  BY HeadTailProperties
<1>2. Append(s, Head(k)) \in Seq(Keys) /\ Append(s, Head(k)) = s \o <<Head(k)>>
  BY <1>1, AppendIsConcat, AppendProperties
<1>3. <<Head(k)>> \in Seq(Keys) /\ k = <<Head(k)>> \o Tail(k)
  BY <1>1, OneKey
<1>4. (s \o <<Head(k)>>) \o Tail(k) = s \o (<<Head(k)>> \o Tail(k))
  BY <1>1, <1>3, KeysAssociate
<1>5. QED
  BY <1>1, <1>2, <1>3, <1>4, Zenon

\* Every step keeps the keys typed in a row: acted on, in the channel, held.
LEMMA KeysStep == KeysInv /\ [Next]_vars => KeysInv'
<1> SUFFICES ASSUME KeysInv, [Next]_vars PROVE KeysInv'
  OBVIOUS
<1> USE DEF KeysInv, KeysTyped, KeysInOrder
<1>1. ASSUME UNCHANGED <<keys, held, typed, taken>> PROVE KeysInv'
  BY <1>1
<1>2. CASE SelectKey
  <2>1. /\ keys # <<>> /\ keys' = Tail(keys) /\ taken' = Append(taken, Head(keys))
        /\ UNCHANGED <<held, typed>>
    BY <1>2 DEF SelectKey
  <2>2. /\ taken' \in Seq(Keys) /\ keys' \in Seq(Keys) /\ Len(keys') = Len(keys) - 1
        /\ taken' \o keys' = taken \o keys
    BY <2>1, TakesKey
  <2>3. typed' = taken' \o keys' \o held'
    BY <2>1, <2>2, Zenon
  <2>4. Len(keys') <= KeyBuffer
    BY <2>1, <2>2, WatchAssumption, LenProperties
  <2>5. QED
    BY <2>1, <2>2, <2>3, <2>4
<1>3. ASSUME NEW key \in Keys, ReadKey(key) PROVE KeysInv'
  <2>1. held = <<>> /\ held' = <<key>> /\ typed' = Append(typed, key) /\ UNCHANGED <<keys, taken>>
    BY <1>3 DEF ReadKey
  <2>2. typed' = typed \o <<key>> /\ typed' \in Seq(Keys) /\ held' \in Seq(Keys) /\ Len(held') = 1
    BY <2>1, OneKey, AppendIsConcat, AppendProperties
  <2>3. taken \o keys \in Seq(Keys) /\ typed = taken \o keys
    BY <2>1, ConcatProperties, ConcatEmptySeq
  <2>4. QED
    BY <2>1, <2>2, <2>3
<1>4. CASE PassKey
  <2>1. Len(keys) < KeyBuffer /\ keys' = keys \o held /\ held' = <<>> /\ UNCHANGED <<typed, taken>>
    BY <1>4 DEF PassKey, SendKey
  <2>2. keys' \in Seq(Keys) /\ Len(keys') = Len(keys) + Len(held)
    BY <2>1, ConcatProperties
  <2>3. Len(keys') <= KeyBuffer
    BY <2>1, <2>2, WatchAssumption, LenProperties
  <2>4. taken \o keys \o held = taken \o keys' /\ taken \o keys' \in Seq(Keys)
    <3>1. (taken \o keys) \o held = taken \o (keys \o held)
      BY KeysAssociate, Zenon
    <3>2. taken \o keys' \in Seq(Keys)
      BY <2>2, ConcatProperties
    <3>3. QED
      BY <2>1, <3>1, <3>2, Zenon
  <2>5. typed' = taken' \o keys' \o held'
    BY <2>1, <2>4, ConcatEmptySeq
  <2>6. QED
    BY <2>1, <2>2, <2>3, <2>5, EmptySeq
<1>5. QED
  <2>1. ASSUME ~(SelectKey \/ PassKey \/ \E key \in Keys : ReadKey(key))
        PROVE  UNCHANGED <<keys, held, typed, taken>>
    BY <2>1 DEF Next, Step, WatchNext, StartWatch, DrawTarget, DrawReturns, SelectSignal,
                SelectRefresh, Refresh, Interrupt, vars, watchVars, reader
  <2>2. QED
    BY <1>1, <1>2, <1>3, <1>4, <2>1

LEMMA KeysInit == Init => KeysInv
BY WatchAssumption, EmptySeq, ConcatEmptySeq DEF Init, WatchInit, KeysInv, KeysTyped, KeysInOrder

\* No key is lost, doubled or overtaken on its way, whatever the capacity of the
\* channel.
THEOREM KeysStayInOrder == Spec => []KeysInOrder
<1>1. KeysInv => KeysInOrder
  BY DEF KeysInv
<1>2. QED
  BY <1>1, KeysInit, KeysStep, PTL DEF Spec

(***************************************************************************)
(* check: the verdict is the worst of the results.                         *)
(***************************************************************************)
IsSeq(s) == \E S : s \in Seq(S)

Verdicts == {"OK", "WARNING", "CRITICAL", "UNKNOWN"}

\* The four severities in their order.
LEMMA Ranks ==
  /\ Rank("OK") = 1 /\ Rank("WARNING") = 2 /\ Rank("CRITICAL") = 3 /\ Rank("UNKNOWN") = 4
  /\ \A v \in Verdicts : Rank(v) \in 1..4 /\ Severities[Rank(v)] = v
<1>1. ASSUME NEW v, NEW k \in 1..4, \A i \in 1..4 : Severities[i] = v <=> i = k PROVE Rank(v) = k
  BY <1>1 DEF Rank
<1>2. /\ \A i \in 1..4 : Severities[i] = "OK" <=> i = 1
      /\ \A i \in 1..4 : Severities[i] = "WARNING" <=> i = 2
      /\ \A i \in 1..4 : Severities[i] = "CRITICAL" <=> i = 3
      /\ \A i \in 1..4 : Severities[i] = "UNKNOWN" <=> i = 4
  BY DEF Severities
<1>3. 1 \in 1..4 /\ 2 \in 1..4 /\ 3 \in 1..4 /\ 4 \in 1..4
  OBVIOUS
<1>4. Rank("OK") = 1 /\ Rank("WARNING") = 2 /\ Rank("CRITICAL") = 3 /\ Rank("UNKNOWN") = 4
  <2>1. Rank("OK") = 1
    <3>1. \A i \in 1..4 : Severities[i] = "OK" <=> i = 1
      BY <1>2
    <3>2. QED
      BY <1>1, <1>3, <3>1
  <2>2. Rank("WARNING") = 2
    <3>1. \A i \in 1..4 : Severities[i] = "WARNING" <=> i = 2
      BY <1>2
    <3>2. QED
      BY <1>1, <1>3, <3>1
  <2>3. Rank("CRITICAL") = 3
    <3>1. \A i \in 1..4 : Severities[i] = "CRITICAL" <=> i = 3
      BY <1>2
    <3>2. QED
      BY <1>1, <1>3, <3>1
  <2>4. Rank("UNKNOWN") = 4
    <3>1. \A i \in 1..4 : Severities[i] = "UNKNOWN" <=> i = 4
      BY <1>2
    <3>2. QED
      BY <1>1, <1>3, <3>1
  <2>5. QED
    BY <2>1, <2>2, <2>3, <2>4
<1>5. QED
  BY <1>2, <1>3, <1>4 DEF Verdicts

\* The verdict, one result at a time.
LEMMA VerdictChain ==
  ASSUME IsSeq(results), \A i \in DOMAIN results : results[i] \in Verdicts
  PROVE  \E v \in [0..Len(results) -> Verdicts] :
           /\ v[0] = "OK" /\ v[Len(results)] = Verdict
           /\ \A i \in 1..Len(results) : v[i] = escalate(v[i - 1], results[i])
<1> DEFINE N == Len(results)
           H == [i \in 1..N |-> [v \in Verdicts |-> escalate(v, results[i])]]
           Eq(g) == g = [s \in SUBSET DOMAIN results |->
                           IF s = {} THEN "OK" ELSE escalate(g[s \ {Max(s)}], results[Max(s)])]
           it == CHOOSE g : Eq(g)
<1>1. N \in Nat /\ DOMAIN results = 1..N
  BY LenProperties DEF IsSeq
<1>2. H \in [1..N -> [Verdicts -> Verdicts]]
  BY <1>1 DEF escalate
<1>3. "OK" \in Verdicts
  BY DEF Verdicts
<1>4. \A s \in SUBSET (1..N) : s # {} => Max(s) \in 1..N
  BY <1>1, MaxIn
<1>5. \E g : Eq(g)
  <2>1. PICK g \in [SUBSET (1..N) -> Verdicts] : FoldsBy(g, N, "OK", H)
    <3> HIDE DEF N, H
    <3>1. QED
      BY <1>1, <1>2, <1>3, FoldExists
  <2>2. ASSUME NEW s \in SUBSET (1..N)
        PROVE  g[s] = IF s = {} THEN "OK" ELSE escalate(g[s \ {Max(s)}], results[Max(s)])
    BY <1>4, <2>1 DEF FoldsBy
  <2>3. QED
    BY <1>1, <2>2
<1>6. Eq(it)
  <2> HIDE DEF Eq
  <2>1. QED
    BY <1>5, Zenon
<1>7. IsFold(it, N, Verdicts, "OK", H)
  <2> HIDE DEF it
  <2>1. QED
    BY <1>1, <1>4, <1>6 DEF IsFold
<1>8. Verdict = it[1..N]
  BY <1>1, Zenon DEF Verdict, FoldLeft, MapThenFoldSet
<1>9. QED
  <2>1. PICK v : IsChain(v, N, Verdicts, "OK", H) /\ v[N] = it[1..N]
    <3> HIDE DEF N, H, it
    <3>1. QED
      BY <1>1, <1>2, <1>3, <1>7, FoldChain
  <2>2. ASSUME NEW i \in 1..N PROVE v[i] = escalate(v[i - 1], results[i])
    <3>1. i - 1 \in 0..N
      BY <1>1
    <3>2. v[i - 1] \in Verdicts /\ v[i] = H[i][v[i - 1]]
      BY <2>1, <3>1 DEF IsChain
    <3>3. QED
      BY <3>2
  <2>3. QED
    BY <1>8, <2>1, <2>2 DEF IsChain

(***************************************************************************)
(* The loop over the servers: what the results and the failures are.       *)
(***************************************************************************)
\* The queries of one visit, and what it yields if some of them are lost.
Queries ==
  CASE command = "check"    -> CheckQueries
    [] command = "topology" -> Statements
    [] command = "status"   -> StatusQueries
    [] command = "report"   -> ReportQueries
    [] command = "diff"     -> {"SHOW GLOBAL VARIABLES"}
    [] command = "doctor"   -> DoctorQueries
    [] OTHER                -> InnoDBQueries

Yield(s, lost) ==
  CASE command = "check"    -> CheckNode(s, lost)
    [] command = "topology" -> TopologyNode(s, lost)
    [] command = "status"   -> collectStatus(s, lost)
    [] command = "report"   -> collectNodeReport(s, lost)
    [] command = "diff"     -> fetchGlobalVars(s, lost)
    [] command = "doctor"   -> runDoctorChecks(s, lost)
    [] OTHER                -> queryInnoDBStatus(s, lost)

\* Result i is what the visit to server i yields, for some loss that its state
\* allows, and the history has i if there was one.
Told(i) ==
  \E lost \in SUBSET Queries :
    /\ results[i] = Yield(fleet[i], lost)
    /\ fleet[i].state = "bad" => lost = {}
    /\ fleet[i].state \notin {"bad", "up"} => lost = Queries
    /\ i \in failed <=> lost # {} \/ fleet[i].state = "bad"

\* A one-shot command that ends well has been to every server.
Complete ==
  stage = "ended" /\ command # "watch" =>
    Len(results) = Len(fleet) \/ (results = <<>> /\ exit # "0")

Unstarted == stage = "config" \/ command = "watch" => results = <<>>

SweepInv ==
  /\ command \in DOMAIN Fleets /\ fleet \in Fleets[command]
  /\ stage \in {"config", "sweep", "ended"} /\ expired \in BOOLEAN
  /\ stage = "ended" <=> exit # "none"
  /\ IsSeq(results) /\ Len(results) <= Len(fleet) /\ failed \subseteq DOMAIN results
  /\ Unstarted /\ Complete
  /\ \A i \in DOMAIN results : Told(i)

\* The fleet and the results are sequences.
LEMMA FleetIsSeq ==
  ASSUME command \in DOMAIN Fleets, fleet \in Fleets[command]
  PROVE  /\ Len(fleet) \in Nat /\ DOMAIN fleet = 1..Len(fleet)
         /\ \A i \in DOMAIN fleet : fleet[i] \in ToSet(fleet) /\ fleet[i] \in Servers
<1>1. fleet \in Seq(ToSet(fleet))
  BY FleetsAssumption
<1>2. Len(fleet) \in Nat /\ DOMAIN fleet = 1..Len(fleet)
  BY <1>1, LenProperties
<1>3. ASSUME NEW i \in DOMAIN fleet PROVE fleet[i] \in ToSet(fleet) /\ fleet[i] \in Servers
  BY DEF ToSet, Servers
<1>4. QED
  BY <1>2, <1>3

LEMMA ResultsAreSeq ==
  ASSUME IsSeq(results)
  PROVE  Len(results) \in Nat /\ DOMAIN results = 1..Len(results)
BY LenProperties DEF IsSeq

\* The flags decide, with the command, what a visit does.
LEMMA SameVisits ==
  ASSUME UNCHANGED <<command, flags>>
  PROVE  Queries' = Queries /\ \A s, lost : Yield(s, lost)' = Yield(s, lost)
<1>1. Queries' = Queries
  BY DEF Queries, CheckQueries
<1>2. \A s, lost : CheckNode(s, lost)' = CheckNode(s, lost)
  BY DEF CheckNode, Reading, StatusOf
<1>3. QED
  BY <1>1, <1>2 DEF Yield

\* A visit appends what the queries that were not lost yield.
LEMMA VisitAppends ==
  ASSUME VisitNode
  PROVE  /\ command # "watch" /\ stage = "sweep" /\ Here <= Len(fleet)
         /\ UNCHANGED <<command, flags, fleet, stage, expired, exit>>
         /\ \E lost \in Losses(Queries) :
              /\ results' = Append(results, Yield(ThisServer, lost))
              /\ failed' = IF lost # {} \/ ThisServer.state = "bad"
                           THEN failed \cup {Here} ELSE failed
BY DEF VisitNode, Visit, Queries, Yield

\* What was told of a server stays told.
LEMMA StaysTold ==
  ASSUME UNCHANGED <<command, flags, fleet>>, NEW i, Told(i),
         results'[i] = results[i], i \in failed' <=> i \in failed
  PROVE  Told(i)'
BY SameVisits DEF Told

\* A step that leaves fleet and results alone keeps the invariant of the loop.
LEMMA SweepStands ==
  ASSUME SweepInv, UNCHANGED <<command, flags, fleet, results, failed>>,
         stage' \in {"config", "sweep", "ended"}, expired' \in BOOLEAN,
         stage' = "ended" <=> exit' # "none", Unstarted', Complete'
  PROVE  SweepInv'
<1>1. \A i \in DOMAIN results' : Told(i)'
  BY StaysTold DEF SweepInv
<1>2. QED
  BY <1>1 DEF SweepInv, IsSeq

\* And so does a visit, which tells of one more server.
LEMMA VisitStep == ASSUME SweepInv, VisitNode PROVE SweepInv'
<1>1. PICK h \in Nat : h = Here
  BY ResultsAreSeq DEF SweepInv, Here
<1>2. ThisServer = fleet[h]
  BY <1>1 DEF ThisServer
<1>3. PICK lost \in Losses(Queries) :
        /\ results' = Append(results, Yield(fleet[h], lost))
        /\ failed' = IF lost # {} \/ fleet[h].state = "bad" THEN failed \cup {h} ELSE failed
  BY <1>1, <1>2, VisitAppends
<1>4. /\ command # "watch" /\ stage = "sweep" /\ h <= Len(fleet)
      /\ UNCHANGED <<command, flags, fleet, stage, expired, exit>>
  BY <1>1, VisitAppends
<1>5. Len(results) \in Nat /\ DOMAIN results = 1..Len(results) /\ h = Len(results) + 1
  BY <1>1, ResultsAreSeq DEF SweepInv, Here
<1>6. /\ IsSeq(results') /\ Len(results') = h /\ DOMAIN results' = 1..h
      /\ \A i \in DOMAIN results : results'[i] = results[i]
      /\ results'[h] = Yield(fleet[h], lost)
  <2>1. PICK S : results \in Seq(S)
    BY DEF SweepInv, IsSeq
  <2> DEFINE y == Yield(fleet[h], lost)
             T == S \cup {y}
  <2>2. results \in Seq(T) /\ y \in T
    BY <2>1, SeqMonotonic
  <2> HIDE DEF y, T
  <2>3. Append(results, y) \in Seq(T)
    BY <2>2, AppendProperties
  <2>4. /\ Len(Append(results, y)) = Len(results) + 1
        /\ \A i \in 1..Len(results) : Append(results, y)[i] = results[i]
        /\ Append(results, y)[Len(results) + 1] = y
    BY <2>2, AppendProperties
  <2>5. results' = Append(results, y)
    BY <1>3 DEF y
  <2>6. IsSeq(results')
    BY <2>3, <2>5 DEF IsSeq
  <2>7. DOMAIN results' = 1..Len(results')
    BY <2>6, LenProperties DEF IsSeq
  <2>8. QED
    BY <1>5, <2>4, <2>5, <2>6, <2>7 DEF y
<1>7. /\ h \notin DOMAIN results /\ failed' \ {h} = failed /\ failed' \subseteq DOMAIN results'
      /\ h \in failed' <=> lost # {} \/ fleet[h].state = "bad"
  BY <1>3, <1>5, <1>6 DEF SweepInv
<1>8. ASSUME NEW i \in DOMAIN results PROVE Told(i)'
  <2>1. Told(i) /\ results'[i] = results[i] /\ (i \in failed' <=> i \in failed)
    BY <1>6, <1>7 DEF SweepInv
  <2>2. QED
    BY <1>4, <2>1, StaysTold
<1>9. Told(h)'
  <2>1. /\ lost \in SUBSET Queries
        /\ fleet[h].state = "bad" => lost = {}
        /\ fleet[h].state \notin {"bad", "up"} => lost = Queries
    BY <1>2, <1>3 DEF Losses
  <2>2. Queries' = Queries /\ Yield(fleet[h], lost)' = Yield(fleet[h], lost)
    BY <1>4, SameVisits DEF Yield
  <2>3. QED
    BY <1>4, <1>6, <1>7, <2>1, <2>2 DEF Told
<1>10. \A i \in DOMAIN results' : Told(i)'
  BY <1>5, <1>6, <1>8, <1>9
<1>11. Unstarted' /\ Complete'
  BY <1>4 DEF Unstarted, Complete
<1>12. QED
  BY <1>4, <1>6, <1>7, <1>10, <1>11 DEF SweepInv

\* Escalating from one result to the next ends with the worst of them.
LEMMA VerdictIsWorst ==
  ASSUME IsSeq(results), \A i \in DOMAIN results : results[i] \in Verdicts
  PROVE  /\ Verdict \in Verdicts
         /\ results # <<>> => \E i \in DOMAIN results :
              /\ Rank(results[i]) = Rank(Verdict)
              /\ \A j \in DOMAIN results : Rank(results[j]) <= Rank(results[i])
<1> DEFINE N == Len(results)
<1>1. N \in Nat /\ DOMAIN results = 1..N
  BY ResultsAreSeq
<1>2. PICK v \in [0..N -> Verdicts] : /\ v[0] = "OK" /\ v[N] = Verdict
                                      /\ \A i \in 1..N : v[i] = escalate(v[i - 1], results[i])
  BY VerdictChain
<1> DEFINE S == {n \in Nat : n <= N =>
                   /\ \A j \in 1..n : Rank(results[j]) <= Rank(v[n])
                   /\ v[n] = "OK" \/ \E i \in 1..n : v[n] = results[i]}
<1> HIDE DEF N
<1>3. 0 \in S
  BY <1>2
<1>4. ASSUME NEW n \in Nat, n \in S PROVE n + 1 \in S
  <2>1. n + 1 \in Nat
    OBVIOUS
  <2> SUFFICES ASSUME n + 1 <= N
               PROVE  /\ \A j \in 1..(n + 1) : Rank(results[j]) <= Rank(v[n + 1])
                      /\ v[n + 1] = "OK" \/ \E i \in 1..(n + 1) : v[n + 1] = results[i]
    BY <2>1, Zenon
  <2>2. n <= N /\ n \in 0..N /\ n + 1 \in 1..N /\ n + 1 \in DOMAIN results
    BY <1>1
  <2>3. v[n + 1] = escalate(v[n], results[n + 1]) /\ v[n] \in Verdicts /\ results[n + 1] \in Verdicts
    BY <1>2, <2>2
  <2>4. Rank(v[n]) \in Int /\ Rank(results[n + 1]) \in Int
    BY <2>3, Ranks
  <2>5. /\ \A j \in 1..n : Rank(results[j]) <= Rank(v[n])
        /\ v[n] = "OK" \/ \E i \in 1..n : v[n] = results[i]
    BY <1>4, <2>2
  <2>6. ASSUME NEW j \in 1..(n + 1) PROVE Rank(results[j]) <= Rank(v[n + 1])
    <3>1. CASE j \in 1..n
      <4>1. Rank(results[j]) <= Rank(v[n]) /\ Rank(results[j]) \in Int
        BY <1>1, <2>2, <2>5, <3>1, Ranks
      <4>2. QED
        BY <2>3, <2>4, <4>1 DEF escalate
    <3>2. CASE j = n + 1
      BY <2>3, <2>4, <3>2 DEF escalate
    <3>3. QED
      BY <3>1, <3>2
  <2>7. v[n + 1] = "OK" \/ \E i \in 1..(n + 1) : v[n + 1] = results[i]
    BY <2>3, <2>5 DEF escalate
  <2>8. QED
    BY <2>6, <2>7
<1> HIDE DEF S
<1>5. N \in S
  BY <1>1, <1>3, <1>4, NatSets
<1>6. /\ Verdict \in Verdicts
      /\ \A j \in DOMAIN results : Rank(results[j]) <= Rank(Verdict)
      /\ Verdict = "OK" \/ \E i \in DOMAIN results : Verdict = results[i]
  BY <1>1, <1>2, <1>5 DEF S
<1>7. ASSUME results # <<>>
      PROVE  \E i \in DOMAIN results : Rank(results[i]) = Rank(Verdict)
  <2>1. CASE \E i \in DOMAIN results : Verdict = results[i]
    BY <2>1
  <2>2. CASE Verdict = "OK"
    <3>1. 1 \in DOMAIN results
      BY <1>1, <1>7, EmptySeq DEF IsSeq, N
    <3>2. Rank(results[1]) \in 1..4 /\ Rank(results[1]) <= Rank("OK")
      BY <1>6, <2>2, <3>1, Ranks
    <3>3. QED
      BY <2>2, <3>1, <3>2, Ranks
  <2>3. QED
    BY <1>6, <2>1, <2>2
<1>8. QED
  BY <1>6, <1>7

(***************************************************************************)
(* The exit code.                                                          *)
(***************************************************************************)
GivesWorst ==
  command = "check" /\ stage = "ended" /\ results # <<>> =>
    \E i \in DOMAIN results :
      /\ exit = ExitCodes[Rank(results[i])]
      /\ \A j \in DOMAIN results : Rank(results[j]) <= Rank(results[i])

ExitInv == exit \in {"none", "0", "1", "2", "3"} /\ GivesWorst

LEMMA ChecksAreVerdicts ==
  ASSUME SweepInv, command = "check"
  PROVE  \A i \in DOMAIN results : results[i] \in Verdicts
<1>1. \A s, lost : CheckNode(s, lost) \in Verdicts
  BY DEF CheckNode, StatusOf, Verdicts
<1>2. QED
  BY <1>1 DEF SweepInv, Told, Yield

\* What check hands to the operating system is the code of the worst result.
LEMMA FinishGivesWorst ==
  ASSUME SweepInv, command = "check"
  PROVE  /\ CheckExit \in {"0", "1", "2", "3"}
         /\ results # <<>> => \E i \in DOMAIN results :
              /\ CheckExit = ExitCodes[Rank(results[i])]
              /\ \A j \in DOMAIN results : Rank(results[j]) <= Rank(results[i])
<1>1. IsSeq(results) /\ \A i \in DOMAIN results : results[i] \in Verdicts
  BY ChecksAreVerdicts DEF SweepInv
<1>2. CheckExit \in {"0", "1", "2", "3"}
  BY <1>1, VerdictIsWorst, Ranks DEF CheckExit, ExitCodes
<1>3. QED
  BY <1>1, <1>2, VerdictIsWorst DEF CheckExit

\* The loop over the servers and the exit code, step by step.
LEMMA CommandStep == SweepInv /\ ExitInv /\ [Next]_vars => SweepInv' /\ ExitInv'
<1> SUFFICES ASSUME SweepInv, ExitInv, [Next]_vars PROVE SweepInv' /\ ExitInv'
  OBVIOUS
<1>1. CASE VisitNode
  <2>1. SweepInv'
    BY <1>1, VisitStep
  <2>2. stage' = stage /\ stage = "sweep" /\ exit' = exit
    BY <1>1, VisitAppends
  <2>3. QED
    BY <2>1, <2>2 DEF ExitInv, GivesWorst
<1>2. ASSUME NEW code \in {"0", "1", "2", "3"}, Finish(code),
             command # "watch", command = "check" => code = CheckExit
      PROVE  SweepInv' /\ ExitInv'
  <2>1. /\ stage = "sweep" /\ stage' = "ended" /\ exit' = code /\ Here > Len(fleet)
        /\ UNCHANGED <<command, flags, fleet, results, expired, failed>>
    BY <1>2 DEF Finish, Ends
  <2>2. Len(results) = Len(fleet)
    <3>1. Len(results) \in Nat /\ Len(fleet) \in Nat /\ Len(results) <= Len(fleet)
      BY ResultsAreSeq, FleetIsSeq DEF SweepInv
    <3>2. Len(results) + 1 > Len(fleet)
      BY <2>1 DEF Here
    <3> HIDE <1>2, <2>1
    <3>3. QED
      BY <3>1, <3>2
  <2>3. Unstarted' /\ Complete'
    BY <2>1, <2>2, <1>2 DEF Unstarted, Complete
  <2>4. SweepInv'
    BY <1>2, <2>1, <2>3, SweepStands DEF SweepInv
  <2>5. GivesWorst'
    BY <1>2, <2>1, FinishGivesWorst DEF GivesWorst
  <2>6. QED
    BY <1>2, <2>1, <2>4, <2>5 DEF ExitInv
<1>3. CASE Render
  <2>1. CheckExit \in {"0", "1", "2", "3"} \/ command # "check"
    BY FinishGivesWorst
  <2>2. QED
    BY <1>2, <1>3, <2>1 DEF Render
<1>4. CASE Refuse
  <2>1. /\ stage = "config" /\ UNCHANGED <<command, flags, fleet, results, expired, failed>>
        /\ \/ stage' = "sweep" /\ exit' = exit
           \/ stage' = "ended" /\ exit' \in {"1", "3"}
    BY <1>4 DEF Refuse, Configure, Ends
  <2>2. results = <<>>
    BY <2>1 DEF SweepInv, Unstarted
  <2>3. Unstarted' /\ Complete'
    BY <2>1, <2>2 DEF Unstarted, Complete
  <2>4. SweepInv'
    BY <2>1, <2>3, SweepStands DEF SweepInv
  <2>5. QED
    BY <2>1, <2>2, <2>4 DEF ExitInv, GivesWorst
<1>5. CASE Expire
  <2>1. stage = "sweep" /\ expired' = TRUE
        /\ UNCHANGED <<command, flags, fleet, stage, results, failed, exit>>
    BY <1>5 DEF Expire
  <2>2. Unstarted' /\ Complete'
    BY <2>1 DEF SweepInv, Unstarted, Complete
  <2>3. QED
    BY <2>1, <2>2, SweepStands DEF SweepInv, ExitInv, GivesWorst
<1>6. CASE WatchNext
  <2>1. /\ command = "watch" /\ UNCHANGED <<command, flags, fleet, results, expired, failed>>
        /\ \/ UNCHANGED <<stage, exit>>
           \/ stage' = "ended" /\ exit' \in {"0", "1"}
    BY <1>6 DEF WatchNext, StartWatch, DrawTarget, DrawReturns, SelectSignal, SelectRefresh,
                SelectKey, ReadKey, PassKey, Refresh, Interrupt, Leave, Ends, sweep
  <2>2. Unstarted' /\ Complete'
    BY <2>1 DEF SweepInv, Unstarted, Complete
  <2>3. QED
    BY <2>1, <2>2, SweepStands DEF SweepInv, ExitInv, GivesWorst
<1>7. CASE UNCHANGED vars
  <2>1. UNCHANGED <<command, flags, fleet, stage, results, expired, failed, exit>>
    BY <1>7 DEF vars, sweep
  <2>2. Unstarted' /\ Complete'
    BY <2>1 DEF SweepInv, Unstarted, Complete
  <2>3. QED
    BY <2>1, <2>2, SweepStands DEF SweepInv, ExitInv, GivesWorst
<1>8. QED
  BY <1>1, <1>3, <1>4, <1>5, <1>6, <1>7 DEF Next, Step, OneShot

CommandsInv == SweepInv /\ ExitInv

LEMMA CommandsInit == Init => CommandsInv
<1> SUFFICES ASSUME Init PROVE CommandsInv
  OBVIOUS
<1>1. /\ command \in DOMAIN Fleets /\ fleet \in Fleets[command]
      /\ stage = "config" /\ results = <<>> /\ expired = FALSE /\ failed = {} /\ exit = "none"
  BY DEF Init, SweepInit
<1>2. IsSeq(results) /\ Len(results) = 0 /\ DOMAIN results = {}
  BY <1>1, EmptySeq DEF IsSeq
<1>3. Len(results) <= Len(fleet)
  BY <1>1, <1>2, FleetIsSeq
<1>4. QED
  BY <1>1, <1>2, <1>3 DEF CommandsInv, SweepInv, ExitInv, GivesWorst, Unstarted, Complete

LEMMA CommandsInvariant == Spec => []CommandsInv
<1>1. CommandsInv /\ [Next]_vars => CommandsInv'
  BY CommandStep DEF CommandsInv
<1>2. QED
  BY <1>1, CommandsInit, PTL DEF Spec

\* Where nothing failed, nothing was lost, and the server was up.
LEMMA Unharmed ==
  ASSUME SweepInv, NEW i \in DOMAIN results, i \notin failed
  PROVE  /\ fleet[i].state # "bad" /\ results[i] = Yield(fleet[i], {})
         /\ Queries # {} => fleet[i].state = "up"
<1>1. PICK lost \in SUBSET Queries :
        /\ results[i] = Yield(fleet[i], lost)
        /\ fleet[i].state \notin {"bad", "up"} => lost = Queries
        /\ i \in failed <=> lost # {} \/ fleet[i].state = "bad"
  BY DEF SweepInv, Told
<1>2. lost = {} /\ fleet[i].state # "bad"
  BY <1>1
<1>3. QED
  BY <1>1, <1>2

LEMMA Visited ==
  ASSUME SweepInv, stage = "ended", command # "watch", results # <<>> \/ exit = "0"
  PROVE  DOMAIN results = DOMAIN fleet /\ Len(results) = Len(fleet)
BY ResultsAreSeq, FleetIsSeq DEF SweepInv, Complete

LEMMA InFleet ==
  ASSUME SweepInv, NEW i \in DOMAIN results
  PROVE  i \in DOMAIN fleet /\ fleet[i] \in Servers /\ fleet[i] \in ToSet(fleet)
BY ResultsAreSeq, FleetIsSeq DEF SweepInv

\* A server whose queries failed counts as UNKNOWN, any other as what it is.
LEMMA TrueRank ==
  ASSUME SweepInv, command = "check", NEW i \in DOMAIN results
  PROVE  results[i] = IF i \in failed /\ results[i] = "UNKNOWN" THEN "UNKNOWN"
                      ELSE TrueStatus(fleet[i])
<1> DEFINE s == fleet[i]
<1>0. Queries = CheckQueries /\ Queries # {} /\ \A lost : Yield(s, lost) = CheckNode(s, lost)
  BY DEF Queries, CheckQueries, Yield, Statements
<1>1. /\ s.state = "up" => Statements \cap s.speaks # {}
      /\ s.rows # <<>> => s.rows[1].lag \in Int
  BY InFleet, FleetsAssumption
<1>2. CASE i \notin failed
  <2>1. s.state = "up" /\ results[i] = CheckNode(s, {})
    BY <1>0, <1>2, Unharmed
  <2>2. ReplicaRows(s, {}) = s.rows
    BY <1>1, <2>1 DEF ReplicaRows
  <2>3. CASE flags.metric = "repl-lag"
    BY <1>1, <1>2, <2>1, <2>2, <2>3 DEF CheckNode, Reading, TrueStatus
  <2>4. CASE flags.metric # "repl-lag"
    BY <1>2, <2>1, <2>4 DEF CheckNode, Reading, TrueStatus
  <2>5. QED
    BY <2>3, <2>4
<1>3. CASE i \in failed /\ results[i] # "UNKNOWN"
  <2>1. PICK lost \in SUBSET Queries : results[i] = CheckNode(s, lost)
    BY <1>0 DEF SweepInv, Told
  <2>2. Reading(s, lost) # <<>> /\ results[i] = StatusOf(Reading(s, lost)[1])
    BY <1>3, <2>1 DEF CheckNode
  <2>3. ReplicaRows(s, lost) \in {s.rows, <<>>}
    BY DEF ReplicaRows
  <2>4. CASE flags.metric = "repl-lag"
    BY <1>1, <1>3, <2>2, <2>3, <2>4 DEF Reading, TrueStatus
  <2>5. CASE flags.metric # "repl-lag"
    BY <1>3, <2>2, <2>5 DEF Reading, TrueStatus
  <2>6. QED
    BY <2>4, <2>5
<1>4. QED
  BY <1>2, <1>3

\* The worst result is also the worst of the truth.
LEMMA WorstOfAll == CommandsInv => ExitIsWorst
<1> SUFFICES ASSUME CommandsInv, command = "check", stage = "ended", results # <<>>
             PROVE  ExitIsWorst
  BY DEF ExitIsWorst
<1> DEFINE worst(i) == IF i \in failed /\ results[i] = "UNKNOWN" THEN 4
                       ELSE Rank(TrueStatus(fleet[i]))
           ranks == {worst(i) : i \in DOMAIN fleet}
<1>1. SweepInv /\ DOMAIN results = DOMAIN fleet
  BY Visited DEF CommandsInv
<1>2. \A i \in DOMAIN fleet : worst(i) = Rank(results[i])
  BY <1>1, TrueRank, Ranks
<1>3. PICK i \in DOMAIN results : /\ exit = ExitCodes[Rank(results[i])]
                                  /\ \A j \in DOMAIN results : Rank(results[j]) <= Rank(results[i])
  BY DEF CommandsInv, ExitInv, GivesWorst
<1>4. \A j \in DOMAIN results : Rank(results[j]) \in 1..4
  BY <1>1, ChecksAreVerdicts, Ranks
<1>5. Rank(results[i]) \in ranks /\ \A q \in ranks : q <= Rank(results[i]) /\ q \in 1..4
  BY <1>1, <1>2, <1>3, <1>4
<1> HIDE DEF ranks
<1>6. (CHOOSE r \in ranks : \A q \in ranks : q <= r) = Rank(results[i])
  <2>1. \A r \in ranks : (\A q \in ranks : q <= r) <=> r = Rank(results[i])
    BY <1>5
  <2>2. QED
    BY <1>5, <2>1
<1>7. exit = ExitCodes[CHOOSE r \in ranks : \A q \in ranks : q <= r]
  BY <1>3, <1>6
<1>8. QED
  BY <1>7 DEF ExitIsWorst, ranks

\* The exit code of a check is that of its worst server, however many there are,
\* whichever of them fail and whatever the thresholds.
THEOREM ExitTellsTheWorst == Spec => []ExitIsWorst
BY CommandsInvariant, WorstOfAll, PTL

\* Where nothing failed, the replica status is that of the server.
LEMMA UnharmedRows ==
  ASSUME SweepInv, NEW i \in DOMAIN results, i \notin failed, Queries # {}
  PROVE  fleet[i].state = "up" /\ ReplicaRows(fleet[i], {}) = fleet[i].rows
BY Unharmed, InFleet, FleetsAssumption DEF ReplicaRows

LEMMA NodeFields ==
  ASSUME NEW s, NEW lost
  PROVE  LET n == TopologyNode(s, lost)
             rows == queryReplInfo(s, lost)
         IN  /\ n.instance = s.label /\ n.replicas = <<>>
             /\ n.role = IF s.state = "bad" THEN "unknown"
                         ELSE IF rows = <<>> THEN "source" ELSE "replica"
             /\ n.source = IF rows = <<>> THEN NoHost ELSE rows[1].source
<1> DEFINE n == TopologyNode(s, lost)
<1>1. n.instance = s.label
  BY DEF TopologyNode
<1>2. n.replicas = <<>>
  BY DEF TopologyNode
<1>3. n.role = IF s.state = "bad" THEN "unknown"
               ELSE IF queryReplInfo(s, lost) = <<>> THEN "source" ELSE "replica"
  BY DEF TopologyNode
<1>4. n.source = IF queryReplInfo(s, lost) = <<>> THEN NoHost ELSE queryReplInfo(s, lost)[1].source
  BY DEF TopologyNode
<1>5. QED
  BY <1>1, <1>2, <1>3, <1>4

\* What topology makes of the replica status: the rows of a server that names its
\* source, and those of no other.
LEMMA InfoTells ==
  ASSUME NEW s, NEW lost
  PROVE  LET rows == queryReplInfo(s, lost)
         IN  /\ rows # <<>> => rows = s.rows /\ Replicates(s)
             /\ ReplicaRows(s, lost) = s.rows => (rows # <<>> <=> Replicates(s))
BY DEF queryReplInfo, ReplicaRows, Replicates

\* Each command on its own.
LEMMA TopologySees ==
  ASSUME SweepInv, NEW i \in DOMAIN results, i \notin failed, command = "topology"
  PROVE  results[i].role = "replica" <=> Replicates(fleet[i])
<1> DEFINE s == fleet[i]
           rows == queryReplInfo(s, {})
<1>1. results[i] = TopologyNode(s, {}) /\ s.state # "bad"
  BY Unharmed DEF Yield
<1>2. ReplicaRows(s, {}) = s.rows
  BY UnharmedRows DEF Queries, Statements
<1>3. rows # <<>> <=> Replicates(s)
  BY <1>2, InfoTells
<1>4. TopologyNode(s, {}).role = IF s.state = "bad" THEN "unknown"
                                 ELSE IF rows = <<>> THEN "source" ELSE "replica"
  BY NodeFields
<1> HIDE DEF s, rows
<1>5. results[i].role = IF rows = <<>> THEN "source" ELSE "replica"
  BY <1>1, <1>4, Zenon
<1>6. QED
  BY <1>3, <1>5 DEF s

LEMMA StatusSees ==
  ASSUME SweepInv, NEW i \in DOMAIN results, i \notin failed, command = "status"
  PROVE  /\ results[i].state # "not replicating" <=> fleet[i].rows # <<>>
         /\ results[i].lag = "known" <=> fleet[i].rows # <<>> /\ fleet[i].rows[1].lag >= 0
<1> DEFINE s == fleet[i]
<1>1. results[i] = collectStatus(s, {}) /\ s.state # "bad"
  BY Unharmed DEF Yield
<1>2. ReplicaRows(s, {}) = s.rows
  BY UnharmedRows DEF Queries, StatusQueries
<1>3. results[i].state = ReplState(s.rows) /\ results[i].lag = ReplLag(s.rows)
  BY <1>1, <1>2 DEF collectStatus
<1>4. s.rows # <<>> => s.rows[1].lag \in Int
  BY InFleet, FleetsAssumption
<1>5. results[i].state # "not replicating" <=> s.rows # <<>>
  BY <1>3 DEF ReplState
<1>6. results[i].lag = "known" <=> s.rows # <<>> /\ s.rows[1].lag >= 0
  BY <1>3, <1>4 DEF ReplLag
<1>7. QED
  BY <1>5, <1>6

LEMMA ReportSees ==
  ASSUME SweepInv, NEW i \in DOMAIN results, i \notin failed, command = "report"
  PROVE  results[i].replication <=> fleet[i].rows # <<>>
<1> DEFINE s == fleet[i]
<1>1. results[i] = collectNodeReport(s, {}) /\ s.state # "bad"
  BY Unharmed DEF Yield
<1>2. ReplicaRows(s, {}) = s.rows
  BY UnharmedRows DEF Queries, ReportQueries
<1>3. results[i].replication = (s.rows # <<>>)
  BY <1>1, <1>2 DEF collectNodeReport
<1>4. QED
  BY <1>3

LEMMA CheckSees ==
  ASSUME SweepInv, NEW i \in DOMAIN results, i \notin failed,
         command = "check", flags.metric = "repl-lag"
  PROVE  results[i] # "UNKNOWN" <=> fleet[i].rows # <<>> /\ fleet[i].rows[1].lag >= 0
<1> DEFINE s == fleet[i]
<1>1. results[i] = CheckNode(s, {})
  BY Unharmed DEF Yield
<1>2. ReplicaRows(s, {}) = s.rows
  BY UnharmedRows DEF Queries, CheckQueries, Statements
<1>3. s.rows # <<>> => s.rows[1].lag \in Int
  BY InFleet, FleetsAssumption
<1>4. QED
  BY <1>1, <1>2, <1>3 DEF CheckNode, Reading, StatusOf

LEMMA SeenWhereItIs == CommandsInv => ReplicaSeen
BY TopologySees, StatusSees, ReportSees, CheckSees DEF CommandsInv, ReplicaSeen

\* status, report, topology and check each see a replica where one is, by what
\* they go by, and nowhere else, for all fleets, flags and statements spoken.
THEOREM ReplicasAreSeen == Spec => []ReplicaSeen
BY CommandsInvariant, SeenWhereItIs, PTL

(***************************************************************************)
(* topology                                                                *)
(***************************************************************************)
Registered(k, host) == results[k].role = "replica" /\ results[k].source = host

\* The list of a host, one node at a time.
LEMMA ListChain ==
  ASSUME IsSeq(results), NEW host, NEW L, \A i \in DOMAIN results : results[i].instance \in L
  PROVE  \E v \in [0..Len(results) -> Seq(L)] :
           /\ v[0] = <<>> /\ v[Len(results)] = replicaOf(results, host)
           /\ \A i \in 1..Len(results) : v[i] = Register(results[i], host, v[i - 1])
<1> DEFINE N == Len(results)
           H == [i \in 1..N |-> [v \in Seq(L) |-> Register(results[i], host, v)]]
           Eq(g) == g = [s \in SUBSET DOMAIN results |->
                           IF s = {} THEN <<>> ELSE Register(results[Max(s)], host, g[s \ {Max(s)}])]
           it == CHOOSE g : Eq(g)
<1>1. N \in Nat /\ DOMAIN results = 1..N
  BY ResultsAreSeq
<1>2. H \in [1..N -> [Seq(L) -> Seq(L)]]
  BY <1>1, AppendProperties DEF Register
<1>3. <<>> \in Seq(L)
  BY EmptySeq
<1>4. \A s \in SUBSET (1..N) : s # {} => Max(s) \in 1..N
  BY <1>1, MaxIn
<1>5. \E g : Eq(g)
  <2>1. PICK g \in [SUBSET (1..N) -> Seq(L)] : FoldsBy(g, N, <<>>, H)
    <3> HIDE DEF N, H
    <3>1. QED
      BY <1>1, <1>2, <1>3, FoldExists
  <2>2. ASSUME NEW s \in SUBSET (1..N)
        PROVE  g[s] = IF s = {} THEN <<>> ELSE Register(results[Max(s)], host, g[s \ {Max(s)}])
    BY <1>4, <2>1 DEF FoldsBy
  <2>3. QED
    BY <1>1, <2>2
<1>6. Eq(it)
  <2> HIDE DEF Eq
  <2>1. QED
    BY <1>5, Zenon
<1>7. IsFold(it, N, Seq(L), <<>>, H)
  <2> HIDE DEF it
  <2>1. QED
    BY <1>1, <1>4, <1>6 DEF IsFold
<1>8. replicaOf(results, host) = it[1..N]
  BY <1>1, Zenon DEF replicaOf, FoldLeft, MapThenFoldSet
<1>9. QED
  <2>1. PICK v : IsChain(v, N, Seq(L), <<>>, H) /\ v[N] = it[1..N]
    <3> DEFINE none == <<>>
    <3>1. none \in Seq(L) /\ IsFold(it, N, Seq(L), none, H)
      BY <1>3, <1>7
    <3> HIDE DEF N, H, it, none
    <3>2. \E v : IsChain(v, N, Seq(L), none, H) /\ v[N] = it[1..N]
      BY <1>1, <1>2, <3>1, FoldChain
    <3>3. QED
      BY <3>2 DEF none
  <2>2. ASSUME NEW i \in 1..N PROVE v[i] = Register(results[i], host, v[i - 1])
    <3>1. i - 1 \in 0..N
      BY <1>1
    <3>2. v[i - 1] \in Seq(L) /\ v[i] = H[i][v[i - 1]]
      BY <2>1, <3>1 DEF IsChain
    <3>3. QED
      BY <3>2
  <2>3. QED
    BY <1>8, <2>1, <2>2 DEF IsChain

\* It holds the instances that registered, and no others.
LEMMA ListHolds ==
  ASSUME IsSeq(results), NEW host
  PROVE  LET list == replicaOf(results, host)
         IN  /\ \A l : Contains(list, l) <=>
                         \E k \in DOMAIN results : Registered(k, host) /\ results[k].instance = l
             /\ list # <<>> <=> \E k \in DOMAIN results : Registered(k, host)
<1> DEFINE N == Len(results)
           L == {results[k].instance : k \in DOMAIN results}
           Holds(list, n) ==
             /\ \A l : Contains(list, l) <=> \E k \in 1..n : Registered(k, host) /\ results[k].instance = l
             /\ list # <<>> <=> \E k \in 1..n : Registered(k, host)
<1>1. N \in Nat /\ DOMAIN results = 1..N
  BY ResultsAreSeq
<1>2. PICK v \in [0..N -> Seq(L)] :
        /\ v[0] = <<>> /\ v[N] = replicaOf(results, host)
        /\ \A i \in 1..N : v[i] = Register(results[i], host, v[i - 1])
  BY ListChain
<1> DEFINE S == {n \in Nat : n <= N => Holds(v[n], n)}
<1>3. 0 \in S
  BY <1>2 DEF Contains
<1>4. ASSUME NEW n \in Nat, n \in S, n + 1 <= N PROVE Holds(v[n + 1], n + 1)
  <2>1. n <= N /\ n \in 0..N /\ n + 1 \in 1..N /\ (n + 1) - 1 = n /\ n + 1 \in DOMAIN results
    BY <1>1, <1>4
  <2>2. Holds(v[n], n) /\ v[n] \in Seq(L)
    BY <1>4, <2>1
  <2> DEFINE y == results[n + 1].instance
  <2>3. v[n + 1] = Register(results[n + 1], host, v[n]) /\ y \in L
    BY <1>2, <2>1
  <2>4. 1..(n + 1) = 1..n \cup {n + 1}
    OBVIOUS
  <2>5. CASE Registered(n + 1, host)
    <3>1. v[n + 1] = Append(v[n], y)
      BY <2>3, <2>5 DEF Register, Registered
    <3> HIDE DEF Holds, y, L, N
    <3>2. /\ Append(v[n], y) # <<>> /\ Len(Append(v[n], y)) = Len(v[n]) + 1 /\ Len(v[n]) \in Nat
          /\ \A i \in 1..Len(v[n]) : Append(v[n], y)[i] = v[n][i]
          /\ Append(v[n], y)[Len(v[n]) + 1] = y
      BY <2>2, <2>3, AppendProperties, LenProperties
    <3>3. \A l : Contains(v[n + 1], l) <=> Contains(v[n], l) \/ l = y
      BY <3>1, <3>2 DEF Contains
    <3>4. QED
      BY <2>2, <2>4, <2>5, <3>1, <3>2, <3>3 DEF Holds, y
  <2>6. CASE ~Registered(n + 1, host)
    <3>1. v[n + 1] = v[n]
      BY <2>3, <2>6 DEF Register, Registered
    <3>2. QED
      BY <2>2, <2>4, <2>6, <3>1
  <2>7. QED
    BY <2>5, <2>6
<1> HIDE DEF Holds
<1>5. ASSUME NEW n \in Nat, n \in S PROVE n + 1 \in S
  <2>1. n + 1 \in Nat
    OBVIOUS
  <2>2. QED
    BY <1>4, <1>5, <2>1, Zenon
<1> HIDE DEF S
<1>6. N \in S
  BY <1>1, <1>3, <1>5, NatSets
<1>7. Holds(replicaOf(results, host), N)
  BY <1>1, <1>2, <1>6 DEF S
<1>8. QED
  BY <1>1, <1>7 DEF Holds

\* What a node says of its server.
LEMMA NodeTells ==
  ASSUME SweepInv, command = "topology", NEW i \in DOMAIN results
  PROVE  /\ results[i].instance = fleet[i].label /\ results[i].replicas = <<>>
         /\ \E lost \in SUBSET Queries : results[i] = TopologyNode(fleet[i], lost)
         /\ results[i].role = "replica" => Replicates(fleet[i])
         /\ \A host : Registered(i, host) => Follows(fleet[i], host)
         /\ i \notin failed => results[i].role = IF Replicates(fleet[i]) THEN "replica" ELSE "source"
         /\ i \notin failed => \A host : Follows(fleet[i], host) => Registered(i, host)
<1> DEFINE s == fleet[i]
<1>1. PICK lost \in SUBSET Queries :
        results[i] = TopologyNode(s, lost) /\ (i \in failed <=> lost # {} \/ s.state = "bad")
  BY DEF SweepInv, Told, Yield
<1> DEFINE rows == queryReplInfo(s, lost)
<1>2. /\ results[i].instance = s.label /\ results[i].replicas = <<>>
      /\ results[i].role = IF s.state = "bad" THEN "unknown"
                           ELSE IF rows = <<>> THEN "source" ELSE "replica"
      /\ results[i].source = IF rows = <<>> THEN NoHost ELSE rows[1].source
  <2> DEFINE n == TopologyNode(s, lost)
  <2>1. /\ n.instance = s.label /\ n.replicas = <<>>
        /\ n.role = IF s.state = "bad" THEN "unknown" ELSE IF rows = <<>> THEN "source" ELSE "replica"
        /\ n.source = IF rows = <<>> THEN NoHost ELSE rows[1].source
    BY NodeFields
  <2>2. results[i] = n
    BY <1>1
  <2> HIDE DEF n, rows, s
  <2>3. QED
    BY <2>1, <2>2, Zenon
<1>3. rows # <<>> => rows = s.rows /\ Replicates(s)
  BY InfoTells
<1>4. i \notin failed => (rows # <<>> <=> Replicates(s)) /\ s.state # "bad"
  <2>1. SUFFICES ASSUME i \notin failed PROVE (rows # <<>> <=> Replicates(s)) /\ s.state # "bad"
    OBVIOUS
  <2>2. Queries # {}
    BY DEF Queries, Statements
  <2>3. lost = {} /\ s.state = "up" /\ ReplicaRows(s, {}) = s.rows
    BY <1>1, <2>1, <2>2, UnharmedRows
  <2>4. QED
    BY <2>3, InfoTells
<1> HIDE DEF s, rows
<1>5. /\ results[i].role = "replica" <=> s.state # "bad" /\ rows # <<>>
      /\ results[i].role = "source" <=> s.state # "bad" /\ rows = <<>>
      /\ rows # <<>> => results[i].source = rows[1].source
  BY <1>2
<1>6. \A host : Registered(i, host) => Follows(s, host)
  BY <1>3, <1>5, Zenon DEF Registered, Follows
<1>7. i \notin failed => \A host : Follows(s, host) => Registered(i, host)
  BY <1>3, <1>4, <1>5, Zenon DEF Registered, Follows
<1>8. i \notin failed => results[i].role = IF Replicates(s) THEN "replica" ELSE "source"
  BY <1>4, <1>5
<1>9. results[i].role = "replica" => Replicates(s)
  BY <1>3, <1>5, Zenon
<1>10. QED
  BY <1>1, <1>2, <1>6, <1>7, <1>8, <1>9, Zenon DEF s

\* What the second pass makes of it.
LEMMA EnrichTells ==
  ASSUME SweepInv, command = "topology", NEW i \in DOMAIN results
  PROVE  LET list == replicaOf(results, hostPart(fleet[i].label))
             node == discoverTopology[i]
         IN  /\ node.role = IF results[i].role = "replica" /\ list # <<>> THEN "intermediate"
                            ELSE results[i].role
             /\ node.replicas = IF results[i].role = "source" THEN list ELSE <<>>
<1> DEFINE r == results[i]
           list == replicaOf(results, hostPart(fleet[i].label))
<1>1. r.instance = fleet[i].label /\ r.replicas = <<>> /\ \E s, lost : r = TopologyNode(s, lost)
  BY NodeTells
<1>2. discoverTopology[i] = Enrich(results, r) /\ replicaOf(results, hostPart(r.instance)) = list
  BY <1>1 DEF discoverTopology
<1> HIDE DEF list
<1>3. [r EXCEPT !.replicas = list].role = r.role /\ [r EXCEPT !.replicas = list].replicas = list
      /\ [r EXCEPT !.role = "intermediate"].role = "intermediate"
      /\ [r EXCEPT !.role = "intermediate"].replicas = r.replicas
  BY <1>1 DEF TopologyNode
<1> HIDE DEF r
<1>4. Enrich(results, r).role = IF r.role = "replica" /\ list # <<>> THEN "intermediate" ELSE r.role
  BY <1>2, <1>3 DEF Enrich
<1>5. Enrich(results, r).replicas = IF r.role = "source" THEN list ELSE <<>>
  BY <1>1, <1>2, <1>3 DEF Enrich
<1>6. QED
  BY <1>2, <1>4, <1>5 DEF r, list

\* On fleets where hosts identify servers, and sources are hosts, a host is the
\* part of the label in front of its port.
LEMMA TopologyTrue == CommandsInv => TopologyTellsTruth
<1> SUFFICES ASSUME CommandsInv, command = "topology", stage = "ended", results # <<>>
             PROVE  TopologyTellsTruth
  BY DEF TopologyTellsTruth
<1> DEFINE nodes == discoverTopology
           Listed(i) == {j \in DOMAIN fleet : Contains(nodes[i].replicas, fleet[j].label)}
           Following(i) == {j \in DOMAIN fleet : Follows(fleet[j], Host(fleet[i]))}
           list(i) == replicaOf(results, hostPart(fleet[i].label))
<1>1. SweepInv /\ DOMAIN results = DOMAIN fleet /\ IsSeq(results)
  BY Visited DEF CommandsInv, SweepInv
<1>2. ASSUME NEW i \in DOMAIN fleet
      PROVE  /\ nodes[i].role = IF results[i].role = "replica" /\ list(i) # <<>>
                                THEN "intermediate" ELSE results[i].role
             /\ nodes[i].replicas = IF results[i].role = "source" THEN list(i) ELSE <<>>
  BY <1>1, EnrichTells
<1>3. ASSUME NEW i \in DOMAIN fleet
      PROVE  /\ \A l : Contains(list(i), l) <=>
                         \E k \in DOMAIN fleet : Registered(k, hostPart(fleet[i].label))
                                                 /\ fleet[k].label = l
             /\ list(i) # <<>> <=> \E k \in DOMAIN fleet : Registered(k, hostPart(fleet[i].label))
  <2>1. \A k \in DOMAIN fleet : results[k].instance = fleet[k].label
    BY <1>1, NodeTells
  <2> DEFINE host == hostPart(fleet[i].label)
  <2> HIDE DEF host
  <2>2. /\ \A l : Contains(replicaOf(results, host), l) <=>
                     \E k \in DOMAIN results : Registered(k, host) /\ results[k].instance = l
        /\ replicaOf(results, host) # <<>> <=> \E k \in DOMAIN results : Registered(k, host)
    BY <1>1, ListHolds
  <2>3. QED
    BY <1>1, <2>1, <2>2, Zenon DEF host
\* A server that registered for the host part of a label follows that host.
<1>4. ASSUME NEW i \in DOMAIN fleet, NEW k \in DOMAIN fleet,
             Registered(k, hostPart(fleet[i].label))
      PROVE  Follows(fleet[k], Host(fleet[i])) /\ hostPart(fleet[i].label) = Host(fleet[i])
  <2>1. /\ Follows(fleet[k], hostPart(fleet[i].label))
        /\ fleet[k].rows # <<>> /\ fleet[k].rows[1].source = hostPart(fleet[i].label)
    BY <1>1, <1>4, NodeTells DEF Follows, Replicates
  <2>2. fleet[k].rows[1].source # "["
    BY <1>1, <2>1, InFleet, TopologyAssumption
  <2>3. hostPart(fleet[i].label) = Host(fleet[i])
    BY <2>1, <2>2 DEF hostPart, Host
  <2>4. QED
    BY <2>1, <2>3
<1>5. ASSUME NEW i \in DOMAIN fleet, nodes[i].role \in {"replica", "intermediate"}
      PROVE  Replicates(fleet[i])
  <2>1. results[i].role # "intermediate"
    <3>1. PICK lost \in SUBSET Queries : results[i] = TopologyNode(fleet[i], lost)
      BY <1>1, NodeTells
    <3>2. TopologyNode(fleet[i], lost).role \in {"unknown", "source", "replica"}
      BY NodeFields
    <3>3. QED
      BY <3>1, <3>2
  <2>2. results[i].role = "replica"
    BY <1>2, <1>5, <2>1
  <2>3. QED
    BY <1>1, <2>2, NodeTells
<1>6. ASSUME NEW i \in DOMAIN fleet, NEW j \in Listed(i)
      PROVE  \E k \in Following(i) : fleet[k].label = fleet[j].label
  <2>1. Contains(list(i), fleet[j].label)
    BY <1>2 DEF Contains
  <2>2. PICK k \in DOMAIN fleet : Registered(k, hostPart(fleet[i].label))
                                  /\ fleet[k].label = fleet[j].label
    BY <1>3, <2>1
  <2>3. QED
    BY <1>4, <2>2
<1>7. ASSUME failed = {}, HostsIdentify, NEW i \in DOMAIN fleet
      PROVE  /\ nodes[i].role = TrueRole(fleet[i])
             /\ nodes[i].role = "source" => Listed(i) = Following(i)
  <2>1. hostPart(fleet[i].label) = Host(fleet[i])
    BY <1>7 DEF HostsIdentify, hostPart, Host
  <2>2. \A k \in DOMAIN fleet : Registered(k, Host(fleet[i])) <=> Follows(fleet[k], Host(fleet[i]))
    BY <1>1, <1>7, NodeTells
  <2>3. results[i].role = IF Replicates(fleet[i]) THEN "replica" ELSE "source"
    BY <1>1, <1>7, NodeTells
  <2>4. list(i) # <<>> <=> \E r \in ToSet(fleet) : Follows(r, Host(fleet[i]))
    BY <1>3, <2>1, <2>2 DEF ToSet
  <2>5. nodes[i].role = TrueRole(fleet[i])
    BY <1>2, <2>3, <2>4 DEF TrueRole
  <2>6. ASSUME nodes[i].role = "source" PROVE Listed(i) = Following(i)
    <3>1. nodes[i].replicas = list(i)
      BY <1>2, <2>3, <2>6
    <3>2. ASSUME NEW j \in DOMAIN fleet
          PROVE  Contains(list(i), fleet[j].label) <=> Follows(fleet[j], Host(fleet[i]))
      <4>1. ASSUME Contains(list(i), fleet[j].label) PROVE Follows(fleet[j], Host(fleet[i]))
        <5>1. PICK k \in DOMAIN fleet : Registered(k, hostPart(fleet[i].label))
                                        /\ fleet[k].label = fleet[j].label
          BY <1>3, <4>1
        <5>2. Host(fleet[k]) = Host(fleet[j])
          BY <5>1 DEF Host
        <5>3. k = j
          BY <1>7, <5>2 DEF HostsIdentify
        <5>4. QED
          BY <2>1, <2>2, <5>1, <5>3
      <4>2. ASSUME Follows(fleet[j], Host(fleet[i])) PROVE Contains(list(i), fleet[j].label)
        BY <1>3, <2>1, <2>2, <4>2
      <4>3. QED
        BY <4>1, <4>2
    <3>3. QED
      BY <3>1, <3>2
  <2>7. QED
    BY <2>5, <2>6
<1>8. QED
  BY <1>5, <1>6, <1>7 DEF TopologyTellsTruth

\* What the topology says of who follows whom is true of every fleet, and all of
\* it is said if nothing failed.
THEOREM TopologyIsTrue == Spec => []TopologyTellsTruth
BY CommandsInvariant, TopologyTrue, PTL

(***************************************************************************)
(* doctor                                                                  *)
(***************************************************************************)
\* The sum of a field, one result at a time.
LEMMA CountChain ==
  ASSUME IsSeq(results), NEW field, \A i \in DOMAIN results : results[i][field] \in Nat
  PROVE  \E v \in [0..Len(results) -> Nat] :
           /\ v[0] = 0 /\ v[Len(results)] = Count(field)
           /\ \A i \in 1..Len(results) : v[i] = v[i - 1] + results[i][field]
<1> DEFINE N == Len(results)
           H == [i \in 1..N |-> [n \in Nat |-> n + results[i][field]]]
           Eq(g) == g = [s \in SUBSET DOMAIN results |->
                           IF s = {} THEN 0 ELSE g[s \ {Max(s)}] + results[Max(s)][field]]
           it == CHOOSE g : Eq(g)
<1>1. N \in Nat /\ DOMAIN results = 1..N
  BY ResultsAreSeq
<1>2. H \in [1..N -> [Nat -> Nat]]
  BY <1>1
<1>3. \A s \in SUBSET (1..N) : s # {} => Max(s) \in 1..N
  BY <1>1, MaxIn
<1>4. \E g : Eq(g)
  <2>1. PICK g \in [SUBSET (1..N) -> Nat] : FoldsBy(g, N, 0, H)
    <3> HIDE DEF N, H
    <3>1. QED
      BY <1>1, <1>2, FoldExists
  <2>2. ASSUME NEW s \in SUBSET (1..N)
        PROVE  g[s] = IF s = {} THEN 0 ELSE g[s \ {Max(s)}] + results[Max(s)][field]
    BY <1>3, <2>1 DEF FoldsBy
  <2>3. QED
    BY <1>1, <2>2
<1>5. Eq(it)
  <2> HIDE DEF Eq
  <2>1. QED
    BY <1>4, Zenon
<1>6. IsFold(it, N, Nat, 0, H)
  <2> HIDE DEF it
  <2>1. QED
    BY <1>1, <1>3, <1>5 DEF IsFold
<1>7. Count(field) = it[1..N]
  BY <1>1, Zenon DEF Count, FoldLeft, MapThenFoldSet
<1>8. QED
  <2>1. PICK v : IsChain(v, N, Nat, 0, H) /\ v[N] = it[1..N]
    <3> DEFINE A == Nat
               zero == 0
    <3>1. zero \in A /\ IsFold(it, N, A, zero, H) /\ H \in [1..N -> [A -> A]]
      BY <1>2, <1>6
    <3> HIDE DEF N, H, it, A, zero
    <3>2. \E v : IsChain(v, N, A, zero, H) /\ v[N] = it[1..N]
      BY <1>1, <3>1, FoldChain
    <3>3. QED
      BY <3>2 DEF A, zero
  <2>2. ASSUME NEW i \in 1..N PROVE v[i] = v[i - 1] + results[i][field]
    <3>1. i - 1 \in 0..N
      BY <1>1
    <3>2. v[i - 1] \in Nat /\ v[i] = H[i][v[i - 1]]
      BY <2>1, <3>1 DEF IsChain
    <3>3. QED
      BY <3>2
  <2>3. QED
    BY <1>7, <2>1, <2>2 DEF IsChain

LEMMA SumsCompare ==
  ASSUME NEW a \in Nat, NEW b \in Nat, NEW c \in Nat, NEW d \in Nat, a <= b, c <= d
  PROVE  /\ a + c <= b + d
         /\ a + c < b + d <=> a < b \/ c < d
         /\ a + c = 0 <=> a = 0 /\ c = 0
OBVIOUS

\* Sums of numbers that are bounded, one by one, by others.
LEMMA CountsCompare ==
  ASSUME IsSeq(results),
         \A i \in DOMAIN results : /\ results[i].passed \in Nat /\ results[i].total \in Nat
                                   /\ results[i].passed <= results[i].total
  PROVE  /\ Count("passed") \in Nat /\ Count("total") \in Nat
         /\ Count("passed") < Count("total") <=>
              \E i \in DOMAIN results : results[i].passed < results[i].total
         /\ Count("passed") = 0 <=> \A i \in DOMAIN results : results[i].passed = 0
<1> DEFINE N == Len(results)
<1>1. N \in Nat /\ DOMAIN results = 1..N
  BY ResultsAreSeq
<1>2. PICK p \in [0..N -> Nat] : /\ p[0] = 0 /\ p[N] = Count("passed")
                                 /\ \A i \in 1..N : p[i] = p[i - 1] + results[i].passed
  BY CountChain
<1>3. PICK t \in [0..N -> Nat] : /\ t[0] = 0 /\ t[N] = Count("total")
                                 /\ \A i \in 1..N : t[i] = t[i - 1] + results[i].total
  BY CountChain
<1> HIDE DEF N
<1> DEFINE S == {n \in Nat : n <= N =>
                   /\ p[n] <= t[n]
                   /\ p[n] < t[n] <=> \E i \in 1..n : results[i].passed < results[i].total
                   /\ p[n] = 0 <=> \A i \in 1..n : results[i].passed = 0}
<1>4. 0 \in S
  BY <1>2, <1>3
<1>5. ASSUME NEW n \in Nat, n \in S PROVE n + 1 \in S
  <2>1. n + 1 \in Nat
    OBVIOUS
  <2> SUFFICES ASSUME n + 1 <= N
               PROVE  /\ p[n + 1] <= t[n + 1]
                      /\ p[n + 1] < t[n + 1] <=>
                           \E i \in 1..(n + 1) : results[i].passed < results[i].total
                      /\ p[n + 1] = 0 <=> \A i \in 1..(n + 1) : results[i].passed = 0
    BY <2>1, Zenon
  <2>2. n <= N /\ n \in 0..N /\ n + 1 \in 1..N /\ (n + 1) - 1 = n /\ n + 1 \in DOMAIN results
    BY <1>1
  <2>3. /\ p[n + 1] = p[n] + results[n + 1].passed /\ p[n] \in Nat
        /\ t[n + 1] = t[n] + results[n + 1].total /\ t[n] \in Nat
        /\ results[n + 1].passed \in Nat /\ results[n + 1].total \in Nat
        /\ results[n + 1].passed <= results[n + 1].total
    BY <1>2, <1>3, <2>2
  <2>4. /\ p[n] <= t[n]
        /\ p[n] < t[n] <=> \E i \in 1..n : results[i].passed < results[i].total
        /\ p[n] = 0 <=> \A i \in 1..n : results[i].passed = 0
    BY <1>5, <2>2
  <2>5. 1..(n + 1) = 1..n \cup {n + 1}
    OBVIOUS
  <2>6. /\ p[n + 1] <= t[n + 1]
        /\ p[n + 1] < t[n + 1] <=> p[n] < t[n] \/ results[n + 1].passed < results[n + 1].total
        /\ p[n + 1] = 0 <=> p[n] = 0 /\ results[n + 1].passed = 0
    <3> DEFINE c == results[n + 1].passed
               d == results[n + 1].total
    <3>1. p[n] \in Nat /\ t[n] \in Nat /\ c \in Nat /\ d \in Nat /\ p[n] <= t[n] /\ c <= d
      BY <2>3, <2>4
    <3>2. p[n + 1] = p[n] + c /\ t[n + 1] = t[n] + d
      BY <2>3
    <3> HIDE DEF c, d
    <3>3. /\ p[n] + c <= t[n] + d
          /\ p[n] + c < t[n] + d <=> p[n] < t[n] \/ c < d
          /\ p[n] + c = 0 <=> p[n] = 0 /\ c = 0
      BY <3>1, SumsCompare, Zenon
    <3>4. QED
      BY <3>2, <3>3, Zenon DEF c, d
  <2>7. QED
    BY <2>4, <2>5, <2>6
<1> HIDE DEF S
<1>6. N \in S
  BY <1>1, <1>4, <1>5, NatSets
<1>7. QED
  <2>1. /\ p[N] < t[N] <=> \E i \in 1..N : results[i].passed < results[i].total
        /\ p[N] = 0 <=> \A i \in 1..N : results[i].passed = 0
    BY <1>1, <1>6 DEF S
  <2>2. p[N] \in Nat /\ t[N] \in Nat
    BY <1>1
  <2>3. QED
    BY <1>1, <1>2, <1>3, <2>1, <2>2, Zenon

\* How many of the four permissions are there.
LEMMA FourPermissions ==
  /\ Cardinality(Permissions) = 4
  /\ \A lacking : Cardinality(Permissions \ lacking) \in 0..4
  /\ \A lacking : Cardinality(Permissions \ lacking) = 4 <=> Permissions \cap lacking = {}
<1>1. IsFiniteSet(Permissions) /\ Cardinality(Permissions) = 4
  <2>1. Cardinality({}) = 0 /\ IsFiniteSet({})
    BY FS_EmptySet
  <2> DEFINE A == {} \cup {"version"}
             B == A \cup {"global_status"}
             C == B \cup {"global_variables"}
             D == C \cup {"performance_schema"}
  <2>2. IsFiniteSet(A) /\ Cardinality(A) = 1
    BY <2>1, FS_AddElement
  <2>3. IsFiniteSet(B) /\ Cardinality(B) = 2
    <3>1. "global_status" \notin A
      OBVIOUS
    <3> HIDE DEF A
    <3>2. QED
      BY <2>2, <3>1, FS_AddElement
  <2>4. IsFiniteSet(C) /\ Cardinality(C) = 3
    <3>1. "global_variables" \notin B
      OBVIOUS
    <3> HIDE DEF B
    <3>2. QED
      BY <2>3, <3>1, FS_AddElement
  <2>5. IsFiniteSet(D) /\ Cardinality(D) = 4
    <3>1. "performance_schema" \notin C
      OBVIOUS
    <3> HIDE DEF C
    <3>2. QED
      BY <2>4, <3>1, FS_AddElement
  <2>6. Permissions = D
    BY DEF Permissions
  <2>7. QED
    BY <2>5, <2>6
<1>2. ASSUME NEW lacking
      PROVE  /\ Cardinality(Permissions \ lacking) \in 0..4
             /\ Cardinality(Permissions \ lacking) = 4 <=> Permissions \cap lacking = {}
  <2> DEFINE T == Permissions \ lacking
  <2>1. T \in SUBSET Permissions /\ (T = Permissions <=> Permissions \cap lacking = {})
    OBVIOUS
  <2> HIDE DEF T
  <2>2. /\ IsFiniteSet(T) /\ Cardinality(T) <= 4
        /\ Cardinality(T) = 4 => T = Permissions
    BY <1>1, <2>1, FS_Subset
  <2>3. Cardinality(T) \in Nat
    BY <2>2, FS_CardinalityType
  <2>4. QED
    BY <1>1, <2>1, <2>2, <2>3 DEF T
<1>3. QED
  BY <1>1, <1>2

Fit(s) == s.state = "up" /\ s.denied \cap Asked = {}

\* What the checks say of one server.
LEMMA DoctorTells ==
  ASSUME SweepInv, command = "doctor", NEW i \in DOMAIN results
  PROVE  /\ results[i].passed \in Nat /\ results[i].total \in Nat
         /\ results[i].passed <= results[i].total
         /\ results[i].passed = 0 <=> results[i].total = 1
         /\ results[i].passed = results[i].total => Fit(fleet[i])
         /\ i \notin failed /\ Fit(fleet[i]) => results[i].passed = results[i].total
<1> DEFINE s == fleet[i]
<1>0. Queries = DoctorQueries /\ "connect" \in DoctorQueries
  BY DEF Queries, DoctorQueries
<1>1. PICK lost \in SUBSET Queries :
        /\ results[i] = runDoctorChecks(s, lost)
        /\ s.state \notin {"bad", "up"} => lost = Queries
        /\ i \in failed <=> lost # {} \/ s.state = "bad"
  BY DEF SweepInv, Told, Yield
<1>2. s.state = "up" => Statements \cap s.speaks # {}
  BY InFleet, FleetsAssumption
<1>3. CASE s.state = "bad" \/ "connect" \in lost
  <2>1. results[i] = [passed |-> 0, total |-> 1]
    BY <1>1, <1>3 DEF runDoctorChecks
  <2>2. ~(i \notin failed /\ Fit(s))
    BY <1>1, <1>3 DEF Fit
  <2>3. QED
    BY <2>1, <2>2
<1>4. CASE s.state # "bad" /\ "connect" \notin lost
  <2> DEFINE k == Cardinality(Permissions \ (lost \cup s.denied))
             b == IF replCheck(s, lost) THEN 1 ELSE 0
  <2>1. s.state = "up"
    BY <1>0, <1>1, <1>4
  <2>2. results[i] = [passed |-> 1 + k + b, total |-> 6]
    BY <1>1, <1>4, FourPermissions DEF runDoctorChecks
  <2>3. k \in 0..4 /\ (k = 4 <=> Permissions \cap (lost \cup s.denied) = {})
    BY FourPermissions, Zenon
  <2>4. b \in {0, 1} /\ (b = 1 <=> replCheck(s, lost))
    OBVIOUS
  <2> HIDE DEF k, b
  <2>5. /\ results[i].passed \in 1..6 /\ results[i].total = 6
        /\ results[i].passed = 6 <=> k = 4 /\ b = 1
    BY <2>2, <2>3, <2>4
  <2>6. k = 4 /\ b = 1 => s.denied \cap Asked = {}
    BY <2>3, <2>4 DEF replCheck, Asked
  <2>7. ASSUME i \notin failed, Fit(s) PROVE k = 4 /\ b = 1
    <3>1. lost = {} /\ s.denied \cap Asked = {}
      BY <1>1, <2>7 DEF Fit
    <3>2. QED
      BY <1>2, <2>1, <2>3, <2>4, <3>1 DEF replCheck, Asked
  <2>8. QED
    BY <2>1, <2>5, <2>6, <2>7 DEF Fit
<1>5. QED
  BY <1>3, <1>4

\* At the end of doctor, summed up over the servers.
LEMMA DoctorTrue == CommandsInv => DoctorTellsTruth
<1> SUFFICES ASSUME CommandsInv, command = "doctor", stage = "ended", results # <<>>
             PROVE  /\ overallStatus = "healthy" => \A s \in ToSet(fleet) : Fit(s)
                    /\ failed = {} /\ (\A s \in ToSet(fleet) : Fit(s)) => overallStatus = "healthy"
                    /\ overallStatus = "unavailable" <=> \A i \in DOMAIN fleet : results[i].total = 1
  BY DEF DoctorTellsTruth, Fit
<1>1. SweepInv /\ DOMAIN results = DOMAIN fleet /\ IsSeq(results)
  BY Visited DEF CommandsInv, SweepInv
<1>2. DOMAIN results # {}
  <2>1. Len(results) # 0
    BY <1>1, EmptySeq DEF IsSeq
  <2>2. QED
    BY <1>1, <2>1, ResultsAreSeq
<1>3. \A i \in DOMAIN results :
        /\ results[i].passed \in Nat /\ results[i].total \in Nat
        /\ results[i].passed <= results[i].total
        /\ results[i].passed = 0 <=> results[i].total = 1
        /\ results[i].passed = results[i].total => Fit(fleet[i])
        /\ i \notin failed /\ Fit(fleet[i]) => results[i].passed = results[i].total
  BY <1>1, DoctorTells
<1>4. /\ Count("passed") \in Nat /\ Count("total") \in Nat
      /\ Count("passed") < Count("total") <=>
           \E i \in DOMAIN results : results[i].passed < results[i].total
      /\ Count("passed") = 0 <=> \A i \in DOMAIN results : results[i].passed = 0
  BY <1>1, <1>3, CountsCompare
<1>5. /\ overallStatus = "unavailable" <=> \A i \in DOMAIN results : results[i].passed = 0
      /\ overallStatus = "healthy" <=>
           /\ ~\A i \in DOMAIN results : results[i].passed = 0
           /\ \A i \in DOMAIN results : results[i].passed = results[i].total
  <2>1. (\E i \in DOMAIN results : results[i].passed < results[i].total) <=>
          ~\A i \in DOMAIN results : results[i].passed = results[i].total
    BY <1>3
  <2>2. QED
    BY <1>4, <2>1 DEF overallStatus
<1>6. (\A s \in ToSet(fleet) : Fit(s)) <=> \A i \in DOMAIN fleet : Fit(fleet[i])
  BY DEF ToSet
<1>7. overallStatus = "unavailable" <=> \A i \in DOMAIN fleet : results[i].total = 1
  BY <1>1, <1>3, <1>5
<1>8. overallStatus = "healthy" => \A i \in DOMAIN fleet : Fit(fleet[i])
  BY <1>1, <1>3, <1>5
<1>9. ASSUME failed = {}, \A i \in DOMAIN fleet : Fit(fleet[i]) PROVE overallStatus = "healthy"
  <2>1. \A i \in DOMAIN results : results[i].passed = results[i].total
    BY <1>1, <1>3, <1>9
  <2>2. \A i \in DOMAIN results : results[i].passed # 0
    BY <1>3, <2>1
  <2>3. QED
    BY <1>2, <1>5, <2>1, <2>2
<1>10. QED
  BY <1>6, <1>7, <1>8, <1>9

\* doctor calls a fleet healthy only if every server answers and permits what
\* doctor asks for, whatever else it denies, and unavailable exactly if none was
\* reached.
THEOREM DoctorIsTrue == Spec => []DoctorTellsTruth
BY CommandsInvariant, DoctorTrue, PTL

(***************************************************************************)
(* diff                                                                    *)
(***************************************************************************)
Maps(I, V) == UNION {[D -> V] : D \in SUBSET I}

\* nodeVars, one result at a time.
LEMMA VarsChain ==
  ASSUME IsSeq(results), NEW I, NEW V,
         \A i \in DOMAIN results : results[i].instance \in I /\ results[i].vars \in V
  PROVE  \E v : /\ v \in [0..Len(results) -> Maps(I, V)]
                /\ v[0] = <<>> /\ v[Len(results)] = nodeVars
                /\ \A i \in 1..Len(results) : v[i] = Put(v[i - 1], results[i])
<1> DEFINE N == Len(results)
           A == Maps(I, V)
           empty == <<>>
           H == [i \in 1..N |-> [m \in A |-> Put(m, results[i])]]
           Eq(g) == g = [s \in SUBSET DOMAIN results |->
                           IF s = {} THEN <<>> ELSE Put(g[s \ {Max(s)}], results[Max(s)])]
           it == CHOOSE g : Eq(g)
<1>1. N \in Nat /\ DOMAIN results = 1..N
  BY ResultsAreSeq
<1>2. empty \in A
  <2>1. empty \in [{} -> V]
    OBVIOUS
  <2>2. QED
    BY <2>1 DEF Maps
<1>3. H \in [1..N -> [A -> A]]
  <2> SUFFICES ASSUME NEW i \in 1..N, NEW m \in A PROVE Put(m, results[i]) \in A
    BY <1>1
  <2>1. PICK D \in SUBSET I : m \in [D -> V]
    BY DEF Maps
  <2>2. Put(m, results[i]) \in [D \cup {results[i].instance} -> V]
    BY <1>1, <2>1 DEF Put
  <2>3. D \cup {results[i].instance} \in SUBSET I
    BY <1>1
  <2>4. QED
    BY <2>2, <2>3 DEF Maps
<1>4. \A s \in SUBSET (1..N) : s # {} => Max(s) \in 1..N
  BY <1>1, MaxIn
<1>5. \E g : Eq(g)
  <2>1. PICK g \in [SUBSET (1..N) -> A] : FoldsBy(g, N, empty, H)
    <3> HIDE DEF N, H, A, empty
    <3>1. QED
      BY <1>1, <1>2, <1>3, FoldExists
  <2> HIDE DEF A
  <2>2. ASSUME NEW s \in SUBSET (1..N)
        PROVE  g[s] = IF s = {} THEN <<>> ELSE Put(g[s \ {Max(s)}], results[Max(s)])
    BY <1>4, <2>1 DEF FoldsBy
  <2>3. QED
    BY <1>1, <2>2
<1>6. Eq(it)
  <2> HIDE DEF Eq
  <2>1. QED
    BY <1>5, Zenon
<1>7. IsFold(it, N, A, empty, H)
  <2> HIDE DEF it, A
  <2>1. QED
    BY <1>1, <1>4, <1>6 DEF IsFold
<1>8. nodeVars = it[1..N]
  BY <1>1, Zenon DEF nodeVars, FoldLeft, MapThenFoldSet
<1>9. QED
  <2>1. PICK v : IsChain(v, N, A, empty, H) /\ v[N] = it[1..N]
    <3> HIDE DEF N, H, it, A, empty
    <3>1. QED
      BY <1>1, <1>2, <1>3, <1>7, FoldChain
  <2> HIDE DEF A
  <2>2. ASSUME NEW i \in 1..N PROVE v[i] = Put(v[i - 1], results[i])
    <3>1. i - 1 \in 0..N
      BY <1>1
    <3>2. v[i - 1] \in A /\ v[i] = H[i][v[i - 1]]
      BY <2>1, <3>1 DEF IsChain
    <3>3. QED
      BY <3>2
  <2>3. QED
    BY <1>8, <2>1, <2>2 DEF IsChain, A

\* Where no two results have a label in common, each has its variables there.
LEMMA VarsKept ==
  ASSUME IsSeq(results),
         \A i, j \in DOMAIN results : results[i].instance = results[j].instance => i = j
  PROVE  /\ DOMAIN nodeVars = {results[i].instance : i \in DOMAIN results}
         /\ \A i \in DOMAIN results : nodeVars[results[i].instance] = results[i].vars
<1> DEFINE N == Len(results)
           I == {results[i].instance : i \in DOMAIN results}
           V == {results[i].vars : i \in DOMAIN results}
<1>1. N \in Nat /\ DOMAIN results = 1..N
  BY ResultsAreSeq
<1>2. PICK v : /\ v \in [0..N -> Maps(I, V)]
               /\ v[0] = <<>> /\ v[N] = nodeVars
               /\ \A i \in 1..N : v[i] = Put(v[i - 1], results[i])
  <2>1. \A i \in DOMAIN results : results[i].instance \in I /\ results[i].vars \in V
    OBVIOUS
  <2> HIDE DEF I, V
  <2>2. QED
    BY <2>1, VarsChain, Zenon
<1> HIDE DEF I, V
<1> DEFINE S == {n \in Nat : n <= N =>
                   /\ DOMAIN v[n] = {results[i].instance : i \in 1..n}
                   /\ \A i \in 1..n : v[n][results[i].instance] = results[i].vars}
<1>3. 0 \in S
  <2>1. DOMAIN v[0] = {}
    BY <1>2
  <2>2. QED
    BY <2>1
<1>4. ASSUME NEW n \in Nat, n \in S PROVE n + 1 \in S
  <2>0. n + 1 \in Nat
    OBVIOUS
  <2> SUFFICES ASSUME n + 1 <= N
               PROVE  /\ DOMAIN v[n + 1] = {results[i].instance : i \in 1..(n + 1)}
                      /\ \A i \in 1..(n + 1) : v[n + 1][results[i].instance] = results[i].vars
    BY <2>0, Zenon
  <2> DEFINE r == results[n + 1]
  <2>1. /\ n <= N /\ n + 1 \in 1..N /\ v[n + 1] = Put(v[n], r)
        /\ \A i \in 1..n : i \in DOMAIN results /\ i # n + 1
        /\ 1..(n + 1) = 1..n \cup {n + 1}
    BY <1>1, <1>2
  <2>2. /\ DOMAIN v[n] = {results[i].instance : i \in 1..n}
        /\ \A i \in 1..n : v[n][results[i].instance] = results[i].vars
    BY <1>4, <2>1
  <2>3. \A i \in 1..n : results[i].instance # r.instance
    BY <1>1, <2>1
  <2>4. DOMAIN v[n + 1] = DOMAIN v[n] \cup {r.instance}
    BY <2>1 DEF Put
  <2>5. v[n + 1][r.instance] = r.vars
    BY <2>1 DEF Put
  <2>6. \A i \in 1..n : v[n + 1][results[i].instance] = results[i].vars
    BY <2>1, <2>2, <2>3 DEF Put
  <2> HIDE DEF r
  <2>7. QED
    BY <2>1, <2>2, <2>4, <2>5, <2>6 DEF r
<1> HIDE DEF S
<1>5. N \in S
  BY <1>1, <1>3, <1>4, NatSets
<1>6. QED
  <2>1. N <= N
    BY <1>1
  <2>2. /\ DOMAIN v[N] = {results[i].instance : i \in 1..N}
        /\ \A i \in 1..N : v[N][results[i].instance] = results[i].vars
    BY <1>5, <2>1, Zenon DEF S
  <2>3. QED
    BY <1>1, <1>2, <2>2, Zenon

\* As many labels as servers: no two have one in common.
LEMMA LabelsDiffer ==
  ASSUME SweepInv, Cardinality(Labels) = Len(fleet)
  PROVE  \A i, j \in DOMAIN fleet : fleet[i].label = fleet[j].label => i = j
<1> DEFINE N == Len(fleet)
           f == [i \in 1..N |-> fleet[i].label]
<1>1. N \in Nat /\ DOMAIN fleet = 1..N
  BY FleetIsSeq DEF SweepInv
<1>2. IsFiniteSet(1..N) /\ Cardinality(1..N) = N
  <2> HIDE DEF N
  <2>1. 1 \in Int /\ N \in Int /\ (IF 1 > N THEN 0 ELSE N - 1 + 1) = N
    BY <1>1
  <2>2. QED
    BY <2>1, FS_Interval
<1>3. f \in Surjection(1..N, Labels)
  BY <1>1 DEF Surjection, Labels
<1>4. f \in Injection(1..N, Labels)
  <2> HIDE DEF f, N
  <2>1. Cardinality(Labels) = Cardinality(1..N)
    BY <1>2 DEF N
  <2>2. QED
    BY <1>2, <1>3, <2>1, FS_Surjection
<1>5. ASSUME NEW i \in 1..N, NEW j \in 1..N, fleet[i].label = fleet[j].label PROVE i = j
  <2>1. f[i] = f[j]
    BY <1>5
  <2> HIDE DEF f
  <2>2. QED
    BY <1>4, <2>1 DEF Injection, IsInjective
<1>6. QED
  BY <1>1, <1>5, Zenon

\* What a result says of its server.
LEMMA VarsTell ==
  ASSUME SweepInv, command = "diff", NEW i \in DOMAIN results
  PROVE  /\ results[i].instance = fleet[i].label
         /\ i \notin failed => results[i].vars = fleet[i].setting
         /\ i \in failed => /\ DOMAIN results[i].vars = {"_error"}
                            /\ results[i].vars["_error"] # ""
<1>1. PICK lost : /\ results[i] = fetchGlobalVars(fleet[i], lost)
                  /\ i \in failed <=> lost # {} \/ fleet[i].state = "bad"
  BY DEF SweepInv, Told, Yield
<1> DEFINE r == fetchGlobalVars(fleet[i], lost)
<1>2. r.instance = fleet[i].label
  BY DEF fetchGlobalVars
<1>3. i \notin failed => r.vars = fleet[i].setting
  BY <1>1 DEF fetchGlobalVars
<1>4. ASSUME i \in failed PROVE DOMAIN r.vars = {"_error"} /\ r.vars["_error"] # ""
  <2> DEFINE text == IF fleet[i].state = "bad" THEN "invalid DSN" ELSE "SHOW GLOBAL VARIABLES"
  <2>1. r.vars = [name \in {"_error"} |-> text] /\ text # ""
    BY <1>1, <1>4 DEF fetchGlobalVars
  <2> HIDE DEF r, text
  <2>2. QED
    BY <2>1
<1>5. results[i] = r
  BY <1>1
<1> HIDE DEF r
<1>6. QED
  BY <1>2, <1>3, <1>4, <1>5, Zenon

\* At the end of a diff, with a label for every server.
LEMMA DiffTrue == CommandsInv => DiffTellsTruth
<1> SUFFICES ASSUME CommandsInv, command = "diff", exit = "0",
                    Cardinality(Labels) = Len(fleet)
             PROVE  /\ failed = {} =>
                         Marked = {name \in UNION {DOMAIN s.setting : s \in ToSet(fleet)} :
                                     \E s, t \in ToSet(fleet) : Setting(s, name) # Setting(t, name)}
                    /\ failed # {} /\ failed # DOMAIN fleet => "_error" \in Marked
  BY DEF DiffTellsTruth
<1> DEFINE val(i, name) == IF name \in DOMAIN results[i].vars THEN results[i].vars[name] ELSE ""
<1>1. SweepInv /\ IsSeq(results) /\ DOMAIN results = DOMAIN fleet /\ failed \subseteq DOMAIN fleet
  BY Visited DEF CommandsInv, SweepInv
<1>2. /\ DOMAIN nodeVars = {results[i].instance : i \in DOMAIN results}
      /\ \A i \in DOMAIN results : nodeVars[results[i].instance] = results[i].vars
  <2>1. \A i, j \in DOMAIN results : results[i].instance = results[j].instance => i = j
    <3>1. \A i \in DOMAIN results : results[i].instance = fleet[i].label
      BY <1>1, VarsTell
    <3>2. \A i, j \in DOMAIN fleet : fleet[i].label = fleet[j].label => i = j
      BY <1>1, LabelsDiffer
    <3>3. QED
      BY <1>1, <3>1, <3>2, Zenon
  <2>2. QED
    BY <1>1, <2>1, VarsKept
<1>3. \A i \in DOMAIN results : \A name : ValueOf(nodeOrder[i], name) = val(i, name)
  BY <1>2 DEF ValueOf, nodeOrder
<1>4. DOMAIN nodeOrder = DOMAIN results
  BY DEF nodeOrder
<1>5. \A name : name \in allVarNames <=> \E i \in DOMAIN results : name \in DOMAIN results[i].vars
  BY <1>2 DEF allVarNames
<1>6. ASSUME NEW name
      PROVE  Differs(name) <=> \E i, j \in DOMAIN results : val(i, name) # val(j, name)
  <2>1. ASSUME NEW i \in DOMAIN results PROVE 1 \in DOMAIN results
    <3>1. Len(results) \in Nat /\ DOMAIN results = 1..Len(results)
      BY <1>1, ResultsAreSeq
    <3>2. QED
      BY <3>1
  <2> HIDE DEF val
  <2>2. QED
    BY <1>3, <1>4, <2>1 DEF Differs
<1>7. \A name : name \in Marked <=> name \in allVarNames /\ Differs(name)
  BY DEF Marked, Differences
<1>8. ASSUME failed = {}
      PROVE  Marked = {name \in UNION {DOMAIN s.setting : s \in ToSet(fleet)} :
                         \E s, t \in ToSet(fleet) : Setting(s, name) # Setting(t, name)}
  <2>1. \A i \in DOMAIN results : results[i].vars = fleet[i].setting
    BY <1>1, <1>8, VarsTell
  <2>2. \A i \in DOMAIN results : \A name : val(i, name) = Setting(fleet[i], name)
    BY <2>1 DEF Setting
  <2>3. \A s : s \in ToSet(fleet) <=> \E i \in DOMAIN results : s = fleet[i]
    BY <1>1 DEF ToSet
  <2>4. \A name : name \in allVarNames <=> name \in UNION {DOMAIN s.setting : s \in ToSet(fleet)}
    BY <1>5, <2>1, <2>3
  <2> HIDE DEF val
  <2>5. \A name : Differs(name) <=> \E s, t \in ToSet(fleet) : Setting(s, name) # Setting(t, name)
    BY <1>6, <2>2, <2>3
  <2>6. QED
    BY <1>7, <2>4, <2>5
<1>9. ASSUME failed # {}, failed # DOMAIN fleet PROVE "_error" \in Marked
  <2>1. PICK i \in DOMAIN results, j \in DOMAIN results : i \in failed /\ j \notin failed
    BY <1>1, <1>9
  <2>2. val(i, "_error") # "" /\ "_error" \in DOMAIN results[i].vars
    BY <1>1, <2>1, VarsTell
  <2>3. val(j, "_error") = ""
    BY <1>1, <2>1, VarsTell, InFleet, DiffAssumption
  <2> HIDE DEF val
  <2>4. QED
    BY <1>5, <1>6, <1>7, <2>2, <2>3
<1>10. QED
  BY <1>8, <1>9

\* Labels permitting, what diff marks is exactly what differs, whatever the
\* servers' settings are and whichever of them could not be read.
THEOREM DiffIsTrue == Spec => []DiffTellsTruth
BY CommandsInvariant, DiffTrue, PTL

(***************************************************************************)
(* Types: the screens of watch, and the rest of CommandsTypeOK.            *)
(***************************************************************************)
\* The targets, one server at a time.
LEMMA TargetsAreSeq ==
  ASSUME command \in DOMAIN Fleets, fleet \in Fleets[command]
  PROVE  Targets \in Seq(ToSet(fleet)) /\ Len(Targets) \in Nat
<1> DEFINE N == Len(fleet)
           A == Seq(ToSet(fleet))
           empty == <<>>
           H == [i \in 1..N |-> [t \in A |-> AddTarget(t, fleet[i])]]
           Eq(g) == g = [s \in SUBSET DOMAIN fleet |->
                           IF s = {} THEN <<>> ELSE AddTarget(g[s \ {Max(s)}], fleet[Max(s)])]
           it == CHOOSE g : Eq(g)
<1>1. N \in Nat /\ DOMAIN fleet = 1..N /\ \A i \in 1..N : fleet[i] \in ToSet(fleet)
  BY FleetIsSeq
<1>2. empty \in A
  BY EmptySeq
<1>3. H \in [1..N -> [A -> A]]
  <2> SUFFICES ASSUME NEW i \in 1..N, NEW t \in A PROVE AddTarget(t, fleet[i]) \in A
    OBVIOUS
  <2>1. fleet[i] \in ToSet(fleet)
    BY <1>1
  <2>2. Append(t, fleet[i]) \in Seq(ToSet(fleet))
    BY <2>1, AppendProperties
  <2>3. QED
    BY <2>2 DEF AddTarget
<1>4. \A s \in SUBSET (1..N) : s # {} => Max(s) \in 1..N
  BY <1>1, MaxIn
<1>5. \E g : Eq(g)
  <2>1. PICK g \in [SUBSET (1..N) -> A] : FoldsBy(g, N, empty, H)
    <3> HIDE DEF N, H, A, empty
    <3>1. QED
      BY <1>1, <1>2, <1>3, FoldExists
  <2> HIDE DEF A
  <2>2. ASSUME NEW s \in SUBSET (1..N)
        PROVE  g[s] = IF s = {} THEN <<>> ELSE AddTarget(g[s \ {Max(s)}], fleet[Max(s)])
    BY <1>4, <2>1 DEF FoldsBy
  <2>3. QED
    BY <1>1, <2>2
<1>6. Eq(it)
  <2> HIDE DEF Eq
  <2>1. QED
    BY <1>5, Zenon
<1>7. IsFold(it, N, A, empty, H)
  <2> HIDE DEF it, A
  <2>1. QED
    BY <1>1, <1>4, <1>6 DEF IsFold
<1>8. Targets = it[1..N]
  BY <1>1, Zenon DEF Targets, OpenTargets, FoldLeft, MapThenFoldSet
<1>9. Targets \in A
  <2>1. PICK v : IsChain(v, N, A, empty, H) /\ v[N] = it[1..N]
    <3>1. N \in Nat
      BY <1>1
    <3> HIDE DEF N, H, it, A, empty
    <3>2. QED
      BY <3>1, <1>2, <1>3, <1>7, FoldChain
  <2> HIDE DEF A, it, N
  <2>2. N \in 0..N
    BY <1>1
  <2>3. QED
    BY <1>8, <2>1, <2>2 DEF IsChain
<1>10. QED
  BY <1>9, LenProperties

Shown == ToSet(modes) \cup {"replica", "not a replica", "error"}

ScreenInv ==
  /\ at \in {"off", "select", "draw"} /\ mode \in 1..4
  /\ drawn \in Seq(Shown) /\ Len(drawn) <= Len(Targets)
  /\ refresh \in BOOLEAN /\ interrupted \in BOOLEAN /\ terminal \in {"cooked", "raw"}

LEMMA FourModes ==
  /\ \A m \in 1..4 : modes[m] \in Shown /\ (m % Len(modes)) + 1 \in 1..4
  /\ DOMAIN modes = 1..4
<1>1. DOMAIN modes = 1..4 /\ Len(modes) = 4
  BY DEF modes
<1>2. \A m \in 1..4 : modes[m] \in ToSet(modes)
  BY <1>1 DEF ToSet
<1>3. \A m \in 1..4 : (m % 4) + 1 \in 1..4
  OBVIOUS
<1>4. QED
  BY <1>1, <1>2, <1>3 DEF Shown

\* A screen never shows more than there are targets.
LEMMA ScreenStep == SweepInv /\ ScreenInv /\ [Next]_vars => ScreenInv'
<1> SUFFICES ASSUME SweepInv, ScreenInv, [Next]_vars PROVE ScreenInv'
  OBVIOUS
<1>1. Targets \in Seq(ToSet(fleet)) /\ Len(Targets) \in Nat
  BY TargetsAreSeq DEF SweepInv
<1>2. ASSUME fleet' = fleet PROVE Targets' = Targets
  BY <1>2 DEF Targets
<1>3. ASSUME drawn' = <<>>, fleet' = fleet PROVE drawn' \in Seq(Shown) /\ Len(drawn') <= Len(Targets')
  BY <1>1, <1>2, <1>3, EmptySeq
<1>4. ASSUME UNCHANGED watchVars, fleet' = fleet PROVE ScreenInv'
  BY <1>2, <1>4 DEF ScreenInv, watchVars
<1>5. CASE DrawTarget
  <2>1. PICK s, lost : drawn' = Append(drawn, Draw(s, lost))
    BY <1>5 DEF DrawTarget
  <2>2. /\ Len(drawn) < Len(Targets) /\ fleet' = fleet
        /\ UNCHANGED <<at, mode, refresh, terminal, interrupted>>
    BY <1>5 DEF DrawTarget, sweep
  <2>3. Draw(s, lost) \in Shown
    BY FourModes DEF Draw, ScreenInv, Shown
  <2>4. drawn' \in Seq(Shown) /\ Len(drawn') = Len(drawn) + 1
    BY <2>1, <2>3, AppendProperties DEF ScreenInv
  <2>5. Len(drawn') <= Len(Targets')
    <3>1. Len(drawn) \in Nat
      BY LenProperties DEF ScreenInv
    <3>2. QED
      BY <1>1, <1>2, <2>2, <2>4, <3>1
  <2>6. QED
    BY <2>2, <2>4, <2>5 DEF ScreenInv
<1>6. CASE SelectKey
  <2>1. /\ mode' = NextMode(Head(keys)) /\ UNCHANGED <<refresh, interrupted, fleet>>
        /\ \/ at' = "off" /\ terminal' = "cooked" /\ drawn' = drawn
           \/ UNCHANGED <<at, drawn, terminal>>
           \/ at' = "draw" /\ drawn' = <<>> /\ terminal' = terminal
    BY <1>6 DEF SelectKey, Leave, Redraw
  <2>2. mode' \in 1..4
    BY <2>1, FourModes DEF NextMode, ScreenInv
  <2>3. drawn' \in Seq(Shown) /\ Len(drawn') <= Len(Targets')
    BY <1>2, <1>3, <2>1 DEF ScreenInv
  <2>4. QED
    BY <2>1, <2>2, <2>3 DEF ScreenInv
<1>7. CASE SelectRefresh
  <2>1. /\ drawn' = <<>> /\ at' = "draw" /\ refresh' = FALSE
        /\ UNCHANGED <<mode, terminal, interrupted, fleet>>
    BY <1>7 DEF SelectRefresh, Redraw, sweep
  <2>2. QED
    BY <1>3, <2>1 DEF ScreenInv
<1>8. CASE StartWatch \/ DrawReturns \/ SelectSignal \/ PassKey \/ Refresh \/ Interrupt
           \/ \E key \in Keys : ReadKey(key)
  <2>1. /\ UNCHANGED <<mode, drawn, fleet>>
        /\ at' \in {at, "off", "select", "draw"} /\ terminal' \in {terminal, "cooked", "raw"}
        /\ refresh' \in {refresh, TRUE} /\ interrupted' \in {interrupted, TRUE}
    BY <1>8 DEF StartWatch, DrawReturns, SelectSignal, PassKey, Refresh, Interrupt, ReadKey,
                Leave, sweep
  <2>2. QED
    BY <1>2, <2>1 DEF ScreenInv
<1>9. ASSUME UNCHANGED watchVars PROVE ScreenInv'
  <2>1. fleet' = fleet
    BY DEF Next, Step, Refuse, Configure, OneShot, VisitNode, Visit, Render, Finish, Expire,
           WatchNext, StartWatch, DrawTarget, DrawReturns, SelectSignal, SelectRefresh,
           SelectKey, ReadKey, PassKey, Refresh, Interrupt, vars, sweep
  <2>2. QED
    BY <1>4, <1>9, <2>1
<1>10. QED
  BY <1>5, <1>6, <1>7, <1>8, <1>9 DEF Next, Step, WatchNext, vars

\* Sequences of bounded length, and the other way to say so.
LEMMA Bounded ==
  ASSUME NEW S, NEW n \in Nat, NEW s \in Seq(S), Len(s) <= n
  PROVE  s \in BoundedSeq(S, n)
<1>1. Len(s) \in 0..n /\ s \in [1..Len(s) -> S]
  BY LenProperties
<1>2. QED
  BY <1>1 DEF BoundedSeq, SeqOf

\* The three invariants together are stronger than the type invariant.
LEMMA TypesFollow == CommandsInv /\ KeysInv /\ ScreenInv => CommandsTypeOK
<1> SUFFICES ASSUME CommandsInv, KeysInv, ScreenInv PROVE CommandsTypeOK
  OBVIOUS
<1>1. keys \in BoundedSeq(Keys, KeyBuffer)
  BY Bounded, WatchAssumption DEF KeysInv, KeysTyped
<1>2. held \in BoundedSeq(Keys, 1)
  BY Bounded DEF KeysInv, KeysTyped
<1>3. Len(Targets) \in Nat
  BY TargetsAreSeq DEF CommandsInv, SweepInv
<1>4. drawn \in BoundedSeq(Shown, Len(Targets))
  BY <1>3, Bounded DEF ScreenInv
<1>5. WatchTypeOK
  BY <1>1, <1>2, <1>4, FourModes DEF WatchTypeOK, ScreenInv, Shown
<1>6. failed \subseteq DOMAIN fleet
  BY InFleet DEF CommandsInv, SweepInv
<1>7. QED
  BY <1>5, <1>6 DEF CommandsTypeOK, CommandsInv, SweepInv, ExitInv

\* The variables of every command keep their types; what watch shows never
\* outgrows its targets, nor the channel of keys its capacity.
THEOREM TypeCorrect == Spec => []CommandsTypeOK
<1>1. Init => ScreenInv
  <2> SUFFICES ASSUME Init PROVE ScreenInv
    OBVIOUS
  <2>1. /\ at = "off" /\ mode = 1 /\ drawn = <<>> /\ refresh = FALSE /\ terminal = "cooked"
        /\ interrupted = FALSE /\ command \in DOMAIN Fleets /\ fleet \in Fleets[command]
    BY DEF Init, WatchInit, SweepInit
  <2>2. Len(Targets) \in Nat /\ drawn \in Seq(Shown) /\ Len(drawn) = 0
    BY <2>1, TargetsAreSeq, EmptySeq
  <2>3. Len(drawn) <= Len(Targets)
    <3> DEFINE n == Len(drawn)
               m == Len(Targets)
    <3>1. n = 0 /\ m \in Nat
      BY <2>2
    <3> HIDE DEF n, m
    <3>2. n <= m
      BY <3>1
    <3>3. QED
      BY <3>2 DEF n, m
  <2>4. at \in {"off", "select", "draw"} /\ terminal \in {"cooked", "raw"}
    BY <2>1
  <2>5. mode \in 1..4
    BY <2>1
  <2>6. refresh \in BOOLEAN /\ interrupted \in BOOLEAN
    BY <2>1, Zenon
  <2>7. QED
    BY <2>2, <2>3, <2>4, <2>5, <2>6, Zenon DEF ScreenInv
<1>2. CommandsInv /\ ScreenInv /\ [Next]_vars => ScreenInv'
  BY ScreenStep DEF CommandsInv
<1>3. Spec => []CommandsInv
  BY CommandsInvariant
<1>4. Spec => []KeysInv
  BY KeysInit, KeysStep, PTL DEF Spec
<1>5. QED
  BY <1>1, <1>2, <1>3, <1>4, TypesFollow, PTL DEF Spec

(***************************************************************************)
(* innodb: the sections of a status text.  Headings is a CHOOSE; that some *)
(* set of headings skips as it must is EveryOther, and the scan of the     *)
(* text is taken apart line by line (ScanChain): what it holds behind k    *)
(* lines is what BodyOf would have of them (Scanned).                      *)
(***************************************************************************)
\* Of any set of positions some set takes every other one of those two apart.
LEMMA EveryOther ==
  ASSUME NEW N \in Nat, NEW P \in SUBSET (1..N)
  PROVE  \E H \in SUBSET P : \A i \in P : i \in H <=> i - 2 \notin H
<1> DEFINE S == {n \in Nat : \E H \in SUBSET (P \cap 1..n) :
                               \A i \in P \cap 1..n : i \in H <=> i - 2 \notin H}
<1>1. 0 \in S
  <2>1. P \cap 1..0 = {}
    OBVIOUS
  <2>2. QED
    BY <2>1
<1>2. ASSUME NEW n \in Nat, n \in S PROVE n + 1 \in S
  <2>1. PICK H \in SUBSET (P \cap 1..n) : \A i \in P \cap 1..n : i \in H <=> i - 2 \notin H
    BY <1>2
  <2> DEFINE K == IF n + 1 \in P /\ n - 1 \notin H THEN H \cup {n + 1} ELSE H
  <2>2. K \in SUBSET (P \cap 1..(n + 1))
    OBVIOUS
  <2>3. ASSUME NEW i \in P \cap 1..(n + 1) PROVE i \in K <=> i - 2 \notin K
    <3>1. CASE i = n + 1
      BY <3>1
    <3>2. CASE i # n + 1
      <4>1. i \in P \cap 1..n /\ i - 2 # n + 1
        BY <3>2
      <4>2. QED
        BY <2>1, <3>2, <4>1
    <3>3. QED
      BY <3>1, <3>2
  <2> HIDE DEF K
  <2>4. n + 1 \in Nat
    OBVIOUS
  <2>5. QED
    BY <2>2, <2>3, <2>4
<1> HIDE DEF S
<1>3. N \in S
  BY <1>1, <1>2, NatSets
<1>4. P \cap 1..N = P
  OBVIOUS
<1>5. QED
  BY <1>3, <1>4 DEF S

IsText(text) == Len(text) \in Nat /\ DOMAIN text = 1..Len(text)
Shape(text) == {i \in DOMAIN text : OpensSection(text, i)}
Skips(text, H) == H \in SUBSET Shape(text) /\ \A i \in Shape(text) : i \in H <=> i - 2 \notin H

\* Headings is such a set.
LEMMA HeadingsSkip == ASSUME NEW text, IsText(text) PROVE Skips(text, Headings(text))
<1> DEFINE P == Shape(text)
<1>1. Len(text) \in Nat /\ P \in SUBSET (1..Len(text))
  BY DEF IsText, Shape
<1>2. Headings(text) = CHOOSE H \in SUBSET P : \A i \in P : i \in H <=> i - 2 \notin H
  BY Zenon DEF Headings, Shape
<1> HIDE DEF P
<1>3. \E H \in SUBSET P : \A i \in P : i \in H <=> i - 2 \notin H
  BY <1>1, EveryOther
<1>4. Headings(text) \in SUBSET P /\ \A i \in P : i \in Headings(text) <=> i - 2 \notin Headings(text)
  BY <1>2, <1>3, Zenon
<1>5. QED
  BY <1>4, Zenon DEF Skips, P

\* Two headings are at least three lines apart.
LEMMA Apart ==
  ASSUME NEW text, IsText(text), NEW H, Skips(text, H)
  PROVE  \A h \in H : /\ h \in Nat /\ h \in 1..Len(text) /\ h + 2 <= Len(text)
                      /\ h + 1 \notin H /\ h + 2 \notin H
<1>1. Len(text) \in Nat /\ DOMAIN text = 1..Len(text)
  BY DEF IsText
<1> SUFFICES ASSUME NEW h \in H
             PROVE  /\ h \in Nat /\ h \in 1..Len(text) /\ h + 2 <= Len(text)
                    /\ h + 1 \notin H /\ h + 2 \notin H
  OBVIOUS
<1>2. \A g \in H : g \in DOMAIN text /\ OpensSection(text, g) /\ g \in Shape(text)
  BY DEF Skips, Shape
<1>3. h \in Nat /\ h \in 1..Len(text) /\ h + 2 <= Len(text) /\ ~isDashes(text[h + 1])
  <2>1. h \in DOMAIN text /\ OpensSection(text, h)
    BY <1>2
  <2>2. h \in Nat /\ h \in 1..Len(text)
    BY <1>1, <2>1
  <2>3. QED
    BY <2>1, <2>2 DEF OpensSection
<1>4. h + 1 \notin H
  BY <1>2, <1>3 DEF OpensSection
<1>5. h + 2 \notin H
  <2>1. SUFFICES ASSUME h + 2 \in H PROVE FALSE
    OBVIOUS
  <2>2. (h + 2) - 2 = h
    BY <1>3
  <2>3. QED
    BY <1>2, <2>1, <2>2 DEF Skips
<1>6. QED
  BY <1>3, <1>4, <1>5

TitleOf(text, h) == TrimSpace(text[h + 1])

\* The body of a section as far as line k.
BodyTo(text, H, k, name) ==
  {i \in 1..k : \E h \in H : /\ h <= k /\ TitleOf(text, h) = name
                             /\ i > h + 2
                             /\ \A g \in H : g > h => i < g /\ (g <= k => TitleOf(text, g) # name)}

LastHeading(H, k, h) == h \in H /\ h <= k /\ \A g \in H : g <= k => g <= h

LEMMA OneMore ==
  ASSUME NEW k \in Nat, NEW A \in SUBSET (1..(k + 1)), NEW B \in SUBSET (1..k),
         \A i \in 1..k : i \in A <=> i \in B
  PROVE  A = IF k + 1 \in A THEN B \cup {k + 1} ELSE B
<1>1. \A i \in 1..(k + 1) : i \in 1..k \/ i = k + 1
  OBVIOUS
<1>2. k + 1 \notin 1..k /\ 1..k \subseteq 1..(k + 1)
  OBVIOUS
<1>3. \A i : i \in A <=> i \in B \/ (i = k + 1 /\ k + 1 \in A)
  BY <1>1, <1>2
<1>4. QED
  BY <1>3

\* A line of a heading belongs to no section.
LEMMA BodyInHeading ==
  ASSUME NEW text, IsText(text), NEW H, Skips(text, H), NEW k \in Nat,
         k + 1 \notin H, k \in H \/ k - 1 \in H, NEW name
  PROVE  BodyTo(text, H, k + 1, name) = BodyTo(text, H, k, name)
<1>1. \A h \in H : h \in Nat
  BY Apart
<1>2. \A h \in H : h <= k + 1 <=> h <= k
  BY <1>1
<1>3. k + 1 \notin BodyTo(text, H, k + 1, name)
  <2>1. ASSUME NEW h \in H, k + 1 > h + 2, \A g \in H : g > h => k + 1 < g PROVE FALSE
    <3>1. PICK g \in H : g = k \/ g = k - 1
      OBVIOUS
    <3>2. g > h /\ ~(k + 1 < g)
      BY <1>1, <2>1, <3>1
    <3>3. QED
      BY <2>1, <3>2
  <2>2. QED
    BY <2>1 DEF BodyTo
<1>4. \A i \in 1..k : i \in BodyTo(text, H, k + 1, name) <=> i \in BodyTo(text, H, k, name)
  BY <1>2 DEF BodyTo
<1>5. \A j : BodyTo(text, H, j, name) \in SUBSET (1..j)
  BY DEF BodyTo
<1>6. QED
  BY <1>3, <1>4, <1>5, OneMore

\* A heading empties the section that it names.
LEMMA BodyAtHeading ==
  ASSUME NEW text, IsText(text), NEW H, Skips(text, H), NEW k \in Nat, k + 1 \in H, NEW name
  PROVE  BodyTo(text, H, k + 1, name) =
           IF name = TitleOf(text, k + 1) THEN {} ELSE BodyTo(text, H, k, name)
<1>1. \A h \in H : h \in Nat
  BY Apart
<1>2. \A h \in H : h <= k + 1 <=> h <= k \/ h = k + 1
  BY <1>1
<1>3. \A j : BodyTo(text, H, j, name) \in SUBSET (1..j)
  BY DEF BodyTo
<1>4. k + 1 \notin BodyTo(text, H, k + 1, name)
  <2>1. ASSUME NEW h \in H, k + 1 > h + 2, \A g \in H : g > h => k + 1 < g PROVE FALSE
    BY <1>1, <2>1
  <2>2. QED
    BY <2>1 DEF BodyTo
<1>5. CASE name = TitleOf(text, k + 1)
  <2>1. ASSUME NEW i \in 1..k, i \in BodyTo(text, H, k + 1, name) PROVE FALSE
    <3>1. PICK h \in H : /\ i > h + 2
                         /\ \A g \in H : g > h => i < g /\ (g <= k + 1 => TitleOf(text, g) # name)
      BY <2>1 DEF BodyTo
    <3>2. k + 1 > h
      BY <1>1, <3>1
    <3>3. QED
      BY <1>5, <3>1, <3>2
  <2>2. QED
    BY <1>3, <1>4, <1>5, <2>1, OneMore
<1>6. CASE name # TitleOf(text, k + 1)
  <2>1. ASSUME NEW i \in 1..k
        PROVE  i \in BodyTo(text, H, k + 1, name) <=> i \in BodyTo(text, H, k, name)
    BY <1>2, <1>6 DEF BodyTo
  <2>2. QED
    BY <1>3, <1>4, <1>6, <2>1, OneMore
<1>7. QED
  BY <1>5, <1>6

Grows(text, H, k, name, h) ==
  BodyTo(text, H, k + 1, name) =
    IF name = TitleOf(text, h) THEN BodyTo(text, H, k, name) \cup {k + 1}
    ELSE BodyTo(text, H, k, name)

\* Any other line belongs to the section of the last heading.
LEMMA BodyGrows ==
  ASSUME NEW text, IsText(text), NEW H, Skips(text, H), NEW k \in Nat,
         k + 1 \notin H, k \notin H, k - 1 \notin H, NEW name, NEW h, LastHeading(H, k, h)
  PROVE  Grows(text, H, k, name, h)
<1> DEFINE A == BodyTo(text, H, k + 1, name)
           B == BodyTo(text, H, k, name)
<1>1. \A g \in H : g \in Nat
  BY Apart
<1>2. \A g \in H : g <= k + 1 <=> g <= k
  BY <1>1
<1>3. A \in SUBSET (1..(k + 1)) /\ B \in SUBSET (1..k) /\ \A i \in 1..k : i \in A <=> i \in B
  BY <1>2 DEF BodyTo
<1>4. h \in H /\ h <= k /\ k + 1 > h + 2 /\ \A g \in H : g > h => g > k + 1
  BY <1>1, <1>2 DEF LastHeading
<1>5. ASSUME name = TitleOf(text, h) PROVE k + 1 \in A
  <2>1. \A g \in H : g > h => k + 1 < g /\ ~(g <= k + 1)
    BY <1>1, <1>4
  <2>2. QED
    BY <1>1, <1>4, <1>5, <2>1 DEF BodyTo
<1>6. ASSUME k + 1 \in A PROVE name = TitleOf(text, h)
  <2>1. PICK g \in H : /\ g <= k + 1 /\ TitleOf(text, g) = name
                       /\ \A j \in H : j > g => k + 1 < j
    BY <1>6 DEF BodyTo
  <2>2. g = h
    BY <1>1, <1>2, <1>4, <2>1
  <2>3. QED
    BY <2>1, <2>2
<1> HIDE DEF A, B
<1>7. A = IF k + 1 \in A THEN B \cup {k + 1} ELSE B
  BY <1>3, OneMore
<1>8. A = IF name = TitleOf(text, h) THEN B \cup {k + 1} ELSE B
  BY <1>5, <1>6, <1>7
<1>9. QED
  BY <1>8 DEF A, B, Grows

\* Before the first heading there is no body.
LEMMA NoBody ==
  ASSUME NEW text, IsText(text), NEW H, Skips(text, H), NEW k \in Nat, \A h \in H : h > k, NEW name
  PROVE  BodyTo(text, H, k, name) = {}
<1>1. ASSUME NEW h \in H PROVE ~(h <= k)
  <2>1. h \in Nat
    BY Apart
  <2>2. QED
    BY <2>1
<1>2. QED
  BY <1>1 DEF BodyTo

Titles(text) == {TitleOf(text, i) : i \in Nat} \cup {""}
SectionMaps(text) == UNION {[D -> Seq(DOMAIN text)] : D \in SUBSET Titles(text)}
Accs(text) == [skip : 0..2, current : Titles(text), lines : Seq(DOMAIN text), sections : SectionMaps(text)]
Start == [skip |-> 0, current |-> "", lines |-> <<>>, sections |-> <<>>]

\* What is saved, by name.
LEMMA SaveMaps ==
  ASSUME NEW text, NEW acc \in Accs(text)
  PROVE  /\ Save(acc) \in SectionMaps(text)
         /\ "" \notin DOMAIN acc.sections => "" \notin DOMAIN Save(acc)
         /\ \A name : name # "" =>
              SectionOf(Save(acc), name) =
                IF name = acc.current THEN acc.lines ELSE SectionOf(acc.sections, name)
<1>1. /\ acc.current \in Titles(text) /\ acc.lines \in Seq(DOMAIN text)
      /\ acc.sections \in SectionMaps(text)
  BY DEF Accs
<1>2. PICK D \in SUBSET Titles(text) : acc.sections \in [D -> Seq(DOMAIN text)]
  BY <1>1 DEF SectionMaps
<1>3. CASE acc.current = ""
  BY <1>1, <1>3 DEF Save, SectionOf
<1>4. CASE acc.current # ""
  <2> DEFINE c == acc.current
             E == D \cup {c}
             m == [name \in E |-> IF name = c THEN acc.lines ELSE acc.sections[name]]
  <2>1. DOMAIN acc.sections = D
    BY <1>2
  <2>2. Save(acc) = m
    BY <1>4, <2>1 DEF Save
  <2>3. E \in SUBSET Titles(text) /\ m \in [E -> Seq(DOMAIN text)] /\ DOMAIN m = E
    BY <1>1, <1>2
  <2>4. ASSUME NEW name
        PROVE  SectionOf(m, name) = IF name = c THEN acc.lines ELSE SectionOf(acc.sections, name)
    BY <2>1 DEF SectionOf
  <2>5. "" \notin D => "" \notin E
    BY <1>4
  <2> HIDE DEF m, E
  <2>6. m \in SectionMaps(text)
    BY <2>3 DEF SectionMaps
  <2>7. QED
    BY <2>1, <2>2, <2>3, <2>4, <2>5, <2>6
<1>5. QED
  BY <1>3, <1>4

\* The loop stays among the accumulators, whatever the line.
LEMMA ScanTypes ==
  ASSUME NEW text, IsText(text), NEW i \in DOMAIN text, NEW acc \in Accs(text)
  PROVE  ScanLine(text, acc, i) \in Accs(text)
<1>0. i \in Nat
  BY DEF IsText
<1>1. CASE acc.skip > 0
  BY <1>1 DEF ScanLine, Accs
<1>2. CASE ~(acc.skip > 0) /\ OpensSection(text, i)
  <2>2. TrimSpace(text[i + 1]) \in Titles(text)
    BY <1>0 DEF Titles, TitleOf
  <2>3. Save(acc) \in SectionMaps(text) /\ <<>> \in Seq(DOMAIN text)
    BY SaveMaps, EmptySeq
  <2>4. ScanLine(text, acc, i) = OpenSection(text, acc, i)
    BY <1>2 DEF ScanLine
  <2>5. OpenSection(text, acc, i) \in Accs(text)
    BY <2>2, <2>3 DEF OpenSection, Accs
  <2>6. QED
    BY <2>4, <2>5
<1>3. CASE ~(acc.skip > 0) /\ ~OpensSection(text, i)
  <2>1. Append(acc.lines, i) \in Seq(DOMAIN text)
    BY AppendProperties DEF Accs
  <2>2. QED
    BY <1>3, <2>1 DEF ScanLine, Accs
<1>4. QED
  BY <1>1, <1>2, <1>3

\* The loop over the lines of the text, line by line.
LEMMA ScanChain ==
  ASSUME NEW text, IsText(text)
  PROVE  \E a : /\ a \in [0..Len(text) -> Accs(text)] /\ a[0] = Start
                /\ \A i \in 1..Len(text) : a[i] = ScanLine(text, a[i - 1], i)
                /\ splitSections(text) = Save(a[Len(text)])
<1> DEFINE N == Len(text)
           A == Accs(text)
           q == [i \in DOMAIN text |-> i]
           H == [i \in 1..N |-> [acc \in A |-> ScanLine(text, acc, i)]]
           Eq(g) == g = [s \in SUBSET DOMAIN q |->
                           IF s = {} THEN Start ELSE ScanLine(text, g[s \ {Max(s)}], q[Max(s)])]
           it == CHOOSE g : Eq(g)
<1>1. N \in Nat /\ DOMAIN text = 1..N /\ DOMAIN q = 1..N
  BY DEF IsText
<1>2. Start \in A
  <2>1. <<>> \in Seq(DOMAIN text) /\ <<>> \in SectionMaps(text)
    <3>1. <<>> \in [{} -> Seq(DOMAIN text)] /\ {} \in SUBSET Titles(text)
      OBVIOUS
    <3>2. QED
      BY <3>1, EmptySeq DEF SectionMaps
  <2>2. "" \in Titles(text)
    BY DEF Titles
  <2>3. 0 \in 0..2
    OBVIOUS
  <2>4. QED
    BY <2>1, <2>2, <2>3 DEF Start, Accs
<1>3. H \in [1..N -> [A -> A]]
  BY <1>1, ScanTypes
<1>4. \A s \in SUBSET (1..N) : s # {} => Max(s) \in 1..N /\ q[Max(s)] = Max(s)
  BY <1>1, MaxIn
<1>5. \E g : Eq(g)
  <2>1. PICK g \in [SUBSET (1..N) -> A] : FoldsBy(g, N, Start, H)
    <3> HIDE DEF N, H, A
    <3>1. QED
      BY <1>1, <1>2, <1>3, FoldExists
  <2> HIDE DEF A, q
  <2>2. ASSUME NEW s \in SUBSET (1..N)
        PROVE  g[s] = IF s = {} THEN Start ELSE ScanLine(text, g[s \ {Max(s)}], q[Max(s)])
    BY <1>4, <2>1 DEF FoldsBy
  <2>3. QED
    BY <1>1, <2>2
<1>6. Eq(it)
  <2> HIDE DEF Eq
  <2>1. QED
    BY <1>5, Zenon
<1>7. IsFold(it, N, A, Start, H)
  <2> HIDE DEF it, A, q
  <2>1. QED
    BY <1>1, <1>4, <1>6 DEF IsFold
<1>8. splitSections(text) = Save(it[DOMAIN q])
  BY Zenon DEF splitSections, FoldLeftDomain, FoldLeft, MapThenFoldSet, Start
<1>9. QED
  <2>1. PICK a : IsChain(a, N, A, Start, H) /\ a[N] = it[1..N]
    <3> HIDE DEF N, H, it, A
    <3>1. QED
      BY <1>1, <1>2, <1>3, <1>7, FoldChain
  <2> HIDE DEF A, it, q
  <2>2. ASSUME NEW i \in 1..N PROVE a[i] = ScanLine(text, a[i - 1], i)
    <3>1. i - 1 \in 0..N
      BY <1>1
    <3>2. a[i - 1] \in A /\ a[i] = H[i][a[i - 1]]
      BY <2>1, <3>1 DEF IsChain
    <3>3. QED
      BY <3>2
  <2>3. splitSections(text) = Save(a[N])
    BY <1>1, <1>8, <2>1
  <2>4. QED
    BY <2>1, <2>2, <2>3 DEF IsChain, A

\* The lines of S one after the other.
Lists(s, S) == ToSet(s) = S /\ \A p, q \in DOMAIN s : p < q => s[p] < s[q]

LEMMA ListsNothing == Lists(<<>>, {})
BY DEF Lists, ToSet

LEMMA ListsMore ==
  ASSUME NEW N \in Nat, NEW s \in Seq(1..N), NEW k \in Nat, k + 1 \in 1..N,
         NEW B \in SUBSET (1..k), Lists(s, B)
  PROVE  Lists(Append(s, k + 1), B \cup {k + 1})
<1> DEFINE t == Append(s, k + 1)
<1>1. /\ Len(s) \in Nat /\ DOMAIN s = 1..Len(s) /\ DOMAIN t = 1..(Len(s) + 1)
      /\ \A i \in 1..Len(s) : t[i] = s[i]
      /\ t[Len(s) + 1] = k + 1
  BY AppendProperties, LenProperties
<1> HIDE DEF t
<1>2. DOMAIN t = DOMAIN s \cup {Len(s) + 1}
  BY <1>1
<1>3. ToSet(t) = ToSet(s) \cup {k + 1}
  BY <1>1, <1>2 DEF ToSet
<1>4. ASSUME NEW p \in DOMAIN s PROVE t[p] = s[p] /\ s[p] \in 1..k
  BY <1>1 DEF Lists, ToSet
<1>5. ASSUME NEW p \in DOMAIN t, NEW q \in DOMAIN t, p < q PROVE t[p] < t[q]
  <2>1. p \in DOMAIN s
    BY <1>1, <1>5
  <2>2. CASE q = Len(s) + 1
    BY <1>1, <1>4, <2>1, <2>2
  <2>3. CASE q \in DOMAIN s
    BY <1>4, <1>5, <2>1, <2>3 DEF Lists
  <2>4. QED
    BY <1>2, <2>2, <2>3
<1>6. QED
  BY <1>3, <1>5 DEF Lists, t

\* What the scan of the first k lines has come to.
Scanned(text, H, k, acc) ==
  /\ acc.skip = IF k \in H THEN 2 ELSE IF k - 1 \in H THEN 1 ELSE 0
  /\ \/ \E h \in H : LastHeading(H, k, h) /\ acc.current = TitleOf(text, h)
     \/ acc.current = "" /\ \A h \in H : h > k
  /\ "" \notin DOMAIN acc.sections
  /\ \A name : name # "" => Lists(SectionOf(Save(acc), name), BodyTo(text, H, k, name))

\* A line that the loop skips.
LEMMA ScanSkips ==
  ASSUME NEW text, IsText(text), NEW H, Skips(text, H), NEW k \in Nat, k + 1 <= Len(text),
         NEW acc \in Accs(text), Scanned(text, H, k, acc), acc.skip > 0
  PROVE  Scanned(text, H, k + 1, ScanLine(text, acc, k + 1))
<1> DEFINE next == ScanLine(text, acc, k + 1)
<1>0. \A h \in H : h \in Nat /\ h + 1 \notin H /\ h + 2 \notin H
  BY Apart
<1> DEFINE was == IF k \in H THEN 2 ELSE IF k - 1 \in H THEN 1 ELSE 0
<1>a. acc.skip = was
  BY Zenon DEF Scanned
<1>1. /\ k \in H \/ k - 1 \in H
      /\ acc.skip = IF k \in H THEN 2 ELSE 1
  BY <1>a
<1>2. k + 1 \notin H /\ ~(k \in H /\ k - 1 \in H)
  <2>1. (k - 1) + 1 = k /\ (k - 1) + 2 = k + 1
    OBVIOUS
  <2>2. QED
    BY <1>0, <1>1, <2>1
<1>3. /\ next.skip = acc.skip - 1 /\ next.current = acc.current
      /\ next.lines = acc.lines /\ next.sections = acc.sections
  BY DEF ScanLine, Accs
<1>4. next.skip = IF k + 1 \in H THEN 2 ELSE IF (k + 1) - 1 \in H THEN 1 ELSE 0
  BY <1>1, <1>2, <1>3
<1>5. Save(next) = Save(acc)
  <2> HIDE DEF next
  <2>1. QED
    BY <1>3 DEF Save
<1>6. \A name : BodyTo(text, H, k + 1, name) = BodyTo(text, H, k, name)
  BY <1>1, <1>2, BodyInHeading
<1>7. \A h \in H : (h <= k + 1 <=> h <= k) /\ (h > k + 1 <=> h > k)
  <2>1. \A h \in H : h # k + 1 /\ h \in Nat
    BY <1>0, <1>2
  <2>2. QED
    BY <2>1
<1>8. \A h : LastHeading(H, k + 1, h) <=> LastHeading(H, k, h)
  BY <1>7 DEF LastHeading
<1> HIDE DEF next
<1>9. QED
  BY <1>3, <1>4, <1>5, <1>6, <1>7, <1>8, Zenon DEF Scanned, next

\* A line that opens a section.
LEMMA ScanOpens ==
  ASSUME NEW text, IsText(text), NEW H, Skips(text, H), NEW k \in Nat, k + 1 <= Len(text),
         NEW acc \in Accs(text), Scanned(text, H, k, acc), acc.skip = 0, OpensSection(text, k + 1)
  PROVE  Scanned(text, H, k + 1, ScanLine(text, acc, k + 1))
<1> DEFINE next == ScanLine(text, acc, k + 1)
           title == TitleOf(text, k + 1)
<1>0. \A h \in H : h \in Nat
  BY Apart
<1>1. k + 1 \in H
  <2>1. k \notin H /\ k - 1 \notin H
    <3>1. acc.skip = IF k \in H THEN 2 ELSE IF k - 1 \in H THEN 1 ELSE 0
      BY Zenon DEF Scanned
    <3>2. QED
      BY <3>1
  <2>2. k + 1 \in Shape(text)
    BY DEF IsText, Shape
  <2>3. (k + 1) - 2 = k - 1
    OBVIOUS
  <2>4. QED
    BY <2>1, <2>2, <2>3 DEF Skips
<1>2. /\ next.skip = 2 /\ next.current = title
      /\ next.lines = <<>> /\ next.sections = Save(acc)
  <2>1. (k + 1) + 1 = k + 2
    OBVIOUS
  <2>2. next = OpenSection(text, acc, k + 1)
    BY DEF ScanLine
  <2>3. QED
    BY <2>2 DEF OpenSection, TitleOf
<1>3. next \in Accs(text)
  <2>1. k + 1 \in DOMAIN text
    BY DEF IsText
  <2>2. QED
    BY <2>1, ScanTypes
<1> HIDE DEF next
<1>4. "" \notin DOMAIN next.sections
  BY <1>2, SaveMaps DEF Scanned
<1>5. LastHeading(H, k + 1, k + 1)
  BY <1>1 DEF LastHeading
<1>6. ASSUME NEW name, name # ""
      PROVE  Lists(SectionOf(Save(next), name), BodyTo(text, H, k + 1, name))
  <2>1. BodyTo(text, H, k + 1, name) = IF name = title THEN {} ELSE BodyTo(text, H, k, name)
    BY <1>1, BodyAtHeading
  <2>2. SectionOf(Save(next), name) = IF name = title THEN <<>> ELSE SectionOf(Save(acc), name)
    BY <1>2, <1>3, <1>6, SaveMaps
  <2>3. Lists(<<>>, {})
    BY ListsNothing
  <2>4. Lists(SectionOf(Save(acc), name), BodyTo(text, H, k, name))
    BY <1>6 DEF Scanned
  <2>5. QED
    BY <2>1, <2>2, <2>3, <2>4
<1>7. QED
  BY <1>1, <1>2, <1>4, <1>5, <1>6, Zenon DEF Scanned, next

\* A line that is kept.
LEMMA ScanAppends ==
  ASSUME NEW text, IsText(text), NEW H, Skips(text, H), NEW k \in Nat, k + 1 <= Len(text),
         NEW acc \in Accs(text), Scanned(text, H, k, acc), acc.skip = 0, ~OpensSection(text, k + 1)
  PROVE  Scanned(text, H, k + 1, ScanLine(text, acc, k + 1))
<1> DEFINE next == ScanLine(text, acc, k + 1)
<1>0. (\A h \in H : h \in Nat) /\ k + 1 \in DOMAIN text
  BY Apart DEF IsText
<1>1. k \notin H /\ k - 1 \notin H /\ k + 1 \notin H
  <2>1. acc.skip = IF k \in H THEN 2 ELSE IF k - 1 \in H THEN 1 ELSE 0
    BY Zenon DEF Scanned
  <2>2. k + 1 \notin H
    BY DEF Skips, Shape
  <2>3. QED
    BY <2>1, <2>2
<1>2. /\ next.skip = 0 /\ next.current = acc.current
      /\ next.lines = Append(acc.lines, k + 1) /\ next.sections = acc.sections
  BY DEF ScanLine, Accs
<1>3. next \in Accs(text)
  BY <1>0, ScanTypes
<1> HIDE DEF next
<1>4. \A h \in H : (h <= k + 1 <=> h <= k) /\ (h > k + 1 <=> h > k)
  BY <1>0, <1>1
<1>5. \A h : LastHeading(H, k + 1, h) <=> LastHeading(H, k, h)
  BY <1>4 DEF LastHeading
<1>6. next.skip = IF k + 1 \in H THEN 2 ELSE IF (k + 1) - 1 \in H THEN 1 ELSE 0
  BY <1>1, <1>2
<1>7. ASSUME NEW name, name # ""
      PROVE  Lists(SectionOf(Save(next), name), BodyTo(text, H, k + 1, name))
  <2>1. /\ SectionOf(Save(next), name) = IF name = acc.current THEN Append(acc.lines, k + 1)
                                         ELSE SectionOf(acc.sections, name)
        /\ SectionOf(Save(acc), name) = IF name = acc.current THEN acc.lines
                                        ELSE SectionOf(acc.sections, name)
    BY <1>2, <1>3, <1>7, SaveMaps
  <2>2. ASSUME Lists(acc.lines, BodyTo(text, H, k, name))
        PROVE  Lists(Append(acc.lines, k + 1), BodyTo(text, H, k, name) \cup {k + 1})
    <3>1. acc.lines \in Seq(1..Len(text)) /\ k + 1 \in 1..Len(text) /\ Len(text) \in Nat
      BY <1>0 DEF Accs, IsText
    <3>2. BodyTo(text, H, k, name) \in SUBSET (1..k)
      BY DEF BodyTo
    <3>3. QED
      BY <2>2, <3>1, <3>2, ListsMore
  <2>3. Lists(SectionOf(Save(acc), name), BodyTo(text, H, k, name))
    BY <1>7 DEF Scanned
  <2>4. CASE \E h \in H : LastHeading(H, k, h) /\ acc.current = TitleOf(text, h)
    <3>1. PICK h : LastHeading(H, k, h) /\ acc.current = TitleOf(text, h)
      BY <2>4
    <3>2. BodyTo(text, H, k + 1, name) =
                IF name = TitleOf(text, h) THEN BodyTo(text, H, k, name) \cup {k + 1}
                ELSE BodyTo(text, H, k, name)
      <4>1. LastHeading(H, k, h)
        BY <3>1
      <4>2. QED
        <5>1. Grows(text, H, k, name, h)
          BY <1>1, <4>1, BodyGrows
        <5>2. QED
          BY <5>1, Zenon DEF Grows
    <3>3. QED
      BY <2>1, <2>2, <2>3, <3>1, <3>2
  <2>5. CASE acc.current = "" /\ \A h \in H : h > k
    <3>0. \A h \in H : h > k
      BY <2>5, Zenon
    <3>1. \A h \in H : h > k + 1
      <4>1. \A h \in H : h \in Nat /\ h # k + 1
        BY <1>0, <1>1
      <4>2. QED
        BY <3>0, <4>1
    <3>2. BodyTo(text, H, k, name) = {} /\ BodyTo(text, H, k + 1, name) = {}
      <4>1. k + 1 \in Nat
        OBVIOUS
      <4>2. QED
        BY <3>0, <3>1, <4>1, NoBody
    <3>3. QED
      BY <1>7, <2>1, <2>3, <2>5, <3>1, <3>2
  <2>6. QED
    BY <2>4, <2>5 DEF Scanned
<1>8. QED
  BY <1>2, <1>4, <1>5, <1>6, <1>7, Zenon DEF Scanned, next

LEMMA SectionsHold ==
  ASSUME NEW text, IsText(text), NEW H, Skips(text, H)
  PROVE  /\ "" \notin DOMAIN splitSections(text)
         /\ \A name : name # "" =>
              Lists(SectionOf(splitSections(text), name), BodyTo(text, H, Len(text), name))
<1> DEFINE N == Len(text)
<1>0. N \in Nat /\ DOMAIN text = 1..N
  BY DEF IsText
<1>1. PICK a : /\ a \in [0..N -> Accs(text)] /\ a[0] = Start
               /\ \A i \in 1..N : a[i] = ScanLine(text, a[i - 1], i)
               /\ splitSections(text) = Save(a[N])
  BY ScanChain
<1> DEFINE S == {k \in Nat : k <= N => Scanned(text, H, k, a[k])}
<1>2. 0 \in S
  <2>1. \A h \in H : h \in Nat /\ h > 0
    <3>1. \A h \in H : h \in 1..N
      BY Apart
    <3>2. QED
      BY <1>0, <3>1
  <2>2. 0 \notin H /\ 0 - 1 \notin H
    BY <2>1
  <2>3. /\ Start.skip = 0 /\ Start.current = "" /\ DOMAIN Start.sections = {}
        /\ Save(Start) = Start.sections
    BY DEF Start, Save
  <2>4. \A name : SectionOf(Save(Start), name) = <<>>
    BY <2>3 DEF SectionOf
  <2>5. \A name : BodyTo(text, H, 0, name) = {}
    BY DEF BodyTo
  <2>6. Lists(<<>>, {})
    BY ListsNothing
  <2>7. Scanned(text, H, 0, Start)
    BY <2>1, <2>2, <2>3, <2>4, <2>5, <2>6, Zenon DEF Scanned
  <2>8. QED
    BY <1>1, <2>7
<1>3. ASSUME NEW k \in Nat, k \in S PROVE k + 1 \in S
  <2> SUFFICES ASSUME k + 1 <= N PROVE Scanned(text, H, k + 1, a[k + 1])
    OBVIOUS
  <2>1. k \in 0..N /\ k + 1 \in 1..N /\ (k + 1) - 1 = k
    BY <1>0
  <2>2. a[k] \in Accs(text) /\ a[k + 1] = ScanLine(text, a[k], k + 1)
    BY <1>1, <2>1
  <2>3. Scanned(text, H, k, a[k])
    BY <1>3, <2>1
  <2>4. a[k].skip > 0 \/ a[k].skip = 0
    BY <2>2 DEF Accs
  <2> HIDE DEF S
  <2>5. QED
    BY <2>2, <2>3, <2>4, ScanSkips, ScanOpens, ScanAppends
<1>4. Scanned(text, H, N, a[N]) /\ a[N] \in Accs(text)
  <2> HIDE DEF S
  <2>1. N \in S
    BY <1>0, <1>2, <1>3, NatSets
  <2>2. N <= N /\ N \in 0..N
    BY <1>0
  <2>3. QED
    BY <1>1, <2>1, <2>2 DEF S
<1>5. QED
  BY <1>1, <1>4, SaveMaps DEF Scanned

LEMMA BodyOfText ==
  ASSUME NEW text, IsText(text), NEW name
  PROVE  BodyOf(text, name) = BodyTo(text, Headings(text), Len(text), name)
<1> DEFINE N == Len(text)
           H == Headings(text)
           here == {h \in H : TrimSpace(text[h + 1]) = name}
           Holds(i) == \E h \in here : /\ \A g \in here : g <= h
                                       /\ i > h + 2 /\ \A g \in H : g > h => i < g
<1>1. \A h \in H : h \in Nat /\ h <= N
  <2>1. \A h \in H : h \in 1..N
    BY HeadingsSkip, Apart
  <2>2. QED
    BY <2>1 DEF IsText
<1>2. BodyOf(text, name) = {i \in 1..N : Holds(i)}
  BY Zenon DEF BodyOf, IsText
<1> HIDE DEF H, N
<1>3. \A h \in here, g \in H : g <= h <=> ~(g > h)
  BY <1>1
<1>4. ASSUME NEW i \in 1..N
      PROVE  Holds(i) <=>
             \E h \in H : /\ h <= N /\ TitleOf(text, h) = name /\ i > h + 2
                          /\ \A g \in H : g > h => i < g /\ (g <= N => TitleOf(text, g) # name)
  <2>1. \A h \in H : h \in here <=> TitleOf(text, h) = name
    BY DEF TitleOf
  <2>2. here \subseteq H
    OBVIOUS
  <2> HIDE DEF here
  <2>3. QED
    BY <1>1, <1>3, <2>1, <2>2
<1> HIDE DEF Holds
<1>5. QED
  BY <1>2, <1>4 DEF BodyTo, H, N

\* The sections of a text, at the end of the loop.
LEMMA SplitTells ==
  ASSUME NEW text, IsText(text)
  PROVE  /\ "" \notin DOMAIN splitSections(text)
         /\ \A name : name # "" =>
              Lists(SectionOf(splitSections(text), name), BodyOf(text, name))
BY HeadingsSkip, SectionsHold, BodyOfText

(***************************************************************************)
(* parseDeadlocks                                                          *)
(***************************************************************************)
\* The latest line of some is one of them, and none is behind it.
LEMMA LatestIs ==
  ASSUME NEW N \in Nat
  PROVE  \A S \in SUBSET (1..N) : S # {} => Latest(S) \in S /\ \A k \in S : k <= Latest(S)
<1> DEFINE Has(S) == \E j \in S : \A k \in S : k <= j
           M == {n \in Nat : \A S \in SUBSET (1..n) : S # {} => Has(S)}
<1>1. 0 \in M
  <2>1. SUBSET (1..0) = {{}}
    OBVIOUS
  <2>2. QED
    BY <2>1
<1>2. ASSUME NEW n \in Nat, n \in M PROVE n + 1 \in M
  <2>1. ASSUME NEW S \in SUBSET (1..(n + 1)), S # {} PROVE Has(S)
    <3>1. CASE n + 1 \in S
      BY <3>1
    <3>2. CASE n + 1 \notin S
      <4>1. S \in SUBSET (1..n)
        BY <3>2
      <4>2. QED
        BY <1>2, <2>1, <4>1
    <3>3. QED
      BY <3>1, <3>2
  <2> HIDE DEF Has
  <2>2. QED
    BY <2>1
<1>3. N \in M
  <2> HIDE DEF M
  <2>1. QED
    BY <1>1, <1>2, NatSets
<1>4. ASSUME NEW S \in SUBSET (1..N), S # {}
      PROVE  Latest(S) \in S /\ \A k \in S : k <= Latest(S)
  <2>1. \E j \in S : \A k \in S : k <= j
    BY <1>3, <1>4
  <2>2. Latest(S) = CHOOSE j \in S : \A k \in S : k <= j
    BY <1>4 DEF Latest
  <2>3. QED
    BY <2>1, <2>2, Zenon
<1>5. QED
  BY <1>4

LEMMA LatestNone == Latest({}) = 0
BY DEF Latest

\* A later line is the latest.
LEMMA LatestAdds ==
  ASSUME NEW n \in Nat, NEW S \in SUBSET (1..n)
  PROVE  Latest(S \cup {n + 1}) = n + 1
<1> DEFINE T == S \cup {n + 1}
<1>1. T \in SUBSET (1..(n + 1)) /\ T # {} /\ n + 1 \in T
  OBVIOUS
<1> DEFINE m == Latest(T)
<1> HIDE DEF T
<1>2. m \in T /\ \A k \in T : k <= m
  <2>1. n + 1 \in Nat
    OBVIOUS
  <2>2. QED
    BY <1>1, <2>1, LatestIs
<1> HIDE DEF m
<1>3. m = n + 1
  <2>1. m \in 1..(n + 1) /\ n + 1 <= m
    BY <1>1, <1>2
  <2>2. QED
    BY <2>1
<1>4. QED
  BY <1>3 DEF T, m

Fields == {"waiting", "lock", "table", "query"}
TrxSet == [waiting : Nat, lock : Nat, table : Nat, query : Nat]
Victims == {NoVictim, "transaction_1", "transaction_2"}
DeadlockSet == [found : BOOLEAN, current : 0..2, victim : Victims, trx : [1..2 -> TrxSet]]

\* Before the first line.
LEMMA NoneTyped ==
  /\ NoDeadlock \in DeadlockSet /\ NoDeadlock.found = FALSE
  /\ \A dl : FirstTransaction(dl) = FirstTransaction(NoDeadlock)
<1>1. Trx \in TrxSet
  BY DEF Trx, TrxSet
<1>2. <<Trx, Trx>> \in [1..2 -> TrxSet]
  BY <1>1
<1>3. QED
  BY <1>1, <1>2 DEF NoDeadlock, FirstTransaction, DeadlockSet, Victims

\* What a first transaction leaves of the deadlock.
LEMMA FirstTold ==
  LET e == FirstTransaction(NoDeadlock)
  IN  /\ e \in DeadlockSet
      /\ e.found = TRUE /\ e.current = 1 /\ e.victim = NoVictim
      /\ \A k \in 1..2, f \in Fields : e.trx[k][f] = 0
<1> DEFINE both == <<Trx, Trx>>
<1>1. Trx \in TrxSet /\ \A f \in Fields : Trx[f] = 0
  BY DEF Trx, TrxSet, Fields
<1>2. both \in [1..2 -> TrxSet] /\ \A k \in 1..2 : both[k] = Trx
  BY <1>1
<1>3. NoDeadlock = [found |-> FALSE, current |-> 0, victim |-> NoVictim, trx |-> both]
  BY DEF NoDeadlock
<1> HIDE DEF both
<1>4. NoDeadlock.victim = NoVictim /\ NoDeadlock.trx = both
  BY <1>3
<1>5. NoDeadlock \in DeadlockSet
  BY NoneTyped
<1> DEFINE e == [found |-> TRUE, current |-> 1, victim |-> NoVictim, trx |-> both]
<1>6. e \in DeadlockSet /\ e.found = TRUE /\ e.current = 1 /\ e.victim = NoVictim /\ e.trx = both
  <2>1. e \in DeadlockSet
    BY <1>2 DEF DeadlockSet, Victims
  <2>2. QED
    BY <2>1
<1>7. FirstTransaction(NoDeadlock) = e
  <2> DEFINE Names == {"found", "current", "victim", "trx"}
             d == [NoDeadlock EXCEPT !.found = TRUE, !.current = 1]
  <2>1. d = [n \in Names |-> d[n]] /\ e = [n \in Names |-> e[n]]
    BY <1>3
  <2>2. d["found"] = e["found"]
    BY <1>3
  <2>3. d["current"] = e["current"] /\ d["victim"] = e["victim"] /\ d["trx"] = e["trx"]
    BY <1>3
  <2> HIDE DEF d, e
  <2>4. d = e
    BY <2>1, <2>2, <2>3
  <2>5. QED
    BY <2>4 DEF d, FirstTransaction
<1> HIDE DEF e
<1>8. \A k \in 1..2, f \in Fields : e.trx[k][f] = 0
  BY <1>1, <1>2, <1>6
<1>9. QED
  BY <1>6, <1>7, <1>8

Described(dl, f, i, e) ==
  /\ e \in DeadlockSet
  /\ e.found = dl.found /\ e.current = dl.current /\ e.victim = dl.victim
  /\ \A k \in 1..2, g \in Fields :
       e.trx[k][g] = IF k = dl.current /\ g = f THEN i ELSE dl.trx[k][g]

\* A line that describes the current transaction.
LEMMA Describes ==
  ASSUME NEW dl \in DeadlockSet, NEW f \in Fields, NEW i \in Nat
  PROVE  Described(dl, f, i, Describe(dl, f, i))
<1>1. CASE dl.current = 0
  BY <1>1 DEF Describe, Described, DeadlockSet
<1>2. CASE dl.current # 0
  <2> DEFINE c == dl.current
             r == [dl.trx[c] EXCEPT ![f] = i]
             t == [dl.trx EXCEPT ![c] = r]
  <2>1. c \in 1..2 /\ dl.trx \in [1..2 -> TrxSet] /\ dl.trx[c] \in TrxSet
    BY <1>2 DEF DeadlockSet
  <2>2. r \in TrxSet /\ \A g \in Fields : r[g] = IF g = f THEN i ELSE dl.trx[c][g]
    BY <2>1 DEF TrxSet, Fields
  <2>3. Describe(dl, f, i) = [dl EXCEPT !.trx = t]
    BY <1>2 DEF Describe
  <2> HIDE DEF r
  <2>4. t \in [1..2 -> TrxSet] /\ \A k \in 1..2 : t[k] = IF k = c THEN r ELSE dl.trx[k]
    BY <2>1, <2>2
  <2> HIDE DEF t
  <2>5. QED
    BY <2>2, <2>3, <2>4 DEF Described, DeadlockSet
<1>3. QED
  BY <1>1, <1>2

LEMMA Kinds ==
  /\ DOMAIN KindsOf = Fields
  /\ KindsOf["waiting"] = {"WAITING_FOR_THIS_LOCK"} /\ KindsOf["lock"] = {"lock_mode"}
  /\ KindsOf["table"] = {"TABLE"} /\ KindsOf["query"] = Verbs
BY DEF KindsOf, Fields

\* What a line does to the deadlock, by its kind.
LineDoes(text, dl, i, e) ==
  /\ e \in DeadlockSet
  /\ e.found = dl.found
  /\ e.current = IF text[i] = "TRANSACTION_2" THEN 2 ELSE dl.current
  /\ e.victim = IF text[i] = "WE_ROLL_BACK_1" THEN "transaction_1"
                ELSE IF text[i] = "WE_ROLL_BACK_2" THEN "transaction_2" ELSE dl.victim
  /\ \A k \in 1..2, g \in Fields :
       e.trx[k][g] = IF k = dl.current /\ text[i] \in KindsOf[g] THEN i ELSE dl.trx[k][g]

LEMMA LineTells ==
  ASSUME NEW text, NEW dl \in DeadlockSet, NEW i \in Nat
  PROVE  IF text[i] = "TRANSACTION_1" THEN DeadlockLine(text, dl, i) = FirstTransaction(NoDeadlock)
         ELSE LineDoes(text, dl, i, DeadlockLine(text, dl, i))
<1> DEFINE e == DeadlockLine(text, dl, i)
<1>1. CASE text[i] = "TRANSACTION_1"
  BY <1>1, NoneTyped DEF DeadlockLine, Verbs
<1>2. CASE text[i] = "TRANSACTION_2"
  <2>1. e = [dl EXCEPT !.current = 2]
    BY <1>2 DEF DeadlockLine, Verbs
  <2>2. \A g \in Fields : text[i] \notin KindsOf[g]
    BY <1>2, Kinds DEF Fields, Verbs
  <2>3. QED
    BY <1>2, <2>1, <2>2 DEF LineDoes, DeadlockSet
<1>3. CASE text[i] \in {"WE_ROLL_BACK_1", "WE_ROLL_BACK_2"}
  <2>1. e = [dl EXCEPT !.victim = IF text[i] = "WE_ROLL_BACK_1" THEN "transaction_1" ELSE "transaction_2"]
    BY <1>3 DEF DeadlockLine, Verbs
  <2>2. \A g \in Fields : text[i] \notin KindsOf[g]
    BY <1>3, Kinds DEF Fields, Verbs
  <2>3. QED
    BY <1>3, <2>1, <2>2 DEF LineDoes, DeadlockSet, Victims
<1>4. ASSUME NEW f \in Fields, text[i] \in KindsOf[f] PROVE LineDoes(text, dl, i, e) /\ text[i] # "TRANSACTION_1"
  <2>1. e = Describe(dl, f, i)
    BY <1>4, Kinds DEF DeadlockLine, Verbs, Fields
  <2>2. \A g \in Fields : text[i] \in KindsOf[g] <=> g = f
    BY <1>4, Kinds DEF Verbs, Fields
  <2>3. text[i] \notin {"TRANSACTION_1", "TRANSACTION_2", "WE_ROLL_BACK_1", "WE_ROLL_BACK_2"}
    BY <1>4, Kinds DEF Verbs, Fields
  <2>4. QED
    <3>1. Described(dl, f, i, e)
      BY <2>1, Describes
    <3>2. QED
      BY <2>2, <2>3, <3>1 DEF LineDoes, Described
<1>5. CASE /\ text[i] \notin {"TRANSACTION_1", "TRANSACTION_2", "WE_ROLL_BACK_1", "WE_ROLL_BACK_2"}
           /\ \A g \in Fields : text[i] \notin KindsOf[g]
  <2>1. e = dl
    BY <1>5, Kinds DEF DeadlockLine, Verbs, Fields
  <2>2. QED
    BY <1>5, <2>1 DEF LineDoes
<1>6. QED
  BY <1>1, <1>2, <1>3, <1>4, <1>5

LEMMA LineIn ==
  ASSUME NEW text, NEW dl \in DeadlockSet, NEW i \in Nat
  PROVE  DeadlockLine(text, dl, i) \in DeadlockSet
BY LineTells, FirstTold DEF LineDoes

\* The loop over the lines of the section, line by line.
LEMMA DeadlockChain ==
  ASSUME NEW text, NEW M \in Nat, NEW s \in Seq(1..M)
  PROVE  \E d : /\ d \in [0..Len(s) -> DeadlockSet] /\ d[0] = NoDeadlock
                /\ \A p \in 1..Len(s) : d[p] = DeadlockLine(text, d[p - 1], s[p])
                /\ parseDeadlocks(text, s) =
                     IF d[Len(s)].found
                     THEN <<[trx |-> d[Len(s)].trx, victim |-> d[Len(s)].victim]>> ELSE <<>>
<1> DEFINE N == Len(s)
           A == DeadlockSet
           H == [p \in 1..N |-> [dl \in A |-> DeadlockLine(text, dl, s[p])]]
           Eq(g) == g = [S \in SUBSET DOMAIN s |->
                           IF S = {} THEN NoDeadlock ELSE DeadlockLine(text, g[S \ {Max(S)}], s[Max(S)])]
           it == CHOOSE g : Eq(g)
           dl == it[DOMAIN s]
<1>1. N \in Nat /\ DOMAIN s = 1..N /\ \A p \in 1..N : s[p] \in Nat
  BY LenProperties
<1>2. NoDeadlock \in A
  BY NoneTyped
<1>3. H \in [1..N -> [A -> A]]
  BY <1>1, LineIn
<1>4. \A S \in SUBSET (1..N) : S # {} => Max(S) \in 1..N
  BY <1>1, MaxIn
<1>5. \E g : Eq(g)
  <2>1. PICK g \in [SUBSET (1..N) -> A] : FoldsBy(g, N, NoDeadlock, H)
    <3> HIDE DEF N, H, A
    <3>1. QED
      BY <1>1, <1>2, <1>3, FoldExists
  <2> HIDE DEF A, N
  <2>2. ASSUME NEW S \in SUBSET (1..N)
        PROVE  g[S] = IF S = {} THEN NoDeadlock ELSE DeadlockLine(text, g[S \ {Max(S)}], s[Max(S)])
    BY <1>4, <2>1 DEF FoldsBy
  <2>3. QED
    BY <1>1, <2>2
<1>6. Eq(it)
  <2> HIDE DEF Eq
  <2>1. QED
    BY <1>5, Zenon
<1>7. IsFold(it, N, A, NoDeadlock, H)
  <2> HIDE DEF it, A
  <2>1. QED
    BY <1>1, <1>4, <1>6 DEF IsFold
<1>8. parseDeadlocks(text, s) = IF dl.found THEN <<[trx |-> dl.trx, victim |-> dl.victim]>> ELSE <<>>
  BY Zenon DEF parseDeadlocks, FoldLeft, MapThenFoldSet
<1>9. QED
  <2>1. PICK d : IsChain(d, N, A, NoDeadlock, H) /\ d[N] = it[1..N]
    <3>1. N \in Nat
      BY <1>1
    <3> HIDE DEF N, H, it, A
    <3>2. \E d : IsChain(d, N, A, NoDeadlock, H) /\ d[N] = it[1..N]
      BY <1>2, <1>3, <1>7, <3>1, FoldChain
    <3>3. QED
      BY <3>2
  <2>2. d[N] = dl
    BY <1>1, <2>1
  <2> HIDE DEF A, it, dl
  <2>3. ASSUME NEW p \in 1..N PROVE d[p] = DeadlockLine(text, d[p - 1], s[p])
    <3>1. p - 1 \in 0..N
      BY <1>1
    <3>2. d[p - 1] \in A /\ d[p] = H[p][d[p - 1]]
      BY <2>1, <3>1 DEF IsChain
    <3>3. QED
      BY <3>2
  <2>4. parseDeadlocks(text, s) = IF d[N].found THEN <<[trx |-> d[N].trx, victim |-> d[N].victim]>> ELSE <<>>
    BY <1>8, <2>2, Zenon
  <2>5. QED
    BY <2>1, <2>3, <2>4, Zenon DEF IsChain, A

Heads == {"TRANSACTION_1", "TRANSACTION_2"}
Rolls == {"WE_ROLL_BACK_1", "WE_ROLL_BACK_2"}

VictimAt(text, i) ==
  IF i = 0 THEN NoVictim
  ELSE IF text[i] = "WE_ROLL_BACK_1" THEN "transaction_1" ELSE "transaction_2"

\* What the lines of S have come to.
Carries(text, S, dl) ==
  /\ dl.found <=> StartsAt(text, S) # 0
  /\ StartsAt(text, S) # 0 =>
       /\ dl.current = IF text[Latest(LinesAt(text, S, Heads))] = "TRANSACTION_1" THEN 1 ELSE 2
       /\ dl.victim = VictimAt(text, RolledAt(text, S))
       /\ \A k \in 1..2, f \in Fields :
            dl.trx[k][f] = Latest(LinesAt(text, Under(text, S, k), KindsOf[f]))

\* One more line, behind the others.
LEMMA LatestLine ==
  ASSUME NEW text, NEW n \in Nat, NEW S \in SUBSET (1..n), NEW K
  PROVE  Latest(LinesAt(text, S \cup {n + 1}, K)) =
           IF text[n + 1] \in K THEN n + 1 ELSE Latest(LinesAt(text, S, K))
<1> DEFINE L == LinesAt(text, S, K)
           G == LinesAt(text, S \cup {n + 1}, K)
<1>1. L \in SUBSET (1..n)
  BY DEF LinesAt
<1>2. G = IF text[n + 1] \in K THEN L \cup {n + 1} ELSE L
  BY DEF LinesAt
<1> HIDE DEF L, G
<1>3. Latest(L \cup {n + 1}) = n + 1
  BY <1>1, LatestAdds
<1>4. Latest(G) = IF text[n + 1] \in K THEN n + 1 ELSE Latest(L)
  BY <1>2, <1>3
<1>5. QED
  BY <1>4 DEF L, G

\* Where a deadlock has started there is a heading to describe under.
LEMMA StartsIn ==
  ASSUME NEW text, NEW n \in Nat, NEW S \in SUBSET (1..n), StartsAt(text, S) # 0
  PROVE  /\ StartsAt(text, S) \in S /\ text[StartsAt(text, S)] = "TRANSACTION_1"
         /\ Latest(LinesAt(text, S, Heads)) \in S
         /\ text[Latest(LinesAt(text, S, Heads))] \in Heads
<1> DEFINE one == LinesAt(text, S, {"TRANSACTION_1"})
           both == LinesAt(text, S, Heads)
<1>1. one \in SUBSET (1..n) /\ both \in SUBSET (1..n) /\ one \subseteq both
  BY DEF LinesAt, Heads
<1>2. one # {}
  BY LatestNone DEF StartsAt
<1>3. StartsAt(text, S) \in one /\ Latest(both) \in both
  <2> HIDE DEF one, both
  <2>1. Latest(one) \in one /\ Latest(both) \in both
    BY <1>1, <1>2, LatestIs
  <2>2. QED
    BY <2>1 DEF StartsAt, one
<1>4. QED
  BY <1>3 DEF LinesAt

\* What the next line is does not change the heading that a line stands under.
LEMMA HeadsStay ==
  ASSUME NEW text, NEW n \in Nat, NEW S \in SUBSET (1..n)
  PROVE  /\ \A j \in S : HeadOf(text, S \cup {n + 1}, j) = HeadOf(text, S, j)
         /\ HeadOf(text, S \cup {n + 1}, n + 1) = Latest(LinesAt(text, S, Heads))
<1> DEFINE T == S \cup {n + 1}
<1>1. LinesAt(text, S, Heads) \in SUBSET (1..n)
  BY DEF LinesAt
<1>2. ASSUME NEW j \in 1..(n + 1)
      PROVE  {h \in LinesAt(text, T, Heads) : h < j} = {h \in LinesAt(text, S, Heads) : h < j}
  <2> DEFINE L == LinesAt(text, S, Heads)
             G == LinesAt(text, T, Heads)
  <2>1. G = L \/ G = L \cup {n + 1}
    BY DEF LinesAt
  <2>2. ~(n + 1 < j)
    OBVIOUS
  <2> HIDE DEF L, G
  <2>3. {h \in G : h < j} = {h \in L : h < j}
    BY <2>1, <2>2
  <2>4. QED
    BY <2>3 DEF L, G
<1>3. {h \in LinesAt(text, S, Heads) : h < n + 1} = LinesAt(text, S, Heads)
  BY <1>1
<1>4. n + 1 \in 1..(n + 1) /\ \A j \in S : j \in 1..(n + 1)
  OBVIOUS
<1>5. \A j \in 1..(n + 1) : HeadOf(text, T, j) = HeadOf(text, S, j)
  BY <1>2 DEF HeadOf, Heads
<1>6. QED
  BY <1>3, <1>4, <1>5 DEF HeadOf, Heads

LEMMA TellsNone == ASSUME NEW text PROVE Carries(text, {}, NoDeadlock)
<1>1. LinesAt(text, {}, {"TRANSACTION_1"}) = {}
  BY DEF LinesAt
<1>2. StartsAt(text, {}) = 0
  BY <1>1, LatestNone DEF StartsAt
<1>3. QED
  BY <1>2, NoneTyped DEF Carries

\* A line that starts a deadlock leaves nothing of what was there.
LEMMA TellsFirst ==
  ASSUME NEW text, NEW n \in Nat, NEW S \in SUBSET (1..n), NEW dl \in DeadlockSet,
         text[n + 1] = "TRANSACTION_1"
  PROVE  Carries(text, S \cup {n + 1}, DeadlockLine(text, dl, n + 1))
<1> DEFINE T == S \cup {n + 1}
           e == DeadlockLine(text, dl, n + 1)
<1>1. e = FirstTransaction(NoDeadlock)
  BY LineTells
<1>2. StartsAt(text, T) = n + 1 /\ Latest(LinesAt(text, T, Heads)) = n + 1
  BY LatestLine DEF StartsAt, Heads
<1>3. \A j \in T : ~(j > n + 1)
  OBVIOUS
<1> HIDE DEF T, e
<1>4. \A k : Under(text, T, k) = {}
  BY <1>2, <1>3 DEF Under
<1>5. \A K : LinesAt(text, {}, K) = {}
  BY DEF LinesAt
<1>6. RolledAt(text, T) = 0
  <2>1. {j \in LinesAt(text, T, {"WE_ROLL_BACK_1", "WE_ROLL_BACK_2"}) : j > StartsAt(text, T)} = {}
    BY <1>2, <1>3 DEF LinesAt
  <2>2. QED
    BY <2>1, LatestNone DEF RolledAt
<1>7. \A k \in 1..2, f \in Fields : e.trx[k][f] = Latest(LinesAt(text, Under(text, T, k), KindsOf[f]))
  BY <1>1, <1>4, <1>5, FirstTold, LatestNone
<1>8. e.found = TRUE /\ e.current = 1 /\ e.victim = NoVictim
  BY <1>1, FirstTold
<1>9. n + 1 # 0
  OBVIOUS
<1>10. Carries(text, T, e)
  BY <1>2, <1>6, <1>7, <1>8, <1>9 DEF Carries, VictimAt
<1>11. QED
  BY <1>10 DEF T, e

\* The lines behind a start: where the last deadlock and its headings are once
\* another line has been read.
UnderGrows(text, n, S, k) ==
  Under(text, S \cup {n + 1}, k) =
    IF text[Latest(LinesAt(text, S, Heads))] = <<"TRANSACTION_1", "TRANSACTION_2">>[k]
    THEN Under(text, S, k) \cup {n + 1} ELSE Under(text, S, k)

LEMMA UnderMore ==
  ASSUME NEW text, NEW n \in Nat, NEW S \in SUBSET (1..n), StartsAt(text, S) # 0,
         text[n + 1] # "TRANSACTION_1", NEW k \in 1..2
  PROVE  /\ StartsAt(text, S \cup {n + 1}) = StartsAt(text, S)
         /\ Under(text, S, k) \in SUBSET (1..n)
         /\ UnderGrows(text, n, S, k)
<1> DEFINE T == S \cup {n + 1}
           first == StartsAt(text, S)
           heading == <<"TRANSACTION_1", "TRANSACTION_2">>[k]
           B == Under(text, S, k)
           A == Under(text, T, k)
           last == Latest(LinesAt(text, S, Heads))
<1>1. StartsAt(text, T) = first
  BY LatestLine DEF StartsAt
<1>2. first \in 1..n
  BY StartsIn
<1>3. A = {j \in T : j > first /\ text[HeadOf(text, T, j)] = heading}
  BY <1>1 DEF Under
<1>4. B = {j \in S : j > first /\ text[HeadOf(text, S, j)] = heading}
  BY DEF Under
<1>5. \A j \in S : HeadOf(text, T, j) = HeadOf(text, S, j)
  BY HeadsStay
<1>6. HeadOf(text, T, n + 1) = last
  BY HeadsStay
<1> HIDE DEF first, heading, A, B, last
<1>7. A = IF text[last] = heading THEN B \cup {n + 1} ELSE B
  <2>1. \A j \in S : j \in A <=> j \in B
    BY <1>3, <1>4, <1>5
  <2>2. n + 1 \in A <=> text[last] = heading
    BY <1>2, <1>3, <1>6
  <2>0. T \in SUBSET (1..(n + 1)) /\ T \subseteq S \cup {n + 1}
    OBVIOUS
  <2> HIDE DEF T
  <2>3. /\ A \in SUBSET (1..(n + 1)) /\ A \subseteq S \cup {n + 1}
        /\ B \in SUBSET (1..n) /\ B \subseteq S
    BY <1>3, <1>4, <2>0
  <2>4. \A j \in 1..n : j \in A <=> j \in B
    BY <2>1, <2>3
  <2>5. A = IF n + 1 \in A THEN B \cup {n + 1} ELSE B
    BY <2>3, <2>4, OneMore
  <2>6. QED
    BY <2>2, <2>5
<1>8. B \in SUBSET (1..n)
  BY <1>4
<1>9. QED
  BY <1>1, <1>7, <1>8, Zenon DEF UnderGrows, first, heading, A, B, last, T

\* The line of the victim, once another line has been read.
LEMMA RolledMore ==
  ASSUME NEW text, NEW n \in Nat, NEW S \in SUBSET (1..n), StartsAt(text, S) # 0,
         text[n + 1] # "TRANSACTION_1"
  PROVE  RolledAt(text, S \cup {n + 1}) = IF text[n + 1] \in Rolls THEN n + 1 ELSE RolledAt(text, S)
<1> DEFINE T == S \cup {n + 1}
           first == StartsAt(text, S)
           B == {j \in LinesAt(text, S, Rolls) : j > first}
           A == {j \in LinesAt(text, T, Rolls) : j > first}
<1>1. StartsAt(text, T) = first
  BY LatestLine DEF StartsAt
<1>2. first \in 1..n
  BY StartsIn
<1>3. RolledAt(text, S) = Latest(B) /\ RolledAt(text, T) = Latest(A)
  BY <1>1 DEF RolledAt, Rolls
<1> HIDE DEF first
<1>4. A = IF text[n + 1] \in Rolls THEN B \cup {n + 1} ELSE B
  BY <1>2 DEF LinesAt
<1>5. B \in SUBSET (1..n)
  BY DEF LinesAt
<1> HIDE DEF A, B
<1>6. Latest(B \cup {n + 1}) = n + 1
  BY <1>5, LatestAdds
<1>7. QED
  BY <1>3, <1>4, <1>6

\* Any other line adds to what the lines before it came to.
LEMMA TellsMore ==
  ASSUME NEW text, NEW n \in Nat, NEW S \in SUBSET (1..n), NEW dl \in DeadlockSet,
         text[n + 1] # "TRANSACTION_1", Carries(text, S, dl)
  PROVE  Carries(text, S \cup {n + 1}, DeadlockLine(text, dl, n + 1))
<1> DEFINE T == S \cup {n + 1}
           e == DeadlockLine(text, dl, n + 1)
           last == Latest(LinesAt(text, S, Heads))
<1>1. LineDoes(text, dl, n + 1, e)
  BY LineTells
<1>2. StartsAt(text, T) = StartsAt(text, S)
  BY LatestLine DEF StartsAt
<1> HIDE DEF e, T
<1>3. e.found <=> StartsAt(text, T) # 0
  BY <1>1, <1>2, Zenon DEF Carries, LineDoes
<1>4. ASSUME StartsAt(text, S) # 0
      PROVE  /\ e.current = IF text[Latest(LinesAt(text, T, Heads))] = "TRANSACTION_1" THEN 1 ELSE 2
             /\ e.victim = VictimAt(text, RolledAt(text, T))
             /\ \A k \in 1..2, f \in Fields :
                  e.trx[k][f] = Latest(LinesAt(text, Under(text, T, k), KindsOf[f]))
  <2>1. /\ dl.current = IF text[last] = "TRANSACTION_1" THEN 1 ELSE 2
        /\ dl.victim = VictimAt(text, RolledAt(text, S))
        /\ \A k \in 1..2, f \in Fields :
             dl.trx[k][f] = Latest(LinesAt(text, Under(text, S, k), KindsOf[f]))
    BY <1>4, Zenon DEF Carries
  <2>2. text[last] \in Heads
    BY <1>4, StartsIn
  <2>3. Latest(LinesAt(text, T, Heads)) = IF text[n + 1] \in Heads THEN n + 1 ELSE last
    BY LatestLine DEF T
  <2>4. RolledAt(text, T) = IF text[n + 1] \in Rolls THEN n + 1 ELSE RolledAt(text, S)
    BY <1>4, RolledMore DEF T
  <2> HIDE DEF last
  <2>5. e.current = IF text[Latest(LinesAt(text, T, Heads))] = "TRANSACTION_1" THEN 1 ELSE 2
    BY <1>1, <2>1, <2>3 DEF LineDoes, Heads
  <2>6. e.victim = VictimAt(text, RolledAt(text, T))
    BY <1>1, <2>1, <2>4 DEF LineDoes, Rolls, VictimAt
  <2>7. ASSUME NEW k \in 1..2, NEW f \in Fields
        PROVE  e.trx[k][f] = Latest(LinesAt(text, Under(text, T, k), KindsOf[f]))
    <3> DEFINE U == Under(text, S, k)
               V == Under(text, T, k)
               K == KindsOf[f]
    <3>1. U \in SUBSET (1..n)
      BY <1>4, UnderMore
    <3>2. text[last] = <<"TRANSACTION_1", "TRANSACTION_2">>[k] <=> k = dl.current
      BY <2>1, <2>2 DEF Heads
    <3>3. V = IF k = dl.current THEN U \cup {n + 1} ELSE U
      <4>0. UnderGrows(text, n, S, k)
        BY <1>4, UnderMore
      <4>1. V = IF text[last] = <<"TRANSACTION_1", "TRANSACTION_2">>[k] THEN U \cup {n + 1} ELSE U
        BY <4>0, Zenon DEF UnderGrows, U, V, T, last
      <4>2. QED
        BY <3>2, <4>1
    <3>4. e.trx[k][f] = IF k = dl.current /\ text[n + 1] \in K THEN n + 1 ELSE dl.trx[k][f]
      BY <1>1, Zenon DEF LineDoes
    <3>5. dl.trx[k][f] = Latest(LinesAt(text, U, K))
      BY <2>1
    <3> HIDE DEF U, V, K
    <3>6. Latest(LinesAt(text, U \cup {n + 1}, K)) = IF text[n + 1] \in K THEN n + 1 ELSE Latest(LinesAt(text, U, K))
      BY <3>1, LatestLine
    <3>7. e.trx[k][f] = Latest(LinesAt(text, V, K))
      BY <3>3, <3>4, <3>5, <3>6
    <3>8. QED
      BY <3>7 DEF V, K
  <2>8. QED
    BY <2>5, <2>6, <2>7
<1>5. Carries(text, T, e)
  BY <1>2, <1>3, <1>4, Zenon DEF Carries
<1>6. QED
  BY <1>5 DEF T, e

\* The last line of the section.
LEMMA DeadlockTold ==
  ASSUME NEW text, NEW M \in Nat, NEW s \in Seq(1..M), NEW S, Lists(s, S)
  PROVE  \E dl \in DeadlockSet :
           /\ Carries(text, S, dl)
           /\ parseDeadlocks(text, s) =
                IF dl.found THEN <<[trx |-> dl.trx, victim |-> dl.victim]>> ELSE <<>>
<1> DEFINE N == Len(s)
           Read(p) == {s[q] : q \in 1..p}
<1>1. N \in Nat /\ DOMAIN s = 1..N /\ \A p \in 1..N : s[p] \in 1..M
  BY LenProperties
<1>2. \A p \in 1..N, q \in 1..N : p < q => s[p] < s[q]
  BY <1>1 DEF Lists
<1>3. Read(N) = S
  BY <1>1 DEF Lists, ToSet
<1>4. PICK d : /\ d \in [0..N -> DeadlockSet] /\ d[0] = NoDeadlock
               /\ \A p \in 1..N : d[p] = DeadlockLine(text, d[p - 1], s[p])
               /\ parseDeadlocks(text, s) =
                    IF d[N].found THEN <<[trx |-> d[N].trx, victim |-> d[N].victim]>> ELSE <<>>
  BY DeadlockChain
<1> DEFINE P == {p \in Nat : p <= N => Carries(text, Read(p), d[p])}
<1>5. 0 \in P
  <2>1. Read(0) = {}
    OBVIOUS
  <2>2. Carries(text, {}, d[0])
    BY <1>4, TellsNone
  <2> HIDE DEF Read
  <2>3. QED
    BY <2>1, <2>2
<1>6. ASSUME NEW p \in Nat, p \in P PROVE p + 1 \in P
  <2> SUFFICES ASSUME p + 1 <= N PROVE Carries(text, Read(p + 1), d[p + 1])
    OBVIOUS
  <2> DEFINE n == s[p + 1] - 1
             R == Read(p)
  <2>1. p \in 0..N /\ p + 1 \in 1..N /\ (p + 1) - 1 = p /\ p <= N
    BY <1>1
  <2>2. n \in Nat /\ n + 1 = s[p + 1]
    BY <1>1, <2>1
  <2>3. R \in SUBSET (1..n)
    <3>1. \A q \in 1..p : q \in 1..N /\ q < p + 1
      BY <1>1, <2>1
    <3>2. \A q \in 1..p : s[q] \in 1..M /\ s[q] < s[p + 1]
      BY <1>1, <1>2, <2>1, <3>1
    <3>3. s[p + 1] \in 1..M
      BY <1>1, <2>1
    <3>4. QED
      BY <3>2, <3>3
  <2>4. Read(p + 1) = R \cup {n + 1}
    BY <2>2
  <2>5. d[p] \in DeadlockSet /\ d[p + 1] = DeadlockLine(text, d[p], n + 1)
    BY <1>4, <2>1, <2>2
  <2>6. Carries(text, R, d[p])
    BY <1>6, <2>1
  <2> HIDE DEF n, R, Read
  <2>7. Carries(text, R \cup {n + 1}, DeadlockLine(text, d[p], n + 1))
    BY <2>2, <2>3, <2>5, <2>6, TellsFirst, TellsMore
  <2>8. QED
    BY <2>4, <2>5, <2>7
<1>7. Carries(text, S, d[N]) /\ d[N] \in DeadlockSet
  <2> HIDE DEF P, Read
  <2>1. N \in P
    BY <1>1, <1>5, <1>6, NatSets
  <2>2. N <= N /\ N \in 0..N
    BY <1>1
  <2>3. QED
    BY <1>3, <1>4, <2>1, <2>2 DEF P
<1>8. QED
  BY <1>4, <1>7

(***************************************************************************)
(* The report of a server is made of its own text.                         *)
(***************************************************************************)
LEMMA TextOf ==
  ASSUME CommandsInv, NEW i \in DOMAIN fleet, Parsed(i)
  PROVE  results[i][1] = fleet[i].text /\ IsText(fleet[i].text)
<1>1. SweepInv /\ i \in DOMAIN results /\ command = "innodb" /\ results[i] # <<>>
  BY DEF CommandsInv, Parsed
<1>2. PICK lost : results[i] = queryInnoDBStatus(fleet[i], lost)
  <2>1. PICK lost : results[i] = Yield(fleet[i], lost)
    BY <1>1 DEF SweepInv, Told
  <2>2. QED
    BY <1>1, <2>1 DEF Yield
<1>3. results[i] = <<fleet[i].text>>
  BY <1>1, <1>2 DEF queryInnoDBStatus
<1>4. fleet[i] \in Servers
  BY <1>1, InFleet
<1>5. fleet[i].text \in Seq(ToSet(fleet[i].text))
  BY <1>4, TextsAssumption
<1>6. IsText(fleet[i].text)
  BY <1>5, LenProperties DEF IsText
<1>7. QED
  BY <1>3, <1>6

LEMMA SectionsTrue == CommandsInv => SectionsExact
<1> SUFFICES ASSUME CommandsInv, NEW i \in DOMAIN fleet, Parsed(i)
             PROVE  LET text == fleet[i].text
                        sections == splitSections(results[i][1])
                    IN  /\ \A name \in ToSet(text) \ {"---", "", " "} :
                             ToSet(SectionOf(sections, name)) = BodyOf(text, name)
                        /\ "" \notin DOMAIN sections
  BY DEF SectionsExact
<1> DEFINE text == fleet[i].text
<1>1. results[i][1] = text /\ IsText(text)
  BY TextOf
<1> HIDE DEF text
<1>2. "" \notin DOMAIN splitSections(text)
  BY <1>1, SplitTells, Zenon
<1>3. ASSUME NEW name \in ToSet(text) \ {"---", "", " "}
      PROVE  ToSet(SectionOf(splitSections(text), name)) = BodyOf(text, name)
  <2>1. name # ""
    BY Zenon
  <2>2. Lists(SectionOf(splitSections(text), name), BodyOf(text, name))
    BY <1>1, <2>1, SplitTells, Zenon
  <2>3. QED
    BY <2>2 DEF Lists
<1>4. QED
  BY <1>1, <1>2, <1>3, Zenon DEF text

\* Whatever text a server answers with, innodb takes its sections apart exactly:
\* each holds the lines behind its last heading, up to the next one, and no
\* others, and nothing is filed under no name (splitSections).
THEOREM SectionsAreExact == Spec => []SectionsExact
BY CommandsInvariant, SectionsTrue, PTL

\* A section is a sequence of lines of the text.
LEMMA SectionIsLines ==
  ASSUME NEW text, IsText(text), NEW name
  PROVE  SectionOf(splitSections(text), name) \in Seq(1..Len(text))
<1>1. DOMAIN text = 1..Len(text) /\ Len(text) \in 0..Len(text)
  BY DEF IsText
<1>2. PICK a : /\ a \in [0..Len(text) -> Accs(text)]
               /\ splitSections(text) = Save(a[Len(text)])
  BY ScanChain
<1>3. a[Len(text)] \in Accs(text)
  BY <1>1, <1>2
<1>4. Save(a[Len(text)]) \in SectionMaps(text)
  BY <1>3, SaveMaps
<1>5. QED
  BY <1>1, <1>2, <1>4, EmptySeq DEF SectionOf, SectionMaps

LEMMA DeadlocksTrue == CommandsInv => DeadlockExact
<1> DEFINE Exact(text, dl) ==
             LET body == BodyOf(text, "LATEST_DETECTED_DEADLOCK")
                 rolled == RolledAt(text, body)
             IN  IF StartsAt(text, body) = 0 THEN dl = <<>>
                 ELSE /\ \A k \in {1, 2}, field \in DOMAIN KindsOf :
                           dl[1].trx[k][field] = Latest(LinesAt(text, Under(text, body, k), KindsOf[field]))
                      /\ dl[1].victim = IF rolled = 0 THEN NoVictim
                                        ELSE IF text[rolled] = "WE_ROLL_BACK_1" THEN "transaction_1"
                                        ELSE "transaction_2"
<1>1. ASSUME CommandsInv, NEW i \in DOMAIN fleet, Parsed(i)
      PROVE  Exact(fleet[i].text, InnoDBReport(i).deadlocks)
  <2> DEFINE text == fleet[i].text
             name == "LATEST_DETECTED_DEADLOCK"
             s == SectionOf(splitSections(text), name)
             S == BodyOf(text, name)
  <2>1. results[i][1] = text /\ IsText(text)
    BY <1>1, TextOf
  <2>2. InnoDBReport(i).deadlocks = parseDeadlocks(text, s)
    BY <2>1 DEF InnoDBReport, Parse
  <2> HIDE DEF text
  <2>3. name # ""
    BY Zenon
  <2>4. Lists(s, S)
    BY <2>1, <2>3, SplitTells, Zenon
  <2>5. s \in Seq(1..Len(text)) /\ Len(text) \in Nat
    BY <2>1, SectionIsLines DEF IsText
  <2> HIDE DEF s, S
  <2>6. PICK dl \in DeadlockSet :
          /\ Carries(text, S, dl)
          /\ parseDeadlocks(text, s) =
               IF dl.found THEN <<[trx |-> dl.trx, victim |-> dl.victim]>> ELSE <<>>
    BY <2>4, <2>5, DeadlockTold
  <2> DEFINE report == parseDeadlocks(text, s)
  <2>7. CASE StartsAt(text, S) = 0
    BY <2>2, <2>6, <2>7 DEF Carries, S, text
  <2>8. CASE StartsAt(text, S) # 0
    <3>1. report = <<[trx |-> dl.trx, victim |-> dl.victim]>>
      BY <2>6, <2>8, Zenon DEF Carries
    <3>2. report[1].trx = dl.trx /\ report[1].victim = dl.victim
      BY <3>1
    <3>3. \A k \in {1, 2}, f \in DOMAIN KindsOf :
            report[1].trx[k][f] = Latest(LinesAt(text, Under(text, S, k), KindsOf[f]))
      <4>1. {1, 2} = 1..2 /\ DOMAIN KindsOf = Fields
        BY Kinds
      <4>2. \A k \in 1..2, f \in Fields :
              dl.trx[k][f] = Latest(LinesAt(text, Under(text, S, k), KindsOf[f]))
        BY <2>6, <2>8, Zenon DEF Carries
      <4> HIDE DEF report
      <4>3. QED
        BY <3>2, <4>1, <4>2
    <3>4. report[1].victim = VictimAt(text, RolledAt(text, S))
      BY <2>6, <2>8, <3>2, Zenon DEF Carries
    <3> HIDE DEF report
    <3>5. QED
      BY <2>2, <2>8, <3>3, <3>4, Zenon DEF VictimAt, S, text, report
  <2>9. QED
    BY <2>7, <2>8
<1>2. QED
  BY <1>1, Zenon DEF DeadlockExact

\* The deadlock that innodb reports is the last one of the section, with each
\* field from the last line of its kind under its own transaction's heading and
\* the victim named behind its start, whatever the order of the lines: nothing of
\* an earlier deadlock or of the other transaction is left in it (parseDeadlocks).
THEOREM DeadlocksAreExact == Spec => []DeadlockExact
BY CommandsInvariant, DeadlocksTrue, PTL
=============================================================================
