-------------------------- MODULE PingRetryProofs --------------------------
(***************************************************************************)
(* Proofs about PingRetry, for every number of retries.                    *)
(***************************************************************************)
EXTENDS PingRetry, FiniteSetTheorems, FunctionTheorems, TLAPS

\* Where the call stands decides how many pings it has begun and what it can
\* have seen.
Progress ==
  /\ waited + 1 = backoff
  /\ pc = "idle" => result = "none"
  /\ pc \in {"check", "call"} => /\ pings = attempt
                                 /\ lastErr # "nil" /\ result = "none"
  /\ pc \in {"ping", "backoff"} => /\ pings = attempt + 1
                                   /\ lastErr # "nil" /\ result = "none"
  /\ pc = "backoff" => attempt < MaxRetries

\* The check before a ping is what bounds the late ones: past it with an
\* uncancelled context, none has happened yet.
Lateness ==
  /\ ~cancelled => late = 0
  /\ pc = "call" => late = 0
  /\ late <= 1

IInv == TypeOK /\ Progress /\ Lateness /\ HonestVerdict

\* The first call of the poll loop starts from a state in IInv.
LEMMA InitInv == Init => IInv
<1> SUFFICES ASSUME Init PROVE IInv
  OBVIOUS
<1>1. attempt \in 0..MaxRetries /\ pings \in 0..(MaxRetries + 1)
  BY MaxRetriesAssumption DEF Init
<1>2. Progress /\ Lateness /\ HonestVerdict
  BY DEF Init, Progress, Lateness, HonestVerdict
<1>3. cancelled \in BOOLEAN
  BY DEF Init
<1>4. TypeOK
  BY <1>1, <1>3 DEF Init, TypeOK, PingOutcomes
<1>5. QED
  BY <1>2, <1>4 DEF IInv

\* Every step of the call, and the cancellation, preserves IInv.
LEMMA NextInv == IInv /\ [Next]_vars => IInv'
<1> SUFFICES ASSUME IInv, [Next]_vars PROVE IInv'
  OBVIOUS
<1> USE MaxRetriesAssumption
<1> USE DEF IInv, TypeOK, Progress, Lateness, HonestVerdict, PingOutcomes
<1>1. CASE Call
  BY <1>1 DEF Call
<1>2. CASE CheckCtx
  BY <1>2 DEF CheckCtx, Return
<1>3. CASE BeginPing
  BY <1>3 DEF BeginPing
<1>4. CASE BackoffElapsed
  BY <1>4 DEF BackoffElapsed, NextBackoff
<1>5. CASE BackoffCancelled
  BY <1>5 DEF BackoffCancelled, Return
<1>6. ASSUME NEW o \in PingOutcomes, PingReturns(o) PROVE IInv'
  BY <1>6 DEF PingReturns, Answers, Return, MayRetry
<1>7. CASE Cancel
  BY <1>7 DEF Cancel, call
<1>8. CASE UNCHANGED vars
  BY <1>8 DEF vars, call
<1>9. QED
  BY <1>1, <1>2, <1>3, <1>4, <1>5, <1>6, <1>7, <1>8 DEF Next, Step

THEOREM Invariance == Spec => []IInv
BY InitInv, NextInv, PTL DEF Spec

\* TypeOK, for every number of retries.
THEOREM TypeCorrect == Spec => []TypeOK
<1>1. IInv => TypeOK
  BY DEF IInv
<1>2. QED
  BY <1>1, Invariance, PTL

\* The value PingWithRetry returns says what its pings saw.
THEOREM VerdictIsHonest == Spec => []HonestVerdict
<1>1. IInv => HonestVerdict
  BY DEF IInv
<1>2. QED
  BY <1>1, Invariance, PTL

\* At most one ping is begun after the context is cancelled, over all calls.
THEOREM OneLatePing == Spec => []AtMostOneLatePing
<1>1. IInv => AtMostOneLatePing
  BY DEF IInv, Lateness, AtMostOneLatePing
<1>2. QED
  BY <1>1, Invariance, PTL
-----------------------------------------------------------------------------
(***************************************************************************)
(* The backoff.  That 2^n doubles is read off the subsets of 1..n: those   *)
(* of 1..n+1 are the old ones, and the old ones with n+1 added.            *)
(***************************************************************************)
LEMMA DisjointTwins ==
  ASSUME NEW S, NEW T, IsFiniteSet(S), IsFiniteSet(T),
         S \cap T = {}, Cardinality(T) = Cardinality(S)
  PROVE  Cardinality(S \cup T) = 2 * Cardinality(S) /\ Cardinality(S) \in Nat
<1>1. Cardinality(S) \in Nat /\ Cardinality({}) = 0
  BY FS_CardinalityType, FS_EmptySet
<1>2. Cardinality(S \cup T) = Cardinality(S) + Cardinality(T) - Cardinality(S \cap T)
  BY FS_Union
<1>3. Cardinality(S \cap T) = 0
  BY <1>1, Zenon
<1>4. QED
  BY <1>1, <1>2, <1>3

LEMMA PowerDoubles ==
  ASSUME NEW n \in Nat
  PROVE  2^(n+1) = 2 * 2^n /\ 2^n \in Nat
<1> DEFINE Old == SUBSET (1..n)
           New == {s \cup {n+1} : s \in Old}
           Extend == [s \in Old |-> s \cup {n+1}]
<1>1. /\ IsFiniteSet(1..n) /\ Cardinality(1..n) = n
      /\ IsFiniteSet(1..(n+1)) /\ Cardinality(1..(n+1)) = n + 1
  BY FS_Interval
<1>2. /\ IsFiniteSet(Old) /\ Cardinality(Old) = 2^n
      /\ Cardinality(SUBSET (1..(n+1))) = 2^(n+1)
  BY <1>1, FS_SUBSET
<1>3. IsFiniteSet(New) /\ Cardinality(New) = Cardinality(Old)
  <2>1. Extend \in [Old -> New] /\ \A t \in New : \E s \in Old : Extend[s] = t
    OBVIOUS
  <2>2. ASSUME NEW s \in Old, NEW t \in Old, Extend[s] = Extend[t] PROVE s = t
    <3>1. s = (s \cup {n+1}) \ {n+1} /\ t = (t \cup {n+1}) \ {n+1}
      OBVIOUS
    <3>2. QED
      BY <2>2, <3>1
  <2>3. Extend \in Bijection(Old, New)
    <3> HIDE DEF Extend, Old, New
    <3>1. QED
      BY <2>1, <2>2, Fun_IsBij
  <2>4. QED
    BY <1>2, <2>3, FS_Bijection DEF ExistsBijection
<1>4. SUBSET (1..(n+1)) = Old \cup New
  <2>1. ASSUME NEW s \in SUBSET (1..(n+1)) PROVE s \in Old \cup New
    <3>1. CASE n+1 \in s
      <4>1. s \ {n+1} \in Old /\ s = (s \ {n+1}) \cup {n+1}
        BY <3>1
      <4>2. QED
        BY <4>1
    <3>2. QED
      BY <3>1
  <2>2. 1..n \cup {n+1} \subseteq 1..(n+1)
    OBVIOUS
  <2>3. \A s \in Old : s \in SUBSET (1..(n+1)) /\ s \cup {n+1} \in SUBSET (1..(n+1))
    BY <2>2
  <2>4. SUBSET (1..(n+1)) \subseteq Old \cup New
    BY <2>1
  <2>5. ASSUME NEW s \in Old \cup New PROVE s \in SUBSET (1..(n+1))
    <3>1. CASE s \in Old
      BY <2>3, <3>1
    <3>2. CASE s \in New
      <4>1. PICK r \in Old : s = r \cup {n+1}
        BY <3>2
      <4>2. QED
        BY <2>3, <4>1
    <3>3. QED
      BY <3>1, <3>2
  <2>6. QED
    BY <2>4, <2>5, Zenon
<1>5. Old \cap New = {}
  OBVIOUS
<1>6. Cardinality(Old \cup New) = 2 * Cardinality(Old) /\ Cardinality(Old) \in Nat
  BY <1>2, <1>3, <1>5, DisjointTwins
<1>7. QED
  BY <1>2, <1>4, <1>6

LEMMA DoublesStep == IInv /\ BackoffDoubles /\ [Next]_vars => BackoffDoubles'
<1> SUFFICES ASSUME IInv, BackoffDoubles, [Next]_vars PROVE BackoffDoubles'
  OBVIOUS
<1> USE DEF BackoffDoubles
<1>1. CASE Call
  <2>1. 2^0 = 1
    OBVIOUS
  <2>2. QED
    BY <1>1, <2>1 DEF Call
<1>2. CASE BackoffElapsed
  <2>1. attempt \in Nat /\ backoff \in Nat /\ waited \in Nat
    BY MaxRetriesAssumption DEF IInv, TypeOK
  <2>2. /\ pc = "backoff" /\ attempt' = attempt + 1
        /\ backoff' = 2 * backoff /\ waited' = waited + backoff
    BY <1>2 DEF BackoffElapsed, NextBackoff
  <2>3. backoff = 2^attempt /\ 2^(attempt + 1) = 2 * 2^attempt
    BY <2>1, <2>2, PowerDoubles
  <2>4. QED
    BY <2>1, <2>2, <2>3
<1>3. ASSUME UNCHANGED <<attempt, backoff, waited>>, pc # "idle" \/ pc' = pc
      PROVE  BackoffDoubles'
  BY <1>3
<1>4. ASSUME \/ CheckCtx \/ BeginPing \/ BackoffCancelled
             \/ \E o \in PingOutcomes : PingReturns(o)
             \/ Cancel \/ UNCHANGED vars
      PROVE  UNCHANGED <<attempt, backoff, waited>> /\ (pc # "idle" \/ pc' = pc)
  BY <1>4 DEF CheckCtx, BeginPing, BackoffCancelled, PingReturns, Cancel, vars, call
<1>5. QED
  BY <1>1, <1>2, <1>3, <1>4 DEF Next, Step

\* PingWithRetry waits 1 + 2 + ... + 2^(n-2) units before its ping number n, for
\* every number of retries.
THEOREM RetriesBackOff == Spec => []BackoffDoubles
<1>1. Init => BackoffDoubles
  BY DEF Init, BackoffDoubles
<1>2. QED
  BY <1>1, DoublesStep, Invariance, PTL DEF Spec
=============================================================================
