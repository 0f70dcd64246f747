------------------------- MODULE VecCollectorProofs -------------------------
(***************************************************************************)
(* Proofs about VecCollector, for any number of targets, any labels and    *)
(* every way of collecting.                                                *)
(***************************************************************************)
EXTENDS VecCollector, TLAPS

\* Between the Reset and the last row, the series set and the rows to come
\* make up the read; and what the last owner left is still whole.
Filling ==
  /\ pc # "value" => fresh = {}
  /\ pc = "query" => rows = {}
  /\ pc = "reset" => kind = "buffered" /\ ti \notin broken /\ rows = last[ti]
  /\ (kind # "kept" /\ pc \in {"set", "value"}) =>
       owner = ti /\ ti \notin broken /\ series[ti] \cup rows = last[ti]
  /\ (kind # "kept" /\ pc \in {"query", "reset"} /\ owner # 0 /\ owner \notin broken) =>
       (pc = "reset" /\ owner = ti) \/ series[owner] = last[owner]

IInv == TypeOK /\ Filling /\ NoStaleLabels /\ AllOrNothing

LEMMA InitInv == Init => IInv
<1> SUFFICES ASSUME Init PROVE IInv
  OBVIOUS
<1>1. TypeOK
  BY VecAssumption DEF Init, TypeOK, Targets
<1>2. Filling
  BY DEF Init, Filling
<1>3. NoStaleLabels /\ AllOrNothing
  BY DEF Init, NoStaleLabels, AllOrNothing
<1>4. QED
  BY <1>1, <1>2, <1>3 DEF IInv

LEMMA TargetFacts == 1 \in Targets /\ 0 \notin Targets
                     /\ \A t \in Targets : t \in Nat /\ t <= NumTargets
BY VecAssumption DEF Targets

\* Handing over to the next target.
LEMMA AdvanceType == ti \in Targets /\ Advance => ti' \in Targets /\ pc' = "query"
BY VecAssumption DEF Advance, Targets

LEMMA NextInv == IInv /\ [Next]_vars => IInv'
<1> SUFFICES ASSUME IInv, [Next]_vars PROVE IInv'
  OBVIOUS
<1> USE TargetFacts DEF IInv, TypeOK, Filling, NoStaleLabels, AllOrNothing, history
<1>0. Targets' = Targets
  BY DEF Targets
<1>1. CASE ReadFails
  BY <1>0, <1>1, AdvanceType DEF ReadFails
<1>2. ASSUME NEW found \in SUBSET Labels, ReadAll(found) PROVE IInv'
  <2>1. /\ pc = "query" /\ kind \in {"buffered", "kept"}
        /\ rows' = found /\ broken' = broken \ {ti}
        /\ pc' = IF kind = "buffered" THEN "reset" ELSE "set"
        /\ UNCHANGED <<kind, ti, fresh, series, owner>>
    BY <1>2 DEF ReadAll, Carry
  <2>2. last'[ti] = found /\ \A t \in Targets : t # ti => last'[t] = last[t]
    BY <1>2 DEF ReadAll, Carry
  <2>3. TypeOK'
    BY <1>0, <1>2, <2>1 DEF ReadAll, Carry
  <2>4. (NoStaleLabels /\ AllOrNothing)'
    BY <1>0, <2>1, <2>2
  <2>5. owner # 0 => owner \in Targets
    BY VecAssumption DEF Targets
  <2>6. Filling'
    BY <2>1, <2>2, <2>5
  <2>7. QED
    BY <2>3, <2>4, <2>6
<1>3. CASE ResetBuffered
  <2>1. /\ pc = "reset" /\ pc' = "set" /\ owner' = ti /\ kind = "buffered"
        /\ series' = [t \in Targets |-> {}]
        /\ UNCHANGED <<kind, ti, rows, fresh, last, broken>>
    BY <1>3 DEF ResetBuffered, Reset
  <2>2. TypeOK'
    BY <1>0, <2>1, VecAssumption DEF Targets
  <2>3. Filling'
    BY <2>1
  <2>4. (NoStaleLabels /\ AllOrNothing)'
    BY <1>0, <2>1
  <2>5. QED
    BY <2>2, <2>3, <2>4
<1>4. ASSUME NEW found \in SUBSET Labels, ResetStreamed(found) PROVE IInv'
  <2>1. /\ pc = "query" /\ pc' = "set" /\ owner' = ti /\ kind = "streamed"
        /\ series' = [t \in Targets |-> {}] /\ rows' = found
        /\ broken' = broken \ {ti} /\ UNCHANGED <<kind, ti, fresh>>
    BY <1>4 DEF ResetStreamed, Reset, Carry
  <2>2. last' \in [Targets -> SUBSET Labels] /\ last'[ti] = found
    BY <1>4 DEF ResetStreamed, Carry
  <2>3. TypeOK'
    BY <1>0, <2>1, <2>2, VecAssumption DEF Targets
  <2>4. Filling'
    BY <2>1, <2>2
  <2>5. (NoStaleLabels /\ AllOrNothing)'
    BY <1>0, <2>1
  <2>6. QED
    BY <2>3, <2>4, <2>5
<1>5. ASSUME NEW l \in Labels, WithLabelValues(l) PROVE IInv'
  <2>1. /\ pc = "set" /\ pc' = "value" /\ l \in rows
        /\ series' = [series EXCEPT ![ti] = @ \cup {l}] /\ rows' = rows \ {l}
        /\ fresh' \subseteq Labels
        /\ UNCHANGED <<kind, ti, last, broken, owner>>
    BY <1>5 DEF WithLabelValues
  <2>2. series'[ti] = series[ti] \cup {l}
        /\ \A t \in Targets : t # ti => series'[t] = series[t]
    BY <2>1
  <2>3. TypeOK'
    BY <1>0, <2>1
  <2>4. Filling'
    BY <2>1, <2>2
  <2>5. (NoStaleLabels /\ AllOrNothing)'
    BY <1>0, <2>1, <2>2
  <2>6. QED
    BY <2>3, <2>4, <2>5
<1>6. CASE Set
  BY <1>0, <1>6 DEF Set
<1>7. CASE StreamBreaks
  BY <1>0, <1>7, AdvanceType DEF StreamBreaks
<1>8. CASE Return
  BY <1>0, <1>8, AdvanceType DEF Return
<1>9. CASE UNCHANGED vars
  BY <1>0, <1>9 DEF vars
<1>10. QED
  BY <1>1, <1>2, <1>3, <1>4, <1>5, <1>6, <1>7, <1>8, <1>9 DEF Next

THEOREM Invariance == Spec => []IInv
BY InitInv, NextInv, PTL DEF Spec

\* Typing of a family and its collector: nothing but read labels is ever set.
THEOREM TypeCorrect == Spec => []TypeOK
<1>1. IInv => TypeOK
  BY DEF IInv
<1>2. QED
  BY <1>1, Invariance, PTL

\* No scrape sees a stale label in a family that is reset.
THEOREM LabelsAreFresh == Spec => []NoStaleLabels
<1>1. IInv => NoStaleLabels
  BY DEF IInv
<1>2. QED
  BY <1>1, Invariance, PTL

\* Between collections a target shows one whole read, or nothing, or what a
\* broken stream left.
THEOREM ReadsAreWhole == Spec => []AllOrNothing
<1>1. IInv => AllOrNothing
  BY DEF IInv
<1>2. QED
  BY <1>1, Invariance, PTL

\* The target collected last is complete until the next Reset.
THEOREM LatestIsComplete == Spec => []LatestComplete
<1>1. IInv => LatestComplete
  BY DEF IInv, Filling, LatestComplete
<1>2. QED
  BY <1>1, Invariance, PTL
=============================================================================
