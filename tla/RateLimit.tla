----------------------------- MODULE RateLimit -----------------------------
(***************************************************************************)
(* What a cooldown promises to whoever receives the messages, and nothing  *)
(* about how it is kept: two messages of one key are at least MinGap units *)
(* of time apart.                                                          *)
(***************************************************************************)
EXTENDS Naturals

CONSTANTS
  Keys,     \* what messages are told apart by
  MinGap    \* the promised distance in time

VARIABLE age    \* time since the last message of a key; MinGap: as long or longer

Older(k) == IF age[k] < MinGap THEN age[k] + 1 ELSE MinGap

Init == age = [k \in Keys |-> MinGap]

Emit(k) == age[k] = MinGap /\ age' = [age EXCEPT ![k] = 0]

Tick == age' = [k \in Keys |-> Older(k)]

Next == Tick \/ \E k \in Keys : Emit(k)

Spec == Init /\ [][Next]_age
=============================================================================
