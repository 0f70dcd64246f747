------------------------------ MODULE MCEngine ------------------------------
(***************************************************************************)
(* Instances of Engine for TLC: the labels of one, two and three targets.  *)
(***************************************************************************)
EXTENDS Engine

\* instanceLabel gives every DSN without tcp(...) the label "localhost:3306".
OneTarget    == <<"localhost:3306">>
ThreeTargets == <<"localhost:3306", "db2:3306", "localhost:3306">>
=============================================================================
