------------------------------ MODULE MCServe ------------------------------
(***************************************************************************)
(* Serve for TLC: two targets that share their label.                      *)
(***************************************************************************)
EXTENDS Serve

TwoNamesakes == <<"localhost:3306", "localhost:3306">>
=============================================================================
