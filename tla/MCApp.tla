------------------------------- MODULE MCApp -------------------------------
(***************************************************************************)
(* Two drives, one of them with two ISOs.                                  *)
(***************************************************************************)
EXTENDS App

CONSTANTS d1, d2, p1, p2, q1

SomeIsos == [d \in {d1, d2} |-> IF d = d1 THEN {p1, p2} ELSE {q1}]
=============================================================================
