----------------------------- MODULE MCRegistry -----------------------------
(***************************************************************************)
(* The first release replaces a bundled provider and adds another; the     *)
(* second withdraws one and has an invalid one, which the third mends.      *)
(***************************************************************************)
EXTENDS Registry

MCReleases ==
  <<[index |-> <<"p", "q">>, revision |-> [p |-> 1, q |-> 1, u |-> 0]],
    [index |-> <<"q">>, revision |-> [p |-> 0, q |-> Broken, u |-> 0]],
    [index |-> <<"q">>, revision |-> [p |-> 0, q |-> 2, u |-> 0]]>>
=============================================================================
