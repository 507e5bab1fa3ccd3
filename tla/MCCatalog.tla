----------------------------- MODULE MCCatalog -----------------------------
(***************************************************************************)
(* Two interchangeable instances of the program on one drive.              *)
(***************************************************************************)
EXTENDS Catalog, TLC

Symmetry == Permutations(Apps)
=============================================================================
