----------------------------- MODULE MCDownload -----------------------------
(***************************************************************************)
(* Three releases of different sizes for TLC: the planned r1, a longer and *)
(* a shorter one.                                                          *)
(***************************************************************************)
EXTENDS Download, TLC

CONSTANTS r1, r2, r3

\* In blocks.
ReleaseSizes == r1 :> 2 @@ r2 :> 3 @@ r3 :> 1
=============================================================================
