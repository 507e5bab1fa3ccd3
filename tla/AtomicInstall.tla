--------------------------- MODULE AtomicInstall ---------------------------
(***************************************************************************)
(* What applying one plan item promises about the drive it was planned for *)
(* (README.md "Safety model", docs/THREAT_MODEL.md): the target name shows *)
(* nothing, or the whole verified image, or a file somebody else put       *)
(* there; the image appears in one step; and the ISO it replaces is not    *)
(* moved before the image is on the drive for good.                        *)
(*                                                                         *)
(* Downloads, `.partial` files, devices, retries and crashes are absent    *)
(* here: module Install has them and is shown to implement this module.    *)
(***************************************************************************)
VARIABLES
  target,   \* what the target name shows: "nothing", "image" or "foreign"
  settled,  \* TRUE when the image's directory entry would survive power loss
  old       \* the ISO the item updates: "kept" or "trashed"

avars == <<target, settled, old>>

Init == target = "nothing" /\ settled = FALSE /\ old = "kept"

\* The image appears under its final name, whole.
Publish ==
  /\ target = "nothing"
  /\ target' = "image" /\ settled' = FALSE
  /\ UNCHANGED old

\* The new directory entry reaches the medium.
Settle ==
  /\ target = "image" /\ ~settled
  /\ settled' = TRUE
  /\ UNCHANGED <<target, old>>

\* Power is lost before that: the name shows nothing again.
Forget ==
  /\ target = "image" /\ ~settled
  /\ target' = "nothing"
  /\ UNCHANGED <<settled, old>>

\* The replaced ISO moves to the trash.
Retire ==
  /\ target = "image" /\ settled
  /\ old = "kept" /\ old' = "trashed"
  /\ UNCHANGED <<target, settled>>

\* Another program creates a file of the target's name.
Occupy ==
  /\ target = "nothing"
  /\ target' = "foreign"
  /\ UNCHANGED <<settled, old>>

Next == Publish \/ Settle \/ Forget \/ Retire \/ Occupy

Spec == Init /\ [][Next]_avars
=============================================================================
