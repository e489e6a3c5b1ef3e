--------------------------- MODULE MCBottomPanel ---------------------------
(***************************************************************************)
(* Instances of BottomPanel for TLC.                                       *)
(***************************************************************************)
EXTENDS BottomPanel, TLC
====
