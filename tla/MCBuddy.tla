------------------------------- MODULE MCBuddy -------------------------------
(***************************************************************************)
(* Buddy for TLC.                                                          *)
(***************************************************************************)
EXTENDS Buddy

MCPages == [k \in 0 .. BUDDY_MAX_ORDER |-> 2 ^ k]
=============================================================================
