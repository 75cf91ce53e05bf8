----------------------------- MODULE MCLibgpgpu -----------------------------
(***************************************************************************)
(* Libgpgpu for TLC: two caches of 4 and 2 slots a page.                   *)
(***************************************************************************)
EXTENDS Libgpgpu

MCPages == [k \in 0 .. BUDDY_MAX_ORDER |-> 2 ^ k]
MCObjectSizes == <<1, 2>>
MCMarker == [c \in {1, 2} |-> 239 + c]
=============================================================================
