---------------------------- MODULE MCBuddyLinks ----------------------------
(***************************************************************************)
(* BuddyLinks for TLC.                                                     *)
(***************************************************************************)
EXTENDS BuddyLinks

MCPages == [k \in 0 .. BUDDY_MAX_ORDER |-> 2 ^ k]

\* The closed form of the mounting loop, for every VRAM size up to VramPages.
ASSUME MountsEverySize == \A n \in 1 .. VramPages : Chains(Mounted(n)) = Mount(n)
=============================================================================
