-------------------------------- MODULE Vram --------------------------------
(***************************************************************************)
(* What a VRAM allocator promises its callers, whatever its inside is: a   *)
(* successful allocation returns a range of the VRAM that is at least as   *)
(* long as the request and overlaps no range a caller still holds, and a   *)
(* free gives back exactly the range it names.  The buddy allocator and    *)
(* the gpuMalloc / gpuFree front end are shown to implement this module.   *)
(***************************************************************************)
EXTENDS Integers

CONSTANTS
    VramSize,   \* bytes of VRAM that the allocator hands out
    Sizes       \* request sizes, in bytes

VARIABLE
    live        \* offset of each range a caller holds |-> size it asked for

\* Two ranges of bytes share no byte.  A request of 0 bytes is still given an
\* address of its own: it counts as one byte.
Extent(off, size) == off .. (off + (IF size = 0 THEN 1 ELSE size) - 1)

Fresh(off, size) ==
    /\ Extent(off, size) \subseteq 0 .. (VramSize - 1)
    /\ \A o \in DOMAIN live : Extent(o, live[o]) \cap Extent(off, size) = {}

Init == live = [o \in {} |-> 0]

Malloc(size) ==
    \E off \in 0 .. (VramSize - 1) :
        /\ live' = [o \in DOMAIN live \cup {off} |->
                        IF o = off THEN size ELSE live[o]]
        /\ Fresh(off, size)

Free(off) == live' = [o \in DOMAIN live \ {off} |-> live[o]]

Next == \/ \E size \in Sizes : Malloc(size)
        \/ \E off \in DOMAIN live : Free(off)

Spec == Init /\ [][Next]_live
=============================================================================
