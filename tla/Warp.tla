-------------------------------- MODULE Warp --------------------------------
(***************************************************************************)
(* A warp of the device as the kernels of kernels/ see it.  The device is  *)
(* not part of this repository; README.md:320-380 describes it: the lanes  *)
(* of a warp have a program counter and registers of their own, every      *)
(* cycle runs the active lanes whose counter is the smallest (min-PC       *)
(* scheduling, no reconvergence stack), and vshfl lets the running lanes   *)
(* read a register of another lane from a snapshot of the whole warp.      *)
(*                                                                         *)
(* A program counter is the number of a basic block, in address order:     *)
(* inside a block there is no branch, so that lanes that enter it together *)
(* stay together, and a waiting lane waits at the start of a block.        *)
(* Addresses and offsets count 4-byte words.                               *)
(***************************************************************************)
EXTENDS Integers, Sequences, FiniteSets, SequencesExt

CONSTANT
    Rounds             \* a warp has 2^Rounds lanes (5 in the code)

ASSUME WarpConstants == Rounds \in Nat \ {0}

VARIABLES
    args,              \* the launch: kernel, its arguments and the grid
    before,            \* the VRAM when the kernel was launched (history)
    mem,               \* the VRAM
    block,             \* block_id of the warp that runs
    pc,                \* lane |-> block of instructions it is at
    reg                \* lane |-> registers the kernel uses

WarpSize == 2 ^ Rounds
Lanes == 0 .. (WarpSize - 1)

\* What ebreak leaves: a number past the last block of every kernel.
Done == 3 * Rounds + 7

\* A value nobody computed: a register or a word that was never written.
Dirty == <<"dirty">>

Active == {l \in Lanes : pc[l] # Done}

\* current_mask: the active lanes at the smallest program counter.
Current == {l \in Active : \A k \in Active : pc[l] <= pc[k]}

\* flw and lw of a lane.
Load(a) == IF a \in DOMAIN mem THEN mem[a] ELSE Dirty

\* The VRAM m after the stores s, a set of <<address, value>>.
Stored(m, s) ==
    LET written == {w[1] : w \in s}
    IN  [a \in DOMAIN m |->
            IF a \in written THEN (CHOOSE w \in s : w[1] = a)[2] ELSE m[a]]

\* lane ^ mask for a power of two.
Partner(l, mask) == IF (l \div mask) % 2 = 0 THEN l + mask ELSE l - mask

\* The masks 1, 2, 4 ... of a butterfly.
Masks == [i \in 1 .. Rounds |-> 2 ^ (i - 1)]

\* VSHFL_XOR: the register r of every lane's partner.
Shuffled(r, mask) == [l \in Lanes |-> r[Partner(l, mask)]]

\* What a lane does in one block of instructions: where it goes, its
\* registers, and its stores.
Does(to, r, s) == [pc |-> to, reg |-> r, stores |-> s]
=============================================================================
