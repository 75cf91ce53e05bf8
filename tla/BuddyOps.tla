------------------------------ MODULE BuddyOps ------------------------------
(***************************************************************************)
(* The functions of lib/src/buddy.c as operators on the allocator's state: *)
(* fl is free_list (per order, the offsets of its free blocks from the     *)
(* head on) and po is page_order.  Offsets count pages: every offset that  *)
(* buddy.c computes is a multiple of PAGE_SIZE.                            *)
(*                                                                         *)
(* The loops and the recursion of the C code are written in closed form;   *)
(* BuddyLinks states them step by step on the linked nodes, and is shown   *)
(* to implement Buddy.                                                     *)
(***************************************************************************)
EXTENDS Integers, Sequences, FiniteSetsExt, SequencesExt

CONSTANTS
    BUDDY_MAX_ORDER,  \* number of free lists
    Pages,            \* Pages[k] = 1 << k, the pages of a block of order k
    PAGE_SIZE,        \* bytes of a page
    VramPages         \* pages of VRAM given to buddy_init

Orders == 0 .. (BUDDY_MAX_ORDER - 1)
Frames == 0 .. (VramPages - 1)

\* Pages is the table of powers of two.  The VRAM is not larger than
\* page_order, which has 1 << (BUDDY_MAX_ORDER - 1) entries.
ASSUME BuddyConstants ==
    /\ BUDDY_MAX_ORDER \in Nat \ {0}
    /\ Pages \in [0 .. BUDDY_MAX_ORDER -> Nat \ {0}]
    /\ Pages[0] = 1
    /\ \A k \in Orders : Pages[k + 1] = 2 * Pages[k]
    /\ PAGE_SIZE \in Nat \ {0}
    /\ VramPages \in 1 .. Pages[BUDDY_MAX_ORDER - 1]
-----------------------------------------------------------------------------
\* offset ^ (1 << k): the other half of the pair that offset belongs to.
BuddyOf(off, k) ==
    IF (off \div Pages[k]) % 2 = 0 THEN off + Pages[k] ELSE off - Pages[k]

\* The block of order k that page off lies in.
Base(off, k) == off - (off % Pages[k])

\* The pages of the block of order k at off.
Span(off, k) == off .. (off + Pages[k] - 1)

\* Fault: an exact fit is not mounted.
Mount_Strict(n) ==
    [k \in Orders |->
        IF (n % Pages[k + 1]) > Pages[k] THEN << n - (n % Pages[k + 1]) >>
                                         ELSE << >>]

\* The mounting loop of buddy_init: from the largest order down, one block
\* wherever what remains is large enough.
Mount(n) ==
    [k \in Orders |->
        IF (n % Pages[k + 1]) >= Pages[k] THEN << n - (n % Pages[k + 1]) >>
                                          ELSE << >>]

InitLists == Mount(VramPages)

InitOrders == [p \in Frames |-> 0]
-----------------------------------------------------------------------------
\* The orders whose blocks hold size bytes; the loop takes the least.
Fitting(size) == {k \in Orders : Pages[k] * PAGE_SIZE >= size}
FitOrder(size) == Min(Fitting(size))

\* The lists a block of the given order can be cut from; again the least.
Sources(fl, order) == {i \in Orders : i >= order /\ fl[i] # << >>}

CanAlloc(fl, size) ==
    Fitting(size) # {} /\ Sources(fl, FitOrder(size)) # {}

AllocOffset(fl, order) == Head(fl[Min(Sources(fl, order))])

\* Fault: the right half is taken one order too far.
AllocLists_FarHalf(fl, order) ==
    LET i   == Min(Sources(fl, order))
        off == Head(fl[i])
    IN  [k \in Orders |->
            IF k = i THEN Tail(fl[k])
            ELSE IF k >= order /\ k < i THEN Cons(off + Pages[k + 1], fl[k])
            ELSE fl[k]]

\* Unlink the head of the source list; every right half goes to its list.
AllocLists(fl, order) ==
    LET i   == Min(Sources(fl, order))
        off == Head(fl[i])
    IN  [k \in Orders |->
            IF k = i THEN Tail(fl[k])
            ELSE IF k >= order /\ k < i THEN Cons(off + Pages[k], fl[k])
            ELSE fl[k]]

\* Fault: the order is recorded one too large.
AllocOrders_OneMore(fl, po, order) ==
    [po EXCEPT ![AllocOffset(fl, order)] = order + 1]

AllocOrders(fl, po, order) == [po EXCEPT ![AllocOffset(fl, order)] = order]
-----------------------------------------------------------------------------
\* buddy_free recurses while the buddy of the block it holds is in the list
\* of the same order, and stops at the first order where it is not.
Stops(fl, off, order) ==
    {k \in Orders : k >= order /\ BuddyOf(Base(off, k), k) \notin Range(fl[k])}

\* Fault: the block is linked without looking for its buddy.
FreeLists_NoMerge(fl, off, order) == [fl EXCEPT ![order] = Cons(off, @)]

FreeLists(fl, off, order) ==
    LET m == Min(Stops(fl, off, order))
    IN  [k \in Orders |->
            IF k = m THEN Cons(Base(off, k), fl[k])
            ELSE IF k >= order /\ k < m
                 THEN RemoveFirst(fl[k], BuddyOf(Base(off, k), k))
            ELSE fl[k]]

\* Each merge writes the new order at the merged block's first page.
FreeOrders(fl, po, off, order) ==
    LET m == Min(Stops(fl, off, order))
        merged(p) == {k \in (order + 1) .. m : Base(off, k) = p}
    IN  [p \in DOMAIN po |->
            IF merged(p) # {} THEN Max(merged(p)) ELSE po[p]]
=============================================================================
