-------------------------------- MODULE Buddy --------------------------------
(***************************************************************************)
(* The buddy allocator of lib/src/buddy.c under arbitrary sequences of     *)
(* buddy_alloc and buddy_free calls of one caller (gpgpu_ctx has no lock   *)
(* and is used by one thread).                                             *)
(***************************************************************************)
EXTENDS BuddyOps

CONSTANT Sizes        \* request sizes, in bytes

ASSUME SizesAssumption == Sizes \subseteq Nat

VARIABLES
    free_list,        \* alloc->free_list: order |-> offsets, head first
    page_order,       \* alloc->page_order: page |-> order
    live              \* offsets callers hold |-> size they asked for (history)

vars == <<free_list, page_order, live>>

Init ==
    /\ free_list = InitLists
    /\ page_order = InitOrders
    /\ live = [o \in {} |-> 0]

buddy_alloc(size) ==
    LET order == FitOrder(size)
        off   == AllocOffset(free_list, order)
    IN  /\ CanAlloc(free_list, size)
        /\ free_list' = AllocLists(free_list, order)
        /\ page_order' = AllocOrders(free_list, page_order, order)
        /\ live' = [o \in DOMAIN live \cup {off} |->
                        IF o = off THEN size ELSE live[o]]

\* Both early returns of (uint64_t)-1 leave the allocator alone.
buddy_alloc_fails(size) ==
    ~CanAlloc(free_list, size) /\ UNCHANGED vars

\* A caller frees only what it holds.
buddy_free(off) ==
    LET order == page_order[off]
    IN  /\ free_list' = FreeLists(free_list, off, order)
        /\ page_order' = FreeOrders(free_list, page_order, off, order)
        /\ live' = [o \in DOMAIN live \ {off} |-> live[o]]

Next ==
    \/ \E size \in Sizes : buddy_alloc(size)
    \/ \E size \in Sizes : buddy_alloc_fails(size)
    \/ \E off \in DOMAIN live : buddy_free(off)

Spec == Init /\ [][Next]_vars
-----------------------------------------------------------------------------
\* Offsets in the lists are pages of the VRAM, and page_order holds orders
\* that have a list: buddy_free indexes free_list with them.
TypeOK ==
    /\ free_list \in [Orders -> Seq(Frames)]
    /\ page_order \in [Frames -> Orders]
    /\ DOMAIN live \subseteq Frames
    /\ live \in [DOMAIN live -> Sizes]

\* The blocks the allocator and its callers hold, as <<offset, order>>.
FreeBlocks == {b \in Frames \X Orders : b[1] \in Range(free_list[b[2]])}
LiveBlocks == {<<o, page_order[o]>> : o \in DOMAIN live}

\* No page is in two blocks, and no block is twice in its list: what
\* buddy_alloc returns, and what its splits and buddy_free's merges link,
\* overlaps nothing that a caller or another list node occupies.
BlocksDisjoint ==
    /\ \A k \in Orders : IsInjective(free_list[k])
    /\ FreeBlocks \cap LiveBlocks = {}
    /\ \A b, c \in FreeBlocks \cup LiveBlocks :
           b # c => Span(b[1], b[2]) \cap Span(c[1], c[2]) = {}

\* Every page is in a free block or in a caller's: splits and merges lose
\* nothing, so what is freed can be allocated again.
NoPageLost ==
    \A p \in Frames :
        \E b \in FreeBlocks \cup LiveBlocks : p \in Span(b[1], b[2])

\* buddy_free reads the order of the block from page_order: for as long as
\* the caller holds it, no split or merge elsewhere overwrites that entry.
OrderKept ==
    \A o \in DOMAIN live : page_order[o] = FitOrder(live[o])

\* Merging is complete: the two halves of a pair are never both free.
Coalesced ==
    \A k \in Orders : \A o \in Range(free_list[k]) :
        BuddyOf(o, k) \notin Range(free_list[k])

\* The recursion of buddy_free ends at an order that has a list, whatever
\* block is freed: free_list[BUDDY_MAX_ORDER] is never read.
MergeBounded ==
    \A o \in DOMAIN live : Stops(free_list, o, page_order[o]) # {}

\* buddy_alloc gives up only when no aligned run of free pages is long
\* enough.
AllocComplete ==
    \A size \in Sizes :
        Fitting(size) # {} /\ ~CanAlloc(free_list, size) =>
            \A o \in Frames :
                LET run == Span(o, FitOrder(size))
                IN  o % Pages[FitOrder(size)] = 0 /\ run \subseteq Frames =>
                        \E b \in LiveBlocks : run \cap Span(b[1], b[2]) # {}

\* When everything has been freed, the lists hold what buddy_init mounted.
AllFreedIsInitial ==
    DOMAIN live = {} =>
        \A k \in Orders : Range(free_list[k]) = Range(InitLists[k])

\* The promise the allocator keeps, in bytes.
Abstract == INSTANCE Vram WITH
    VramSize <- VramPages * PAGE_SIZE,
    live <- [b \in {o * PAGE_SIZE : o \in DOMAIN live} |-> live[b \div PAGE_SIZE]]

\* Every call of the buddy allocator is a Malloc, a Free or a refusal of the
\* abstract allocator: ranges are in bounds, long enough and never shared.
ImplementsVram == Abstract!Spec
=============================================================================
