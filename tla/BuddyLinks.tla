----------------------------- MODULE BuddyLinks -----------------------------
(***************************************************************************)
(* lib/src/buddy.c pointer by pointer.  A free block is linked through a   *)
(* struct buddy_node stored in its own first page, in VRAM that callers    *)
(* wrote before and will write again; the loops, the walk along a list and *)
(* the recursion of buddy_free are the ones of the code.  A pointer is the *)
(* number of the page it points to.  A page that is in no list may hold    *)
(* anything, a caller's data or a link of old: it counts as Data, and a    *)
(* pointer read from it leads nowhere.                                     *)
(***************************************************************************)
EXTENDS BuddyOps

CONSTANT Sizes        \* request sizes, in bytes

VARIABLES
    heads,            \* alloc->free_list: order |-> first node
    node,             \* what each page holds where its buddy_node would be
    page_order,       \* alloc->page_order
    live              \* offsets callers hold |-> size they asked for (history)

vars == <<heads, node, page_order, live>>

NULL == -1

\* What a page holds that is in no list.
Data == [prev |-> -2, next |-> -2]

\* node->prev = NULL; node->next = free_list[k]; and the old head's prev.
Push(s, k, p) ==
    LET head == s.heads[k]
    IN  [s EXCEPT !.node = [q \in Frames |->
                               IF q = p THEN [prev |-> NULL, next |-> head]
                               ELSE IF q = head THEN [@[q] EXCEPT !.prev = p]
                               ELSE @[q]],
                  !.heads[k] = p]

\* left = free_list[k], taken off the list.
PopHead(s, k) ==
    LET next == s.node[s.heads[k]].next
    IN  [s EXCEPT !.heads[k] = next,
                  !.node = [q \in Frames |->
                               IF q = s.heads[k] THEN Data
                               ELSE IF q = next THEN [@[q] EXCEPT !.prev = NULL]
                               ELSE @[q]]]

\* Fault: only the neighbour in front is relinked.
Unlink_OneSide(s, k, t) ==
    LET n == s.node[t]
        f == [s EXCEPT !.node[t] = Data]
    IN  IF n.prev = NULL THEN [f EXCEPT !.heads[k] = n.next]
        ELSE [f EXCEPT !.node[n.prev].next = n.next]

\* temp is taken off the list it was found in.
Unlink(s, k, t) ==
    LET n == s.node[t]
        f == [s EXCEPT !.node[t] = Data]
        g == IF n.prev = NULL THEN [f EXCEPT !.heads[k] = n.next]
             ELSE [f EXCEPT !.node[n.prev].next = n.next]
    IN  IF n.next = NULL THEN g ELSE [g EXCEPT !.node[n.next].prev = n.prev]
-----------------------------------------------------------------------------
\* buddy_init: for (order = BUDDY_MAX_ORDER - 1; order >= 0; order--).
RECURSIVE MountLoop(_, _, _, _)
MountLoop(s, order, offset, remaining) ==
    IF order < 0 THEN s
    ELSE IF remaining >= Pages[order]
         THEN MountLoop(Push(s, order, offset), order - 1,
                        offset + Pages[order], remaining - Pages[order])
         ELSE MountLoop(s, order - 1, offset, remaining)

\* buddy_alloc: while (i > order), the right half goes to the list below.
RECURSIVE SplitLoop(_, _, _, _)
SplitLoop(s, left, i, order) ==
    IF i > order
    THEN SplitLoop(Push(s, i - 1, left + Pages[i - 1]), left, i - 1, order)
    ELSE s

\* Fault: the order is recorded one too large.
Recorded_OneMore(s, left, order) == [s EXCEPT !.page_order[left] = order + 1]

\* buddy_alloc: what buddy_free will read.
Recorded(s, left, order) == [s EXCEPT !.page_order[left] = order]

\* buddy_free: while (temp), the walk that looks for the buddy.
RECURSIVE Find(_, _, _)
Find(s, temp, buddy) ==
    IF temp = NULL \/ temp = buddy THEN temp ELSE Find(s, s.node[temp].next, buddy)

\* Fault: the recursion goes on from the right half.
FreeFrom_RightHalf(s, offset) ==
    LET order  == s.page_order[offset]
        buddy  == BuddyOf(offset, order)
        merged == IF offset < buddy THEN buddy ELSE offset
    IN  IF Find(s, s.heads[order], buddy) = NULL THEN Push(s, order, offset)
        ELSE Push([Unlink(s, order, buddy) EXCEPT !.page_order[merged] = order + 1],
                  order + 1, merged)

\* buddy_free, which calls itself on the merged block.
RECURSIVE FreeFrom(_, _)
FreeFrom(s, offset) ==
    LET order  == s.page_order[offset]
        buddy  == BuddyOf(offset, order)
        temp   == Find(s, s.heads[order], buddy)
        merged == IF offset < buddy THEN offset ELSE buddy
    IN  IF temp = NULL THEN Push(s, order, offset)
        ELSE FreeFrom([Unlink(s, order, temp) EXCEPT !.page_order[merged] = order + 1],
                      merged)
-----------------------------------------------------------------------------
State == [heads |-> heads, node |-> node, page_order |-> page_order]

Becomes(s) == heads' = s.heads /\ node' = s.node /\ page_order' = s.page_order

\* buddy_init of n pages.
Mounted(n) ==
    LET empty == [heads |-> [k \in Orders |-> NULL], node |-> [p \in Frames |-> Data],
                  page_order |-> InitOrders]
    IN  MountLoop(empty, BUDDY_MAX_ORDER - 1, 0, n)

Init ==
    LET s == Mounted(VramPages)
    IN  /\ heads = s.heads /\ node = s.node /\ page_order = s.page_order
        /\ live = [o \in {} |-> 0]

\* The lists that the search of buddy_alloc stops at.
NonEmpty(order) == {i \in Orders : i >= order /\ heads[i] # NULL}

Serves(size) == Fitting(size) # {} /\ NonEmpty(FitOrder(size)) # {}

buddy_alloc(size) ==
    /\ Serves(size)
    /\ LET order == FitOrder(size)
           i     == Min(NonEmpty(order))
           left  == heads[i]
       IN  /\ Becomes(Recorded(SplitLoop(PopHead(State, i), left, i, order),
                               left, order))
           /\ live' = [o \in DOMAIN live \cup {left} |->
                           IF o = left THEN size ELSE live[o]]

buddy_alloc_fails(size) == ~Serves(size) /\ UNCHANGED vars

\* A caller frees only what it holds.
buddy_free(off) ==
    /\ Becomes(FreeFrom(State, off))
    /\ live' = [o \in DOMAIN live \ {off} |-> live[o]]

Next ==
    \/ \E size \in Sizes : buddy_alloc(size)
    \/ \E size \in Sizes : buddy_alloc_fails(size)
    \/ \E off \in DOMAIN live : buddy_free(off)

Spec == Init /\ [][Next]_vars
-----------------------------------------------------------------------------
\* The nodes from t on, as far as fuel goes.
RECURSIVE Walk(_, _, _)
Walk(s, t, fuel) ==
    IF t \notin Frames \/ fuel = 0 THEN << >>
    ELSE Cons(t, Walk(s, s.node[t].next, fuel - 1))

\* The lists as sequences.
Chains(s) == [k \in Orders |-> Walk(s, s.heads[k], VramPages + 1)]

\* Every list can be walked and unlinked from anywhere: next leads from its head
\* over pages of the VRAM to NULL, and prev is next backwards, from the first
\* node's NULL on.  No push, split, merge leaves a link
\* that the walk of buddy_free would follow astray.
LinksMutual ==
    \A k \in Orders :
        LET l == Chains(State)[k]
        IN  /\ Len(l) <= VramPages
            /\ heads[k] \in Frames \cup {NULL}
            /\ \A i \in 1 .. Len(l) :
                   node[l[i]] = [prev |-> IF i = 1 THEN NULL ELSE l[i - 1],
                                 next |-> IF i = Len(l) THEN NULL ELSE l[i + 1]]

lists == INSTANCE Buddy WITH free_list <- Chains(State)

\* The linked lists behave as the sequences of Buddy: the pointer code of
\* buddy.c computes what its closed forms say, so that what is proved of Buddy
\* holds of it.
ImplementsBuddy == lists!Spec

\* The recursion of buddy_free ends at an order that has a list, also when the
\* whole VRAM is one block of the top order: free_list[BUDDY_MAX_ORDER] is
\* never read.
MergeBounded == lists!MergeBounded
=============================================================================
