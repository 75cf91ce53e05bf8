------------------------------ MODULE Libgpgpu ------------------------------
(***************************************************************************)
(* The VRAM front end of lib/libgpgpu.c: gpuMalloc routes small requests   *)
(* to slab caches (lib/src/slab_cache.c), whose pages come from the buddy  *)
(* allocator, and larger ones to the buddy allocator itself; gpuFree finds *)
(* the way back from the marker in page_order alone.                       *)
(*                                                                         *)
(* Offsets of callers and slots count bytes, offsets of blocks and slab    *)
(* pages count pages.                                                      *)
(***************************************************************************)
EXTENDS BuddyOps

CONSTANTS
    ObjectSizes,   \* object_size of each slab cache, in the order of gpuInit
    Marker,        \* object size |-> PAGE_ORDER_SLAB_<size>
    Sizes,         \* request sizes, in bytes
    MaxLive,       \* bound: ranges a caller holds at the same time
    Closed         \* the context before gpuInit and after gpuDestroy

ASSUME LibgpgpuConstants ==
    /\ \A i \in DOMAIN ObjectSizes : ObjectSizes[i] \in 1 .. PAGE_SIZE
    /\ IsInjective(ObjectSizes) /\ IsInjective(Marker)
    /\ DOMAIN Marker = Range(ObjectSizes)
    /\ Range(Marker) \cap 0 .. BUDDY_MAX_ORDER = {}

VARIABLES
    ctx,           \* Closed, or the heap part of gpgpu_ctx
    live           \* offsets callers hold |-> size they asked for (history)

vars == <<ctx, live>>

Caches == Range(ObjectSizes)

\* Slots a page of the cache is cut into (integer division).
TotalSlots(c) == PAGE_SIZE \div c

\* The page a byte offset lies in: offset & ~(PAGE_SIZE - 1), in pages.
PageOf(offset) == offset \div PAGE_SIZE
-----------------------------------------------------------------------------
\* Fault: the page keeps the order buddy_alloc recorded, without a marker.
Grown_Unmarked(h, c) ==
    LET off   == AllocOffset(h.free_list, FitOrder(PAGE_SIZE))
        n     == TotalSlots(c)
        slots == [i \in 1 .. n |-> off * PAGE_SIZE + (n - i) * c]
    IN  [h EXCEPT
            !.free_list = AllocLists(@, FitOrder(PAGE_SIZE)),
            !.page_order = AllocOrders(h.free_list, @, FitOrder(PAGE_SIZE)),
            !.slab[c] = [free_list |-> slots \o @.free_list,
                         pages |-> Cons([page |-> off, free_count |-> n],
                                        @.pages)]]

\* slab_grow after a successful malloc of the page meta.  Slots are pushed
\* from the first on, so the last one ends up at the head.
Grown(h, c) ==
    LET off   == AllocOffset(h.free_list, FitOrder(PAGE_SIZE))
        n     == TotalSlots(c)
        slots == [i \in 1 .. n |-> off * PAGE_SIZE + (n - i) * c]
    IN  [h EXCEPT
            !.free_list = AllocLists(@, FitOrder(PAGE_SIZE)),
            !.page_order = [AllocOrders(h.free_list, @, FitOrder(PAGE_SIZE))
                               EXCEPT ![off] = Marker[c]],
            !.slab[c] = [free_list |-> slots \o @.free_list,
                         pages |-> Cons([page |-> off, free_count |-> n],
                                        @.pages)]]

\* buddy_free, on the heap.
BuddyFreed(h, off) ==
    [h EXCEPT
        !.free_list = FreeLists(@, off, h.page_order[off]),
        !.page_order = FreeOrders(h.free_list, @, off, h.page_order[off])]

\* buddy_alloc, on the heap.
BuddyAlloced(h, order) ==
    [h EXCEPT !.free_list = AllocLists(@, order),
              !.page_order = AllocOrders(h.free_list, @, order)]

\* slab_grow when malloc of the meta fails: the page goes back to the buddy.
GrowUndone(h) ==
    BuddyFreed(BuddyAlloced(h, FitOrder(PAGE_SIZE)),
               AllocOffset(h.free_list, FitOrder(PAGE_SIZE)))

\* Position of the meta of a page in the pages list of a cache.
MetaIndex(h, c, page) ==
    SelectInSeq(h.slab[c].pages, LAMBDA m : m.page = page)

\* Fault: the page is not charged.
Popped_Uncharged(h, c) == [h EXCEPT !.slab[c].free_list = Tail(@)]

\* slab_alloc once the free list is not empty: pop the head, charge its page.
Popped(h, c) ==
    LET j == MetaIndex(h, c, PageOf(Head(h.slab[c].free_list)))
    IN  [h EXCEPT !.slab[c].free_list = Tail(@),
                  !.slab[c].pages[j].free_count = @ - 1]

\* slab_free up to the shrink test: push the slot, credit its page.
Pushed(h, c, offset) ==
    LET j == MetaIndex(h, c, PageOf(offset))
    IN  [h EXCEPT !.slab[c].free_list = Cons(offset, @),
                  !.slab[c].pages[j].free_count = @ + 1]

\* Fault: the page's other slots stay in the free list.
Shrunk_KeepsSlots(h, c, page) ==
    BuddyFreed(
        [h EXCEPT !.slab[c].pages = RemoveAt(@, MetaIndex(h, c, page)),
                  !.page_order[page] = 0],
        page)

\* Fault: the page is not given back.
Shrunk_KeepsPage(h, c, page) ==
    [h EXCEPT
        !.slab[c].free_list = SelectSeq(@, LAMBDA s : PageOf(s) # page),
        !.slab[c].pages = RemoveAt(@, MetaIndex(h, c, page)),
        !.page_order[page] = 0]

\* The shrink of slab_free: strip the page's slots from the list, unlink its
\* meta, clear its page_order entry and give the page back.
Shrunk(h, c, page) ==
    BuddyFreed(
        [h EXCEPT
            !.slab[c].free_list = SelectSeq(@, LAMBDA s : PageOf(s) # page),
            !.slab[c].pages = RemoveAt(@, MetaIndex(h, c, page)),
            !.page_order[page] = 0],
        page)

\* Fault: an empty page is never given back.
SlabFreed_NoShrink(h, c, offset) == Pushed(h, c, offset)

SlabFreed(h, c, offset) ==
    LET page   == PageOf(offset)
        pushed == Pushed(h, c, offset)
        meta   == pushed.slab[c].pages[MetaIndex(h, c, page)]
    IN  IF meta.free_count = TotalSlots(c) /\ Len(h.slab[c].pages) > 1
        THEN Shrunk(pushed, c, page)
        ELSE pushed
-----------------------------------------------------------------------------
\* Fault: off by one, a request goes to a cache whose objects are too small.
route_slab_Short(size) ==
    LET fit == {c \in Caches : size <= c + 1}
    IN  IF fit = {} THEN {} ELSE {Min(fit)}

\* route_slab and get_slab: a cache, or none ({}).
route_slab(size) ==
    LET fit == {c \in Caches : size <= c}
    IN  IF fit = {} THEN {} ELSE {Min(fit)}

get_slab(marker) == {c \in Caches : Marker[c] = marker}

Init == ctx = Closed /\ live = [o \in {} |-> 0]

EmptyHeap ==
    [free_list |-> InitLists, page_order |-> InitOrders,
     slab |-> [c \in Caches |-> [free_list |-> << >>, pages |-> << >>]]]

CanGrow(h) == CanAlloc(h.free_list, PAGE_SIZE)

\* slab_cache_init of the first n caches, one after the other.
InitCaches(n) ==
    FoldLeft(Grown, EmptyHeap, SubSeq(ObjectSizes, 1, n))

gpuInit ==
    /\ ctx = Closed
    /\ \A n \in 1 .. Len(ObjectSizes) : CanGrow(InitCaches(n - 1))
    /\ ctx' = InitCaches(Len(ObjectSizes))
    /\ UNCHANGED live

\* open, mmap or a slab_cache_init fails (no page left, or no meta): gpuInit
\* unmaps and closes.
gpuInit_fails == ctx = Closed /\ UNCHANGED vars

gpuDestroy ==
    /\ ctx # Closed
    /\ ctx' = Closed
    /\ live' = [o \in {} |-> 0]

Grant(offset, size) ==
    live' = [o \in DOMAIN live \cup {offset} |->
                 IF o = offset THEN size ELSE live[o]]

\* gpuMalloc served from a cache, which grows when its list is empty.
gpuMalloc_slab(size) ==
    \E c \in route_slab(size) :
        LET h == IF ctx.slab[c].free_list = << >> THEN Grown(ctx, c) ELSE ctx
        IN  /\ ctx.slab[c].free_list = << >> => CanGrow(ctx)
            /\ ctx' = Popped(h, c)
            /\ Grant(Head(h.slab[c].free_list), size)

\* The cache must grow and cannot: no free page, or no memory for the meta.
gpuMalloc_slab_fails(size) ==
    \E c \in route_slab(size) :
        /\ ctx.slab[c].free_list = << >>
        /\ \/ ~CanGrow(ctx) /\ UNCHANGED ctx
           \/ CanGrow(ctx) /\ ctx' = GrowUndone(ctx)
        /\ UNCHANGED live

gpuMalloc_buddy(size) ==
    /\ route_slab(size) = {}
    /\ CanAlloc(ctx.free_list, size)
    /\ ctx' = BuddyAlloced(ctx, FitOrder(size))
    /\ Grant(AllocOffset(ctx.free_list, FitOrder(size)) * PAGE_SIZE, size)

gpuMalloc_buddy_fails(size) ==
    /\ route_slab(size) = {}
    /\ ~CanAlloc(ctx.free_list, size)
    /\ UNCHANGED vars

gpuMalloc(size) ==
    /\ ctx # Closed
    /\ Cardinality(DOMAIN live) < MaxLive
    /\ \/ gpuMalloc_slab(size)
       \/ gpuMalloc_slab_fails(size)
       \/ gpuMalloc_buddy(size)
       \/ gpuMalloc_buddy_fails(size)

\* A caller frees only what it holds.
gpuFree(offset) ==
    LET cache == get_slab(ctx.page_order[PageOf(offset)])
    IN  /\ ctx' = IF cache # {}
                  THEN SlabFreed(ctx, CHOOSE c \in cache : TRUE, offset)
                  ELSE BuddyFreed(ctx, PageOf(offset))
        /\ live' = [o \in DOMAIN live \ {offset} |-> live[o]]

Next ==
    \/ gpuInit
    \/ gpuInit_fails
    \/ gpuDestroy
    \/ \E size \in Sizes : gpuMalloc(size)
    \/ \E offset \in DOMAIN live : gpuFree(offset)

Spec == Init /\ [][Next]_vars
-----------------------------------------------------------------------------
Offsets == 0 .. (VramPages * PAGE_SIZE - 1)
Markers == Range(Marker)
Ready == ctx # Closed

\* Lists hold offsets of the VRAM, page_order an order or a marker, and the
\* free_count that slab_alloc and slab_free adjust stays within the page.
TypeOK ==
    /\ Ready =>
        /\ ctx.free_list \in [Orders -> Seq(Frames)]
        /\ ctx.page_order \in [Frames -> Orders \cup Markers]
        /\ \A c \in Caches :
               /\ ctx.slab[c].free_list \in Seq(Offsets)
               /\ ctx.slab[c].pages \in
                      Seq([page : Frames, free_count : 0 .. TotalSlots(c)])
    /\ live \in [DOMAIN live -> Sizes]
    /\ DOMAIN live \subseteq Offsets

\* The slots of a page, those in the cache's list and those callers hold.
SlotsOf(c, page) == {page * PAGE_SIZE + i * c : i \in 0 .. (TotalSlots(c) - 1)}
FreeSlots(c) == Range(ctx.slab[c].free_list)
PagesOf(c) == {m.page : m \in Range(ctx.slab[c].pages)}
HeldFrom(c) == {o \in DOMAIN live : route_slab(live[o]) = {c}}

\* "meta 一定能找到" (slab_cache.c:74): the page of every free slot, and of every
\* slot a caller may free, has exactly one meta in the cache it belongs to.
MetaFound ==
    Ready => \A c \in Caches :
        \A s \in FreeSlots(c) \cup HeldFrom(c) :
            Cardinality({j \in DOMAIN ctx.slab[c].pages :
                            ctx.slab[c].pages[j].page = PageOf(s)}) = 1

\* A cache accounts for every slot of every page: it is in the list or held
\* by a caller, never both or twice, and free_count says how many are free.
\* The shrink of slab_free rests on free_count alone.
SlotsAccounted ==
    Ready => \A c \in Caches :
        /\ IsInjective(ctx.slab[c].free_list)
        /\ FreeSlots(c) \cap HeldFrom(c) = {}
        /\ FreeSlots(c) \cup HeldFrom(c) =
               UNION {SlotsOf(c, p) : p \in PagesOf(c)}
        /\ \A m \in Range(ctx.slab[c].pages) :
               m.free_count = Cardinality(SlotsOf(c, m.page) \cap FreeSlots(c))

\* Every page is in exactly one free block, block of a caller, or slab page.
PagesAccounted ==
    LET owners(p) ==
            {<<"free", o, k>> : <<o, k>> \in
                {b \in Frames \X Orders : /\ b[1] \in Range(ctx.free_list[b[2]])
                                          /\ p \in b[1] .. b[1] + Pages[b[2]] - 1}}
            \cup {<<"live", o, 0>> : o \in
                {o \in DOMAIN live :
                    /\ route_slab(live[o]) = {}
                    /\ p \in PageOf(o) ..
                             PageOf(o) + Pages[FitOrder(live[o])] - 1}}
            \cup {<<"slab", c, 0>> : c \in {c \in Caches : p \in PagesOf(c)}}
    IN  Ready => \A p \in Frames : Cardinality(owners(p)) = 1

\* gpuFree takes every range back to the allocator it came from, and the buddy
\* allocator reads the order it was allocated with: page_order tells markers
\* and orders apart, and no other allocation disturbs the entry meanwhile.
RoutesBack ==
    \A o \in DOMAIN live :
        /\ get_slab(ctx.page_order[PageOf(o)]) = route_slab(live[o])
        /\ route_slab(live[o]) = {} =>
               ctx.page_order[PageOf(o)] = FitOrder(live[o])

\* Nothing a caller gave back stays idle where nobody else can have it: a slab
\* page without a caller's slot is the only page of its cache, and two halves
\* of a buddy block are never both free.  So a sequence of calls that frees
\* everything leaks nothing.
NothingLeaked ==
    Ready =>
        /\ \A c \in Caches :
               (\E m \in Range(ctx.slab[c].pages) : m.free_count = TotalSlots(c)) =>
                   Len(ctx.slab[c].pages) = 1
        /\ \A k \in Orders : \A o \in Range(ctx.free_list[k]) :
               BuddyOf(o, k) \notin Range(ctx.free_list[k])

Abstract == INSTANCE Vram WITH VramSize <- VramPages * PAGE_SIZE

\* gpuMalloc and gpuFree keep the promise of the abstract allocator: ranges
\* are in the VRAM, long enough, and never overlap a range that is held.
\* gpuDestroy ends the promise: it may drop every range at once.
ImplementsVram == Abstract!Init /\ [][Abstract!Next \/ gpuDestroy]_live
=============================================================================
