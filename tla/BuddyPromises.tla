--------------------------- MODULE BuddyPromises ---------------------------
(***************************************************************************)
(* What the buddy allocator of lib/src/buddy.c promises its callers,       *)
(* proved from the invariant of BuddyProofs: it refuses a request only     *)
(* when no aligned run of free pages is long enough, it ends where it      *)
(* began when everything is freed, and it implements Vram.                 *)
(***************************************************************************)
EXTENDS BuddyProofs

\* A page of an aligned block has the block's offset for its base.
LEMMA SpanBase ==
    ASSUME NEW o \in Nat, NEW k \in 0 .. BUDDY_MAX_ORDER, Base(o, k) = o,
           NEW q \in Span(o, k)
    PROVE  q \in Nat /\ Base(q, k) = o
<1> DEFINE p == Pages[k]
           a == o \div p
           r == q - o
<1>1. p \in Nat \ {0}
  BY PagesPositive
<1>2. q \in Nat /\ r \in Nat /\ r < p /\ q = o + r
  BY <1>1 DEF Span
<1>3. a \in Nat /\ o = a * p
  BY <1>1, BaseProps, DivMod
<1> HIDE DEF p, a, r
<1>4. (((a * p) + r) % p) = r
  BY <1>1, <1>2, <1>3, ModUnique
<1>5. (q % p) = r
  BY <1>2, <1>3, <1>4
<1>. QED  BY <1>2, <1>5 DEF Base, p

\* The base of a page is aligned, and its block holds both.
LEMMA BaseIsAligned ==
    ASSUME NEW q \in Nat, NEW k \in 0 .. BUDDY_MAX_ORDER
    PROVE  /\ Base(q, k) \in Nat /\ Base(Base(q, k), k) = Base(q, k)
           /\ q \in Span(Base(q, k), k) /\ Base(q, k) \in Span(Base(q, k), k)
<1>1. /\ Base(q, k) \in Nat /\ Base(q, k) <= q /\ q < Base(q, k) + Pages[k]
      /\ (Base(q, k) % Pages[k]) = 0 /\ Pages[k] \in Nat \ {0}
  BY BaseProps, PagesPositive
<1>. QED  BY <1>1, BaseAligned, InSpan

\* The buddy of a block is aligned as the block is, and lies in the block of
\* the next order.
LEMMA BuddyAligned ==
    ASSUME NEW q \in Nat, NEW k \in Orders
    PROVE  LET g == BuddyOf(Base(q, k), k)
           IN  /\ g \in Nat /\ Base(g, k) = g
               /\ g \in Span(Base(q, k + 1), k + 1)
               /\ Base(g, k + 1) = Base(q, k + 1)
<1> DEFINE p == Pages[k]
           b == Base(q, k)
           g == BuddyOf(b, k)
           a == q \div p
<1>1. p \in Nat \ {0} /\ k \in 0 .. BUDDY_MAX_ORDER /\ k + 1 \in 0 .. BUDDY_MAX_ORDER
  BY PagesPositive, PagesDouble
<1>2. g \in Nat /\ g \in Span(g, k)
  BY <1>1, SpanStep, InSpan
<1>3. g \in Span(Base(q, k + 1), k + 1)
  BY <1>2, SpanStep
<1>4. Base(g, k + 1) = Base(q, k + 1)
  BY <1>1, <1>3, BaseIsAligned, SpanBase
<1>5. b = a * p /\ a \in Nat
  BY <1>1, BaseProps, DivMod
<1>6. g = b + p \/ g = b - p
  BY BaseStep
<1> HIDE DEF p, b, g, a
<1>7. \E e \in Nat : g = e * p
  <2>1. CASE g = b + p
    <3>1. g = (a + 1) * p /\ a + 1 \in Nat
      BY <1>1, <1>5, <2>1
    <3>. QED  BY <3>1
  <2>2. CASE g = b - p
    <3>1. a # 0
      BY <1>1, <1>2, <1>5, <2>2
    <3>2. g = (a - 1) * p /\ a - 1 \in Nat
      BY <1>1, <1>5, <2>2, <3>1
    <3>. QED  BY <3>2
  <2>. QED  BY <1>6, <2>1, <2>2
<1>8. PICK e \in Nat : g = e * p
  BY <1>7
<1>9. (((e * p) + 0) % p) = 0
  BY <1>1, ModUnique
<1>10. (g % p) = 0
  BY <1>1, <1>8, <1>9
<1>11. Base(g, k) = g
  BY <1>1, <1>2, <1>10, BaseAligned DEF p
<1>. QED  BY <1>2, <1>3, <1>4, <1>11 DEF g, b

\* Every page has its block, whose offset is the page's base.
LEMMA BlockOfPage ==
    ASSUME IInv, NEW p \in Frames
    PROVE  \E c \in Blocks : /\ c[2] \in Orders /\ c[1] \in Frames
                             /\ p \in Span(c[1], c[2]) /\ c = <<Base(p, c[2]), c[2]>>
<1>1. PICK c \in Blocks : p \in Span(c[1], c[2])
  BY DEF IInv, NoPageLost, Blocks
<1>2. c \in Frames \X Orders
  BY BlockFacts DEF IInv, Blocks
<1>3. c[1] \in Nat /\ c[2] \in 0 .. BUDDY_MAX_ORDER /\ Base(c[1], c[2]) = c[1]
  BY <1>2, ConstantFacts DEF IInv, BlocksPlaced
<1>4. Base(p, c[2]) = c[1]
  BY <1>1, <1>3, SpanBase
<1>. QED  BY <1>1, <1>2, <1>4

\* Blocks that share a page are the same block.
LEMMA OneBlock ==
    ASSUME IInv, NEW b \in Blocks, NEW c \in Blocks, NEW p,
           p \in Span(b[1], b[2]), p \in Span(c[1], c[2])
    PROVE  b = c
  BY DEF IInv, BlocksDisjoint, Blocks

\* A free block of the same or a larger order never covers the buddy of a free
\* block: it would be that buddy, or overlap the block.
LEMMA BuddyUncovered ==
    ASSUME IInv, NEW q \in Nat, NEW j \in Orders, <<Base(q, j), j>> \in FreeBlocks,
           NEW c \in FreeBlocks, c[2] >= j,
           BuddyOf(Base(q, j), j) \in Span(c[1], c[2])
    PROVE  FALSE
<1> DEFINE g == BuddyOf(Base(q, j), j)
           m == c[2]
<1>1. /\ c = <<c[1], m>> /\ c[1] \in Nat /\ m \in Orders /\ m \in 0 .. BUDDY_MAX_ORDER
      /\ j \in 0 .. BUDDY_MAX_ORDER /\ j + 1 \in 0 .. BUDDY_MAX_ORDER /\ j \in Nat
      /\ Base(q, j) \in Nat
  BY BlockFacts, ConstantFacts, PagesDouble, BaseIsAligned DEF IInv
<1>2. Base(c[1], m) = c[1]
  BY DEF IInv, BlocksPlaced, Blocks
<1>3. g \in Nat /\ Base(g, j) = g /\ g \in Span(Base(q, j + 1), j + 1)
  BY BuddyAligned
<1>4. Base(g, m) = c[1]
  BY <1>1, <1>2, SpanBase
<1>5. CASE m = j
  <2>1. c[1] = g
    BY <1>3, <1>4, <1>5
  <2>2. g \in Range(free_list[j]) /\ Base(q, j) \in Range(free_list[j])
    BY <1>1, <1>5, <2>1, BlockFacts DEF IInv
  <2>. QED  BY <2>2 DEF IInv, Coalesced
<1>6. CASE m > j
  <2>1. j + 1 \in 0 .. BUDDY_MAX_ORDER /\ m \in (j + 1) .. BUDDY_MAX_ORDER
    BY <1>1, <1>6, ConstantFacts
  <2>2. /\ Base(q, m) <= Base(q, j + 1)
        /\ Base(q, j + 1) + Pages[j + 1] <= Base(q, m) + Pages[m]
    BY <2>1, BaseNested
  <2>3. Base(q, m) \in Nat /\ Base(q, j + 1) \in Nat /\ Base(Base(q, m), m) = Base(q, m)
        /\ Pages[m] \in Nat /\ Pages[j + 1] \in Nat
    BY <1>1, <2>1, BaseIsAligned, PagesPositive
  <2>4. g \in Span(Base(q, m), m)
    BY <1>3, <2>2, <2>3 DEF Span
  <2>5. Base(g, m) = Base(q, m)
    BY <1>1, <2>3, <2>4, SpanBase
  <2>6. q \in Span(c[1], c[2]) /\ q \in Span(Base(q, j), j)
    BY <1>1, <1>4, <2>5, BaseIsAligned
  <2>7. <<Base(q, j), j>> \in Blocks /\ c \in Blocks
    BY DEF Blocks
  <2>8. c = <<Base(q, j), j>>
    BY <2>6, <2>7, OneBlock
  <2>. QED  BY <1>1, <1>6, <2>8
<1>. QED  BY <1>1, <1>5, <1>6

\* An aligned run of pages that no caller holds lies in one free block.
LEMMA FreeRun ==
    ASSUME IInv, NEW k \in Orders, NEW o \in Frames, Base(o, k) = o,
           Span(o, k) \subseteq Frames,
           \A b \in LiveBlocks : Span(o, k) \cap Span(b[1], b[2]) = {}
    PROVE  \E c \in FreeBlocks : c[2] >= k /\ o \in Span(c[1], c[2])
<1> DEFINE S == {j \in Orders : \E p \in Span(o, k) : <<Base(p, j), j>> \in FreeBlocks}
<1>1. /\ k \in 0 .. BUDDY_MAX_ORDER /\ o \in Nat /\ k \in Nat /\ BUDDY_MAX_ORDER \in Nat
      /\ Orders \subseteq Nat /\ o \in Span(o, k)
  BY ConstantFacts, BaseIsAligned
<1>2. ASSUME NEW p \in Span(o, k)
      PROVE  \E c \in FreeBlocks : /\ c[2] \in S /\ p \in Span(c[1], c[2])
                                    /\ c = <<Base(p, c[2]), c[2]>>
  <2>1. PICK c \in Blocks : /\ c[2] \in Orders /\ c[1] \in Frames
                            /\ p \in Span(c[1], c[2]) /\ c = <<Base(p, c[2]), c[2]>>
    BY BlockOfPage
  <2>2. c \in FreeBlocks
    BY <2>1 DEF Blocks
  <2>. QED  BY <2>1, <2>2
<1>3. SUFFICES ASSUME \A c \in FreeBlocks : o \in Span(c[1], c[2]) => ~(c[2] >= k)
               PROVE  FALSE
  OBVIOUS
<1>4. \E j \in S : j < k
  <2>1. PICK c \in FreeBlocks : c[2] \in S /\ o \in Span(c[1], c[2])
    BY <1>1, <1>2
  <2>2. c[2] \in Nat /\ ~(c[2] >= k)
    BY <1>1, <1>3, <2>1
  <2> HIDE DEF S
  <2>. QED  BY <1>1, <2>1, <2>2
<1>5. S \in SUBSET Nat /\ S # {}
  BY <1>1, <1>4
<1> DEFINE j == Min(S)
<1>6. j \in S /\ \A y \in S : j <= y
  BY <1>5, MinProps
<1> HIDE DEF j
<1>7. j \in Orders /\ j \in Nat /\ j < k
  BY <1>1, <1>4, <1>5, <1>6
<1>8. PICK p \in Span(o, k) : <<Base(p, j), j>> \in FreeBlocks
  BY <1>6
<1>9. p \in Nat /\ Base(p, k) = o
  BY <1>1, SpanBase
<1> DEFINE g == BuddyOf(Base(p, j), j)
<1>10. g \in Span(Base(p, j + 1), j + 1)
  BY <1>7, <1>9, BuddyAligned
<1> HIDE DEF g
<1>11. g \in Span(o, k)
  <2>1. j + 1 \in 0 .. BUDDY_MAX_ORDER /\ k \in (j + 1) .. BUDDY_MAX_ORDER
    BY <1>1, <1>7
  <2>2. /\ Base(p, k) <= Base(p, j + 1)
        /\ Base(p, j + 1) + Pages[j + 1] <= Base(p, k) + Pages[k]
    BY <1>9, <2>1, BaseNested
  <2>3. Base(p, j + 1) \in Nat /\ Pages[k] \in Nat /\ Pages[j + 1] \in Nat
    BY <1>1, <1>9, <2>1, BaseIsAligned, PagesPositive
  <2>. QED  BY <1>1, <1>9, <1>10, <2>2, <2>3 DEF Span
<1>12. PICK c \in FreeBlocks : c[2] \in S /\ g \in Span(c[1], c[2])
  BY <1>2, <1>11
<1>13. c[2] >= j
  BY <1>5, <1>6, <1>12
<1>. QED  BY <1>7, <1>8, <1>9, <1>12, <1>13, BuddyUncovered DEF g

\* buddy_alloc refuses a request that some order is large enough for only when
\* every aligned run of that order meets a block that a caller holds.
THEOREM RefusalJustified == Spec => []AllocComplete
<1>1. IInv => AllocComplete
  <2> SUFFICES ASSUME IInv, NEW size \in Sizes, Fitting(size) # {},
                      ~CanAlloc(free_list, size), NEW o \in Frames,
                      (o % Pages[FitOrder(size)]) = 0,
                      Span(o, FitOrder(size)) \subseteq Frames,
                      \A b \in LiveBlocks :
                          Span(o, FitOrder(size)) \cap Span(b[1], b[2]) = {}
               PROVE  FALSE
    BY DEF AllocComplete
  <2> DEFINE k == FitOrder(size)
  <2>1. k \in Orders
    <3>1. Fitting(size) \in SUBSET Nat /\ Fitting(size) \subseteq Orders
      BY ConstantFacts DEF Fitting
    <3>2. Min(Fitting(size)) \in Fitting(size)
      BY <3>1, MinProps
    <3>. QED  BY <3>1, <3>2 DEF FitOrder
  <2> HIDE DEF k
  <2>2. Base(o, k) = o
    BY <2>1, ConstantFacts, BaseAligned DEF k
  <2>3. PICK c \in FreeBlocks : c[2] >= k /\ o \in Span(c[1], c[2])
    BY <2>1, <2>2, FreeRun DEF k
  <2>4. c[2] \in Orders /\ c[1] \in Range(free_list[c[2]])
    BY <2>3 DEF FreeBlocks
  <2>5. free_list[c[2]] # << >>
    BY <2>4 DEF Range
  <2>6. c[2] \in Sources(free_list, k)
    BY <2>3, <2>4, <2>5 DEF Sources
  <2>. QED  BY <2>6 DEF CanAlloc, k
<1>. QED  BY Invariance, <1>1, PTL

\* When callers hold nothing, a free block is one that buddy_init mounted.
LEMMA FreeIsMounted ==
    ASSUME IInv, DOMAIN live = {}, NEW k \in Orders, NEW o \in Range(free_list[k])
    PROVE  /\ InitLists[k] = << o >> /\ o = Base(VramPages, k + 1)
           /\ o + Pages[k] = Base(VramPages, k)
<1> DEFINE n == VramPages
           p == Pages[k]
           g == BuddyOf(o, k)
<1>1. LiveBlocks = {} /\ <<o, k>> \in FreeBlocks /\ <<o, k>> \in Blocks
  BY BlockFacts DEF IInv, LiveBlocks, Blocks
<1>2. /\ k \in 0 .. BUDDY_MAX_ORDER /\ k + 1 \in 0 .. BUDDY_MAX_ORDER /\ n \in Nat
      /\ p \in Nat \ {0} /\ Pages[k + 1] = p + p /\ o \in Frames /\ o \in Nat
  BY <1>1, ConstantFacts, PagesPositive, PagesDouble, BlockFacts DEF IInv
<1>3. Base(o, k) = o /\ Span(o, k) \subseteq Frames
  BY <1>1 DEF IInv, BlocksPlaced
<1>4. g \in Nat /\ Base(g, k) = g /\ g \in Span(g, k)
  BY <1>2, <1>3, BuddyAligned, BaseIsAligned
<1>5. ~(Span(g, k) \subseteq Frames)
  <2> SUFFICES ASSUME Span(g, k) \subseteq Frames PROVE FALSE
    OBVIOUS
  <2>1. PICK c \in FreeBlocks : c[2] >= k /\ g \in Span(c[1], c[2])
    BY <1>1, <1>4, FreeRun
  <2>. QED  BY <1>1, <1>2, <1>3, <2>1, BuddyUncovered
<1>6. o + p <= n
  <2>1. o + p - 1 \in Span(o, k)
    BY <1>2 DEF Span
  <2>. QED  BY <1>2, <1>3, <2>1 DEF Frames
<1>7. Base(o, k + 1) = o /\ g = o + p
  <2>1. CASE Base(o, k + 1) = o - p /\ g = o - p
    <3>1. Span(g, k) \subseteq Frames
      BY <1>2, <1>4, <1>6, <2>1 DEF Span, Frames
    <3>. QED  BY <1>5, <3>1
  <2>. QED  BY <1>2, <1>3, <2>1, BaseStep
<1>8. n < o + p + p
  BY <1>2, <1>4, <1>5, <1>7 DEF Span, Frames
<1>9. n \in Span(o, k + 1)
  BY <1>2, <1>6, <1>8 DEF Span
<1>10. Base(n, k + 1) = o
  BY <1>2, <1>7, <1>9, SpanBase
<1>11. n < Base(n, k) + p
  BY <1>2, BaseProps
<1>12. Base(n, k + 1) # Base(n, k)
  BY <1>2, <1>6, <1>10, <1>11
<1>. QED  BY <1>10, <1>12, MountBlock

\* When everything has been freed, the lists hold exactly what buddy_init
\* mounted: no sequence of calls leaves the VRAM fragmented.
THEOREM FreedIsInitial == Spec => []AllFreedIsInitial
<1>1. IInv => AllFreedIsInitial
  <2> SUFFICES ASSUME IInv, DOMAIN live = {}, NEW k \in Orders
               PROVE  Range(free_list[k]) = Range(InitLists[k])
    BY DEF AllFreedIsInitial
  <2> DEFINE n == VramPages
  <2>1. \A o : Range(<< o >>) = {o}
    BY DEF Range
  <2>2. ASSUME NEW o \in Range(free_list[k]) PROVE o \in Range(InitLists[k])
    BY <2>1, FreeIsMounted
  <2>3. ASSUME NEW o \in Range(InitLists[k]) PROVE o \in Range(free_list[k])
    <3>1. InitLists[k] # << >>
      BY DEF Range
    <3>2. o = Base(n, k + 1) /\ o + Pages[k] = Base(n, k)
      <4>1. /\ InitLists[k] = << Base(n, k + 1) >>
            /\ Base(n, k + 1) + Pages[k] = Base(n, k)
        BY <3>1, MountBlock
      <4>2. Range(InitLists[k]) = {Base(n, k + 1)}
        BY <2>1, <4>1
      <4>. QED  BY <4>1, <4>2
    <3>3. /\ k \in 0 .. BUDDY_MAX_ORDER /\ k + 1 \in 0 .. BUDDY_MAX_ORDER /\ n \in Nat
          /\ k \in Nat /\ BUDDY_MAX_ORDER \in Nat /\ k \in 0 .. (k + 1)
          /\ Pages[k] \in Nat \ {0}
      BY ConstantFacts, PagesDouble, PagesPositive
    <3>4. o \in Nat /\ Base(o, k + 1) = o /\ Base(n, k) <= n
      BY <3>2, <3>3, BaseIsAligned, BaseProps
    <3>5. Base(o, k) = o
      BY <3>3, <3>4, AlignedDown
    <3>6. o \in Frames /\ Span(o, k) \subseteq Frames
      BY <3>2, <3>3, <3>4 DEF Span, Frames
    <3>7. LiveBlocks = {}
      BY DEF LiveBlocks
    <3>8. PICK c \in FreeBlocks : c[2] >= k /\ o \in Span(c[1], c[2])
      BY <3>5, <3>6, <3>7, FreeRun
    <3> DEFINE m == c[2]
    <3>9. m \in Orders /\ m \in Nat /\ c[1] \in Range(free_list[m]) /\ c[1] \in Nat
      BY ConstantFacts DEF FreeBlocks
    <3>10. c[1] = Base(n, m + 1) /\ c[1] + Pages[m] = Base(n, m)
      BY <3>9, FreeIsMounted
    <3>11. CASE m = k
      BY <3>2, <3>9, <3>10, <3>11
    <3>12. CASE m > k
      <4>1. m \in (k + 1) .. BUDDY_MAX_ORDER /\ m \in 0 .. BUDDY_MAX_ORDER
        BY <3>3, <3>9, <3>12, ConstantFacts
      <4>2. Base(n, m) <= Base(n, k + 1)
        BY <3>3, <4>1, BaseNested
      <4>3. o < c[1] + Pages[m] /\ Pages[m] \in Nat
        <5>1. Pages[m] \in Nat
          BY <4>1, PagesPositive
        <5>. QED  BY <3>4, <3>8, <3>9, <5>1 DEF Span
      <4>. QED  BY <3>2, <3>4, <3>9, <3>10, <4>2, <4>3
    <3>. QED  BY <3>3, <3>8, <3>9, <3>11, <3>12
  <2>. QED  BY <2>2, <2>3
<1>. QED  BY Invariance, <1>1, PTL
-----------------------------------------------------------------------------
(* The allocator implements Vram.                                          *)

\* What callers hold, with offsets in bytes: the refinement mapping.
InBytes(f) == [b \in {o * PAGE_SIZE : o \in DOMAIN f} |-> f[b \div PAGE_SIZE]]

\* Offsets in bytes and in pages determine each other.
LEMMA ByteOffset ==
    ASSUME NEW o \in Nat
    PROVE  (o * PAGE_SIZE) \in Nat /\ ((o * PAGE_SIZE) \div PAGE_SIZE) = o
<1>1. PAGE_SIZE \in Nat \ {0} /\ 0 < PAGE_SIZE
  BY BuddyConstants
<1>2. (((o * PAGE_SIZE) + 0) \div PAGE_SIZE) = o
  BY <1>1, ModUnique
<1>. QED  BY <1>1, <1>2

\* Offsets in bytes are ordered as those in pages are.
LEMMA BytesMonotone ==
    ASSUME NEW a \in Nat, NEW b \in Nat, a <= b
    PROVE  a * PAGE_SIZE <= b * PAGE_SIZE
<1>1. PAGE_SIZE \in Nat
  BY BuddyConstants
<1>. QED  BY <1>1

\* The bytes a caller asked for lie in the pages of its block.
LEMMA ExtentInBlock ==
    ASSUME NEW o \in Nat, NEW k \in Orders, NEW size \in Nat,
           Pages[k] * PAGE_SIZE >= size
    PROVE  \A x \in Abstract!Extent(o * PAGE_SIZE, size) :
               /\ x \in Nat
               /\ o * PAGE_SIZE <= x
               /\ x < (o + Pages[k]) * PAGE_SIZE
<1>1. PAGE_SIZE \in Nat \ {0} /\ Pages[k] \in Nat \ {0}
  BY BuddyConstants, PagesPositive, ConstantFacts
<1> DEFINE a == o * PAGE_SIZE
           l == Pages[k] * PAGE_SIZE
<1>2. a \in Nat /\ l \in Nat /\ 1 <= l
  BY <1>1
<1>3. (o + Pages[k]) * PAGE_SIZE = a + l
  BY <1>1
<1>4. l >= size
  OBVIOUS
<1> HIDE DEF a, l
<1>5. \A x \in Abstract!Extent(a, size) : x \in Nat /\ a <= x /\ x < a + l
  BY <1>2, <1>4 DEF Abstract!Extent
<1>. QED  BY <1>3, <1>5 DEF a

\* Blocks that share no page share no byte.
LEMMA ApartInBytes ==
    ASSUME NEW o \in Nat, NEW k \in Orders, NEW p \in Nat, NEW j \in Orders,
           Span(o, k) \cap Span(p, j) = {}
    PROVE  \/ (o + Pages[k]) * PAGE_SIZE <= p * PAGE_SIZE
           \/ (p + Pages[j]) * PAGE_SIZE <= o * PAGE_SIZE
<1>1. Pages[k] \in Nat \ {0} /\ Pages[j] \in Nat \ {0}
  BY PagesPositive, ConstantFacts
<1>2. o + Pages[k] <= p \/ p + Pages[j] <= o
  <2>1. ~(o <= p /\ p < o + Pages[k])
    <3>1. p \in Span(p, j)
      BY <1>1 DEF Span
    <3>2. p \notin Span(o, k)
      BY <3>1
    <3>. QED  BY <1>1, <3>2 DEF Span
  <2>2. ~(p <= o /\ o < p + Pages[j])
    <3>1. o \in Span(o, k)
      BY <1>1 DEF Span
    <3>2. o \notin Span(p, j)
      BY <3>1
    <3>. QED  BY <1>1, <3>2 DEF Span
  <2>. QED  BY <1>1, <2>1, <2>2
<1>. QED  BY <1>1, <1>2, BytesMonotone

\* What callers hold, as the orders of their blocks tell.
HeldFits ==
    \A o \in DOMAIN live :
        /\ o \in Nat /\ o \in Frames /\ live[o] \in Nat /\ page_order[o] \in Orders
        /\ Pages[page_order[o]] * PAGE_SIZE >= live[o]
        /\ Span(o, page_order[o]) \subseteq Frames

HeldApart ==
    \A o, p \in DOMAIN live :
        o # p => Span(o, page_order[o]) \cap Span(p, page_order[p]) = {}

\* What callers hold lies in the VRAM and in blocks of its own.
LEMMA HeldBlocks == IInv => HeldFits /\ HeldApart
<1>. SUFFICES ASSUME IInv PROVE HeldFits /\ HeldApart
  OBVIOUS
<1>0. \A o \in DOMAIN live : <<o, page_order[o]>> \in LiveBlocks
  BY DEF LiveBlocks
<1>1. ASSUME NEW o \in DOMAIN live
      PROVE  /\ o \in Nat /\ o \in Frames /\ live[o] \in Nat /\ page_order[o] \in Orders
             /\ Pages[page_order[o]] * PAGE_SIZE >= live[o]
             /\ Span(o, page_order[o]) \subseteq Frames
  <2>1. /\ o \in Frames /\ o \in Nat /\ live[o] \in Sizes /\ live[o] \in Nat
        /\ page_order[o] \in Orders
    BY SizesAssumption, ConstantFacts DEF IInv, TypeOK
  <2>2. Fitting(live[o]) # {} /\ page_order[o] = Min(Fitting(live[o]))
    BY DEF IInv, LiveFits, OrderKept, FitOrder
  <2>3. Fitting(live[o]) \in SUBSET Nat
    BY ConstantFacts DEF Fitting
  <2>4. page_order[o] \in Fitting(live[o])
    BY <2>2, <2>3, MinProps
  <2>5. Pages[page_order[o]] * PAGE_SIZE >= live[o]
    BY <2>4 DEF Fitting
  <2>6. Span(o, page_order[o]) \subseteq Frames
    <3>1. <<o, page_order[o]>> \in Blocks
      BY <1>0 DEF Blocks
    <3>. QED  BY <3>1 DEF IInv, BlocksPlaced
  <2>. QED  BY <2>1, <2>5, <2>6
<1>2. HeldApart
  <2> SUFFICES ASSUME NEW o \in DOMAIN live, NEW p \in DOMAIN live, o # p
               PROVE  Span(o, page_order[o]) \cap Span(p, page_order[p]) = {}
    BY DEF HeldApart
  <2> DEFINE b == <<o, page_order[o]>>
             c == <<p, page_order[p]>>
  <2>1. b \in LiveBlocks /\ c \in LiveBlocks
    BY <1>0
  <2>2. b # c /\ b[1] = o /\ b[2] = page_order[o] /\ c[1] = p /\ c[2] = page_order[p]
    OBVIOUS
  <2> HIDE DEF b, c
  <2>3. Span(b[1], b[2]) \cap Span(c[1], c[2]) = {}
    BY <2>1, <2>2 DEF IInv, BlocksDisjoint
  <2>. QED  BY <2>2, <2>3
<1>. QED  BY <1>1, <1>2 DEF HeldFits

\* buddy_alloc returns an offset that no caller holds.
LEMMA AllocFresh ==
    ASSUME IInv, NEW size \in Sizes, buddy_alloc(size)
    PROVE  \E off \in Frames :
               /\ off \notin DOMAIN live
               /\ live' = [o \in DOMAIN live \cup {off} |->
                               IF o = off THEN size ELSE live[o]]
<1> DEFINE order == FitOrder(size)
           i     == Min(Sources(free_list, order))
           off   == Head(free_list[i])
<1>1. /\ CanAlloc(free_list, size)
      /\ live' = [o \in DOMAIN live \cup {off} |-> IF o = off THEN size ELSE live[o]]
  BY DEF buddy_alloc, AllocOffset
<1>2. i \in Orders /\ free_list[i] # << >>
  BY <1>1, AllocChoice DEF IInv
<1> HIDE DEF order, i
<1>3. free_list[i] \in Seq(Frames) /\ IsInjective(free_list[i])
  BY <1>2 DEF IInv, TypeOK, BlocksDisjoint
<1>4. off \in Range(free_list[i])
  BY <1>2, <1>3, TailList
<1> HIDE DEF off
<1>5. off \in Frames /\ off \in Nat /\ <<off, i>> \in FreeBlocks
  BY <1>2, <1>3, <1>4, BlockFacts, RangeOfSeq, ConstantFacts DEF IInv
<1>6. off \notin DOMAIN live
  <2>1. SUFFICES ASSUME off \in DOMAIN live PROVE FALSE
    OBVIOUS
  <2>2. <<off, page_order[off]>> \in LiveBlocks /\ page_order[off] \in 0 .. BUDDY_MAX_ORDER
    BY <1>5, <2>1, BlockFacts, ConstantFacts DEF IInv, TypeOK
  <2>3. off \in Span(off, page_order[off]) /\ off \in Span(off, i)
    BY <1>2, <1>5, <2>2, PagesPositive, ConstantFacts DEF Span
  <2>4. <<off, page_order[off]>> = <<off, i>>
    BY <1>5, <2>2, <2>3, OneBlock DEF Blocks
  <2>. QED  BY <1>5, <2>2, <2>4 DEF IInv, BlocksDisjoint
<1>. QED  BY <1>1, <1>5, <1>6

\* A range of a new block is fresh.
LEMMA FreshRange ==
    ASSUME HeldFits', HeldApart', NEW off \in Frames, off \notin DOMAIN live,
           NEW size \in Sizes, \A o \in DOMAIN live : o \in Nat,
           live' = [o \in DOMAIN live \cup {off} |-> IF o = off THEN size ELSE live[o]]
    PROVE  /\ off * PAGE_SIZE \in 0 .. (VramPages * PAGE_SIZE - 1)
           /\ Abstract!Fresh(off * PAGE_SIZE, size)
<1> DEFINE k == page_order'[off]
           E == Abstract!Extent(off * PAGE_SIZE, size)
<1>1. /\ off \in DOMAIN live' /\ live'[off] = size
      /\ \A o \in DOMAIN live : o \in DOMAIN live' /\ o # off /\ live'[o] = live[o]
  OBVIOUS
<1>2. /\ off \in Nat /\ size \in Nat /\ k \in Orders
      /\ Pages[k] * PAGE_SIZE >= size /\ Span(off, k) \subseteq Frames
  BY <1>1 DEF HeldFits
<1>3. Pages[k] \in Nat \ {0} /\ PAGE_SIZE \in Nat \ {0} /\ VramPages \in Nat
  BY <1>2, PagesPositive, BuddyConstants, ConstantFacts
<1>4. off + Pages[k] <= VramPages
  <2>1. off + Pages[k] - 1 \in Span(off, k)
    BY <1>2, <1>3 DEF Span
  <2>2. off + Pages[k] - 1 \in Frames
    BY <1>2, <2>1
  <2>. QED  BY <1>2, <1>3, <2>2 DEF Frames
<1>5. \A x \in E : x \in Nat /\ off * PAGE_SIZE <= x /\ x < (off + Pages[k]) * PAGE_SIZE
  BY <1>2, ExtentInBlock
<1>6. (off + Pages[k]) * PAGE_SIZE <= VramPages * PAGE_SIZE
  BY <1>2, <1>3, <1>4, BytesMonotone
<1>7. /\ (off + Pages[k]) * PAGE_SIZE \in Nat /\ VramPages * PAGE_SIZE \in Nat
      /\ off * PAGE_SIZE \in Nat
  BY <1>2, <1>3
<1>8. \A x \in E : x \in 0 .. (VramPages * PAGE_SIZE - 1)
  BY <1>5, <1>6, <1>7
<1>9. off * PAGE_SIZE \in E
  BY <1>2, <1>7 DEF Abstract!Extent
<1>10. ASSUME NEW o \in DOMAIN live
       PROVE  Abstract!Extent(o * PAGE_SIZE, live[o]) \cap E = {}
  <2> DEFINE j == page_order'[o]
  <2>1. /\ o \in Nat /\ live[o] \in Nat /\ j \in Orders
        /\ Pages[j] * PAGE_SIZE >= live[o]
    BY <1>1 DEF HeldFits
  <2>2. Span(o, j) \cap Span(off, k) = {}
    BY <1>1 DEF HeldApart
  <2>3. \A x \in Abstract!Extent(o * PAGE_SIZE, live[o]) :
            x \in Nat /\ o * PAGE_SIZE <= x /\ x < (o + Pages[j]) * PAGE_SIZE
    BY <2>1, ExtentInBlock
  <2>4. \/ (o + Pages[j]) * PAGE_SIZE <= off * PAGE_SIZE
        \/ (off + Pages[k]) * PAGE_SIZE <= o * PAGE_SIZE
    BY <1>2, <2>1, <2>2, ApartInBytes
  <2>5. o * PAGE_SIZE \in Nat /\ (o + Pages[j]) * PAGE_SIZE \in Nat
    <3>1. Pages[j] \in Nat
      BY <2>1, PagesPositive, ConstantFacts
    <3>. QED  BY <1>3, <2>1, <3>1
  <2> HIDE DEF E, j, k
  <2>. QED  BY <1>5, <1>7, <2>3, <2>4, <2>5
<1>11. \A b \in {o * PAGE_SIZE : o \in DOMAIN live} :
           Abstract!Extent(b, live[b \div PAGE_SIZE]) \cap E = {}
  BY <1>10, ByteOffset
<1>12. \A x \in E : x \in 0 .. ((VramPages * PAGE_SIZE) - 1)
  BY <1>8
<1>. QED  BY <1>8, <1>9, <1>11, <1>12 DEF Abstract!Fresh

\* f with an entry more.
With(f, x, v) == [o \in DOMAIN f \cup {x} |-> IF o = x THEN v ELSE f[o]]

\* What the mapping makes of a new entry, and of one that goes.
LEMMA BytesAdded ==
    ASSUME NEW f, NEW off \in Nat, NEW size, \A o \in DOMAIN f : o \in Nat,
           off \notin DOMAIN f
    PROVE  InBytes(With(f, off, size)) = With(InBytes(f), off * PAGE_SIZE, size)
<1> DEFINE g == With(f, off, size)
<1>0. /\ g = [o \in DOMAIN f \cup {off} |-> IF o = off THEN size ELSE f[o]]
      /\ DOMAIN g = DOMAIN f \cup {off}
  BY DEF With
<1> HIDE DEF g
<1> DEFINE D == {o * PAGE_SIZE : o \in DOMAIN f}
<1>1. DOMAIN InBytes(f) = D /\ \A b \in D : InBytes(f)[b] = f[b \div PAGE_SIZE]
  BY DEF InBytes
<1>2. {o * PAGE_SIZE : o \in DOMAIN g} = D \cup {off * PAGE_SIZE}
  BY <1>0
<1>3. InBytes(g) = [b \in D \cup {off * PAGE_SIZE} |-> g[b \div PAGE_SIZE]]
  BY <1>2 DEF InBytes
<1>4. g[(off * PAGE_SIZE) \div PAGE_SIZE] = size
  BY <1>0, ByteOffset
<1>5. ASSUME NEW b \in D
      PROVE  b # off * PAGE_SIZE /\ g[b \div PAGE_SIZE] = f[b \div PAGE_SIZE]
  <2>1. PICK o \in DOMAIN f : b = o * PAGE_SIZE
    OBVIOUS
  <2>2. (b \div PAGE_SIZE) = o /\ o # off /\ ((off * PAGE_SIZE) \div PAGE_SIZE) = off
    BY <2>1, ByteOffset
  <2>. QED  BY <1>0, <2>2
<1> HIDE DEF D
<1>6. InBytes(g) = With(InBytes(f), off * PAGE_SIZE, size)
  <2>1. \A b \in D \cup {off * PAGE_SIZE} :
            g[b \div PAGE_SIZE] = IF b = off * PAGE_SIZE THEN size ELSE InBytes(f)[b]
    BY <1>1, <1>4, <1>5
  <2>. QED  BY <1>1, <1>3, <2>1 DEF With
<1>. QED  BY <1>6 DEF g

\* See BytesAdded: an entry that goes.
LEMMA BytesRemoved ==
    ASSUME NEW f, NEW g, NEW off \in DOMAIN f, \A o \in DOMAIN f : o \in Nat,
           g = [o \in DOMAIN f \ {off} |-> f[o]]
    PROVE  /\ off * PAGE_SIZE \in DOMAIN InBytes(f)
           /\ InBytes(g) = [b \in DOMAIN InBytes(f) \ {off * PAGE_SIZE} |-> InBytes(f)[b]]
<1> DEFINE D == {o * PAGE_SIZE : o \in DOMAIN f}
<1>1. DOMAIN InBytes(f) = D /\ \A b \in D : InBytes(f)[b] = f[b \div PAGE_SIZE]
  BY DEF InBytes
<1>2. \A b \in D : /\ (b \div PAGE_SIZE) \in DOMAIN f /\ b = (b \div PAGE_SIZE) * PAGE_SIZE
  BY ByteOffset
<1>3. {o * PAGE_SIZE : o \in DOMAIN g} = D \ {off * PAGE_SIZE}
  <2>1. \A o \in DOMAIN f : o # off => o * PAGE_SIZE # off * PAGE_SIZE
    BY ByteOffset
  <2>. QED  BY <2>1
<1>4. \A b \in D \ {off * PAGE_SIZE} : g[b \div PAGE_SIZE] = f[b \div PAGE_SIZE]
  BY <1>2
<1>5. InBytes(g) = [b \in D \ {off * PAGE_SIZE} |-> g[b \div PAGE_SIZE]]
  BY <1>3 DEF InBytes
<1>6. off * PAGE_SIZE \in D
  OBVIOUS
<1> HIDE DEF D
<1>. QED  BY <1>1, <1>4, <1>5, <1>6

\* The buddy allocator implements Vram (ImplementsVram): a call of buddy_alloc
\* is a Malloc or a refusal, a call of buddy_free is a Free.
THEOREM BuddyImplementsVram == Spec => ImplementsVram
<1>1. Init => Abstract!Init
  <2> SUFFICES ASSUME Init PROVE Abstract!Init
    OBVIOUS
  <2>1. {o * PAGE_SIZE : o \in DOMAIN live} = {}
    BY DEF Init
  <2>. QED  BY <2>1 DEF Abstract!Init
<1>2. IInv' => HeldFits' /\ HeldApart'
  BY HeldBlocks, PTL
<1>3. IInv /\ IInv' /\ [Next]_vars => [Abstract!Next]_(InBytes(live))
  <2> SUFFICES ASSUME IInv, IInv', [Next]_vars PROVE [Abstract!Next]_(InBytes(live))
    OBVIOUS
  <2>1. \A o \in DOMAIN live : o \in Nat
    BY HeldBlocks DEF HeldFits
  <2>2. ASSUME NEW size \in Sizes, buddy_alloc(size) PROVE Abstract!Next
    <3>1. PICK off \in Frames :
              /\ off \notin DOMAIN live
              /\ live' = [o \in DOMAIN live \cup {off} |->
                              IF o = off THEN size ELSE live[o]]
      BY <2>2, AllocFresh
    <3>2. /\ off * PAGE_SIZE \in 0 .. (VramPages * PAGE_SIZE - 1)
          /\ Abstract!Fresh(off * PAGE_SIZE, size)
      BY <1>2, <2>1, <3>1, FreshRange
    <3>3. InBytes(live') = [b \in DOMAIN InBytes(live) \cup {off * PAGE_SIZE} |->
                               IF b = off * PAGE_SIZE THEN size ELSE InBytes(live)[b]]
      <4>1. off \in Nat
        BY ConstantFacts
      <4>2. InBytes(With(live, off, size)) = With(InBytes(live), off * PAGE_SIZE, size)
        BY <2>1, <3>1, <4>1, BytesAdded
      <4>3. live' = With(live, off, size)
        BY <3>1 DEF With
      <4>. QED  BY <4>2, <4>3 DEF With
    <3>4. Abstract!Malloc(size)
      BY <3>2, <3>3 DEF Abstract!Malloc, InBytes
    <3>. QED  BY <3>4 DEF Abstract!Next
  <2>3. ASSUME NEW off \in DOMAIN live, buddy_free(off) PROVE Abstract!Next
    <3>1. live' = [o \in DOMAIN live \ {off} |-> live[o]]
      BY <2>3 DEF buddy_free
    <3>2. /\ off * PAGE_SIZE \in DOMAIN InBytes(live)
          /\ InBytes(live') = [b \in DOMAIN InBytes(live) \ {off * PAGE_SIZE} |->
                                  InBytes(live)[b]]
      BY <2>1, <3>1, BytesRemoved
    <3>3. Abstract!Free(off * PAGE_SIZE)
      BY <3>2 DEF Abstract!Free, InBytes
    <3>. QED  BY <3>2, <3>3 DEF Abstract!Next, InBytes
  <2>4. CASE UNCHANGED vars
    BY <2>4 DEF vars, InBytes
  <2>5. ASSUME NEW size \in Sizes, buddy_alloc_fails(size) PROVE UNCHANGED InBytes(live)
    BY <2>5 DEF buddy_alloc_fails, vars, InBytes
  <2>. QED  BY <2>2, <2>3, <2>4, <2>5 DEF Next
<1>. QED  BY <1>1, <1>3, Invariance, PTL DEF Spec, ImplementsVram, Abstract!Spec, InBytes
=============================================================================
