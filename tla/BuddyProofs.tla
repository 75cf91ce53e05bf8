---------------------------- MODULE BuddyProofs ----------------------------
(***************************************************************************)
(* Safety of the buddy allocator of lib/src/buddy.c, proved for every      *)
(* number of orders, every VRAM size that page_order can describe and      *)
(* every set of request sizes.                                             *)
(***************************************************************************)
EXTENDS Buddy, BuddyLemmas

Blocks == FreeBlocks \cup LiveBlocks

Disjoint(A) ==
    \A b, c \in A : b # c => Span(b[1], b[2]) \cap Span(c[1], c[2]) = {}

\* Every block lies on a multiple of its size and inside the VRAM.
BlocksPlaced ==
    \A b \in Blocks : Base(b[1], b[2]) = b[1] /\ Span(b[1], b[2]) \subseteq Frames

\* Callers hold only what some order is large enough for.
LiveFits == \A o \in DOMAIN live : Fitting(live[o]) # {}

\* The inductive invariant.  Disjointness alone is not inductive: a merge
\* takes over pages it never looks at, namely those of the buddy, and that
\* is right only if the block and its buddy are aligned (BlocksPlaced); the
\* order a block is freed with is the one it was allocated with only if
\* nothing overwrote page_order (OrderKept).
IInv ==
    /\ TypeOK
    /\ BlocksDisjoint
    /\ BlocksPlaced
    /\ NoPageLost
    /\ OrderKept
    /\ LiveFits
    /\ Coalesced
-----------------------------------------------------------------------------
(* Sets of blocks.                                                         *)

\* Replacing blocks R by blocks Q that lie within their pages keeps a set of
\* blocks disjoint.
LEMMA ReplaceDisjoint ==
    ASSUME NEW A, NEW R, NEW Q, R \subseteq A, Disjoint(A), Disjoint(Q),
           \A q \in Q : \A p \in Span(q[1], q[2]) :
               \E r \in R : p \in Span(r[1], r[2])
    PROVE  Disjoint((A \ R) \cup Q)
<1>1. SUFFICES ASSUME NEW b \in (A \ R) \cup Q, NEW c \in (A \ R) \cup Q, b # c,
                      NEW p, p \in Span(b[1], b[2]), p \in Span(c[1], c[2])
               PROVE  FALSE
  BY DEF Disjoint
<1>2. ASSUME NEW a \in A \ R, NEW q \in Q,
             p \in Span(a[1], a[2]), p \in Span(q[1], q[2])
      PROVE  FALSE
  <2>1. PICK r \in R : p \in Span(r[1], r[2])
    BY <1>2
  <2>2. QED
    BY <1>2, <2>1 DEF Disjoint
<1>3. QED
  BY <1>1, <1>2 DEF Disjoint

\* ... and replacing them by blocks that hold their pages loses no page.
LEMMA ReplaceCovers ==
    ASSUME NEW A, NEW R, NEW Q,
           \A p \in Frames : \E b \in A : p \in Span(b[1], b[2]),
           \A r \in R : \A p \in Span(r[1], r[2]) :
               \E q \in Q : p \in Span(q[1], q[2])
    PROVE  \A p \in Frames : \E b \in (A \ R) \cup Q : p \in Span(b[1], b[2])
<1>1. SUFFICES ASSUME NEW p \in Frames
               PROVE  \E b \in (A \ R) \cup Q : p \in Span(b[1], b[2])
  OBVIOUS
<1>2. PICK a \in A : p \in Span(a[1], a[2])
  OBVIOUS
<1>3. CASE a \in R
  BY <1>2, <1>3
<1>4. QED
  BY <1>2, <1>3

\* Blocks are pairs of an offset and an order.
LEMMA BlockFacts ==
    ASSUME TypeOK
    PROVE  /\ \A o, k : <<o, k>> \in FreeBlocks <=> k \in Orders /\ o \in Range(free_list[k])
           /\ \A b \in FreeBlocks : b \in Frames \X Orders
           /\ \A b \in LiveBlocks : b \in Frames \X Orders
           /\ \A o \in DOMAIN live : <<o, page_order[o]>> \in LiveBlocks
<1>1. \A k \in Orders : Range(free_list[k]) \subseteq Frames
  BY RangeOfSeq DEF TypeOK
<1>2. QED
  BY <1>1 DEF FreeBlocks, LiveBlocks, TypeOK

\* Offsets and orders are natural numbers.
LEMMA ConstantFacts ==
    /\ Frames \subseteq Nat
    /\ Orders \subseteq 0 .. BUDDY_MAX_ORDER
    /\ Orders \subseteq Nat
    /\ VramPages \in Nat
    /\ BUDDY_MAX_ORDER \in Nat
  BY BuddyConstants, PagesPositive DEF Frames, Orders
-----------------------------------------------------------------------------
(* buddy_alloc.                                                            *)

\* The order buddy_alloc computes and the list it takes a block from.
LEMMA AllocChoice ==
    ASSUME TypeOK, NEW size, CanAlloc(free_list, size)
    PROVE  LET order == FitOrder(size)
               i     == Min(Sources(free_list, order))
           IN  /\ order \in Orders
               /\ order \in Fitting(size)
               /\ i \in Orders
               /\ order <= i
               /\ free_list[i] # << >>
               /\ \A k \in Orders : order <= k /\ k < i => free_list[k] = << >>
<1> DEFINE order == FitOrder(size)
           i     == Min(Sources(free_list, order))
<1>1. Fitting(size) # {} /\ Sources(free_list, order) # {}
  BY DEF CanAlloc
<1>2. order \in Fitting(size)
  <2>1. Fitting(size) \in SUBSET Nat
    BY ConstantFacts DEF Fitting
  <2>2. QED
    BY <1>1, <2>1, MinProps DEF FitOrder
<1> HIDE DEF order
<1>3. i \in Sources(free_list, order) /\ \A y \in Sources(free_list, order) : i <= y
  <2>1. Sources(free_list, order) \in SUBSET Nat
    BY ConstantFacts DEF Sources
  <2>2. QED
    BY <1>1, <2>1, MinProps
<1> HIDE DEF i
<1>4. order \in Orders
  BY <1>2 DEF Fitting
<1>5. i \in Orders /\ i >= order /\ free_list[i] # << >>
  BY <1>3 DEF Sources
<1>6. ASSUME NEW k \in Orders, order <= k, k < i PROVE free_list[k] = << >>
  BY <1>3, <1>4, <1>5, <1>6, ConstantFacts DEF Sources
<1>7. QED
  BY <1>2, <1>4, <1>5, <1>6, ConstantFacts DEF order, i

\* What splitting a block of order i down to the given order leaves: the
\* right halves, and the left-most block that the caller gets.
Halves(off, order, i) == {<<off + Pages[k], k>> : k \in order .. (i - 1)}

\* The pieces lie within the block that was split ...
LEMMA SplitInside ==
    ASSUME NEW off \in Nat, NEW order \in Orders, NEW i \in Orders, order <= i
    PROVE  \A b \in Halves(off, order, i) \cup {<<off, order>>} :
               Span(b[1], b[2]) \subseteq Span(off, i)
<1>1. /\ order \in Nat /\ i \in Nat /\ i \in 0 .. BUDDY_MAX_ORDER
      /\ Pages[order] \in Nat /\ Pages[i] \in Nat /\ Pages[order] <= Pages[i]
  BY ConstantFacts, PagesPositive, PagesMonotone
<1>2. Span(off, order) \subseteq Span(off, i)
  BY <1>1 DEF Span
<1>3. ASSUME NEW k \in order .. (i - 1) PROVE Span(off + Pages[k], k) \subseteq Span(off, i)
  <2>1. k \in Orders /\ k + 1 \in 0 .. i
    BY <1>1, <1>3, ConstantFacts DEF Orders
  <2>2. Pages[k] \in Nat /\ Pages[k + 1] = Pages[k] + Pages[k] /\ Pages[k + 1] <= Pages[i]
    BY <1>1, <2>1, PagesPositive, PagesDouble, PagesMonotone
  <2>3. QED
    BY <1>1, <2>2 DEF Span
<1>4. QED
  BY <1>2, <1>3 DEF Halves

\* ... fill it ...
LEMMA SplitCovers ==
    ASSUME NEW off \in Nat, NEW order \in Orders, NEW i \in Orders, order <= i,
           NEW p \in Span(off, i)
    PROVE  \E b \in Halves(off, order, i) \cup {<<off, order>>} : p \in Span(b[1], b[2])
<1>1. /\ order \in Nat /\ i \in Nat /\ i \in 0 .. BUDDY_MAX_ORDER
      /\ p \in Int /\ off <= p /\ p < off + Pages[i]
  BY ConstantFacts, PagesPositive DEF Span
<1> DEFINE K == {k \in order .. i : p < off + Pages[k]}
<1>2. PICK k \in K : \A y \in K : k <= y
  <2>1. K # {} /\ K \in SUBSET Nat
    BY <1>1
  <2>2. QED
    BY <2>1, MinProps
<1>3. CASE k = order
  <2>1. p \in Span(off, order)
    BY <1>1, <1>2, <1>3, InSpan, ConstantFacts
  <2> DEFINE b == <<off, order>>
  <2>2. b \in Halves(off, order, i) \cup {<<off, order>>} /\ p \in Span(b[1], b[2])
    BY <2>1
  <2>3. QED
    BY <2>2
<1>4. CASE k # order
  <2> DEFINE j == k - 1
  <2>1. j \in order .. (i - 1) /\ j + 1 = k /\ j \in Orders /\ j \notin K
    BY <1>1, <1>2, <1>4, ConstantFacts DEF Orders
  <2>2. Pages[j] \in Nat /\ Pages[k] = Pages[j] + Pages[j]
    BY <2>1, PagesPositive, PagesDouble, ConstantFacts
  <2>3. ~(p < off + Pages[j])
    BY <1>1, <2>1
  <2>4. p \in Span(off + Pages[j], j)
    BY <1>1, <1>2, <2>2, <2>3 DEF Span
  <2>5. <<off + Pages[j], j>> \in Halves(off, order, i)
    BY <2>1 DEF Halves
  <2>6. QED
    BY <2>4, <2>5
<1>5. QED
  BY <1>3, <1>4

\* ... and do not overlap.
LEMMA SplitDisjoint ==
    ASSUME NEW off \in Nat, NEW order \in Orders, NEW i \in Orders, order <= i
    PROVE  Disjoint(Halves(off, order, i) \cup {<<off, order>>})
<1>1. order \in Nat /\ i \in Nat /\ i \in 0 .. BUDDY_MAX_ORDER
  BY ConstantFacts
<1>2. ASSUME NEW j \in order .. (i - 1), NEW k \in order .. (i - 1), j < k
      PROVE  Span(off + Pages[j], j) \cap Span(off + Pages[k], k) = {}
  <2>1. j \in Orders /\ j + 1 \in 0 .. BUDDY_MAX_ORDER /\ k \in (j + 1) .. BUDDY_MAX_ORDER
        /\ k \in 0 .. BUDDY_MAX_ORDER
    BY <1>1, <1>2, ConstantFacts DEF Orders
  <2>2. /\ Pages[j] \in Nat /\ Pages[k] \in Nat
        /\ Pages[j + 1] = Pages[j] + Pages[j] /\ Pages[j + 1] <= Pages[k]
    BY <2>1, PagesPositive, PagesDouble, PagesMonotone
  <2>3. QED
    BY <2>2 DEF Span
<1>3. ASSUME NEW k \in order .. (i - 1)
      PROVE  Span(off, order) \cap Span(off + Pages[k], k) = {}
  <2>1. k \in order .. BUDDY_MAX_ORDER /\ order \in 0 .. BUDDY_MAX_ORDER
    BY <1>1, <1>3, ConstantFacts
  <2>2. Pages[order] \in Nat /\ Pages[k] \in Nat /\ Pages[order] <= Pages[k]
    BY <2>1, PagesPositive, PagesMonotone, <1>1
  <2>3. QED
    BY <2>2 DEF Span
<1>4. ASSUME NEW j \in order .. (i - 1), NEW k \in order .. (i - 1), j # k
      PROVE  Span(off + Pages[j], j) \cap Span(off + Pages[k], k) = {}
  <2>1. j < k \/ k < j
    BY <1>1, <1>4
  <2>2. QED
    BY <1>2, <2>1
<1>5. SUFFICES ASSUME NEW b \in Halves(off, order, i) \cup {<<off, order>>},
                      NEW c \in Halves(off, order, i) \cup {<<off, order>>}, b # c
               PROVE  Span(b[1], b[2]) \cap Span(c[1], c[2]) = {}
  BY DEF Disjoint
<1>6. CASE b = <<off, order>> \/ c = <<off, order>>
  BY <1>3, <1>5, <1>6 DEF Halves
<1>7. CASE b \in Halves(off, order, i) /\ c \in Halves(off, order, i)
  <2>1. PICK j \in order .. (i - 1) : b = <<off + Pages[j], j>>
    BY <1>7 DEF Halves
  <2>2. PICK k \in order .. (i - 1) : c = <<off + Pages[k], k>>
    BY <1>7 DEF Halves
  <2>3. j # k
    BY <1>5, <2>1, <2>2
  <2>4. QED
    BY <1>4, <2>1, <2>2, <2>3
<1>8. QED
  BY <1>6, <1>7

\* The right halves are aligned.
LEMMA SplitAligned ==
    ASSUME NEW off \in Nat, NEW i \in Orders, Base(off, i) = off,
           NEW k \in 0 .. (i - 1)
    PROVE  /\ Base(off + Pages[k], k) = off + Pages[k]
           /\ BuddyOf(off + Pages[k], k) = off
<1> DEFINE p == Pages[k]
<1>1. k \in Orders /\ k \in 0 .. BUDDY_MAX_ORDER /\ k + 1 \in 0 .. i /\ i \in 0 .. BUDDY_MAX_ORDER
      /\ p \in Nat \ {0} /\ k \in 0 .. i /\ k + 1 \in 0 .. BUDDY_MAX_ORDER
  BY ConstantFacts, PagesPositive DEF Orders
<1>2. Base(off, k) = off /\ Base(off, k + 1) = off
  BY <1>1, AlignedDown
<1>3. BuddyOf(off, k) = off + p /\ Base(off, k) # off - p
  BY <1>1, <1>2, BaseStep
<1> HIDE DEF p
<1> DEFINE q == off \div p
<1>4. q \in Nat /\ off = q * p /\ (off \div p) = q
  BY <1>1, <1>2, BaseProps, DivMod DEF p
<1> HIDE DEF q
<1>5. off + p = ((q + 1) * p) + 0 /\ q + 1 \in Nat
  BY <1>1, <1>4
<1>6. ((off + p) % p) = 0 /\ ((off + p) \div p) = q + 1
  <2>1. p \in Nat \ {0} /\ 0 \in Nat /\ 0 < p
    BY <1>1
  <2>2. ((((q + 1) * p) + 0) % p) = 0 /\ ((((q + 1) * p) + 0) \div p) = q + 1
    BY <1>5, <2>1, ModUnique
  <2>3. QED
    BY <1>5, <2>2
<1>7. Base(off + p, k) = off + p
  BY <1>1, <1>6 DEF Base, p
<1>8. (q % 2) = 0
  BY <1>1, <1>3, <1>4 DEF BuddyOf, p
<1>9. ((q + 1) % 2) = 1
  BY <1>4, <1>8
<1>10. BuddyOf(off + p, k) = off
  BY <1>1, <1>6, <1>9 DEF BuddyOf, p
<1>11. QED
  BY <1>7, <1>10 DEF p

\* buddy_alloc preserves the invariant.
LEMMA AllocStep ==
    ASSUME IInv, NEW size \in Sizes, buddy_alloc(size)
    PROVE  IInv'
<1> DEFINE order == FitOrder(size)
           i     == Min(Sources(free_list, order))
           off   == Head(free_list[i])
<1>1. /\ CanAlloc(free_list, size)
      /\ free_list' = AllocLists(free_list, order)
      /\ page_order' = [page_order EXCEPT ![off] = order]
      /\ live' = [o \in DOMAIN live \cup {off} |-> IF o = off THEN size ELSE live[o]]
  BY DEF buddy_alloc, AllocOrders, AllocOffset
<1>2. free_list' = [k \in Orders |->
                      IF k = i THEN Tail(free_list[k])
                      ELSE IF k >= order /\ k < i THEN Cons(off + Pages[k], free_list[k])
                      ELSE free_list[k]]
  BY <1>1 DEF AllocLists
<1>3. /\ order \in Orders /\ order \in Fitting(size)
      /\ i \in Orders /\ order <= i /\ free_list[i] # << >>
      /\ \A k \in Orders : order <= k /\ k < i => free_list[k] = << >>
  BY <1>1, AllocChoice DEF IInv
<1>4. order = FitOrder(size)
  OBVIOUS
<1> HIDE DEF order, i
<1>5. /\ TypeOK
      /\ \A k \in Orders : free_list[k] \in Seq(Frames) /\ IsInjective(free_list[k])
      /\ order \in Nat /\ i \in Nat /\ i \in 0 .. BUDDY_MAX_ORDER
  BY <1>3, ConstantFacts DEF IInv, TypeOK, BlocksDisjoint
<1>6. /\ off \in Range(free_list[i])
      /\ Tail(free_list[i]) \in Seq(Frames)
      /\ Range(Tail(free_list[i])) = Range(free_list[i]) \ {off}
      /\ IsInjective(Tail(free_list[i]))
  BY <1>3, <1>5, TailList
<1> HIDE DEF off
<1>7. off \in Frames /\ off \in Nat /\ <<off, i>> \in FreeBlocks
  BY <1>3, <1>5, <1>6, BlockFacts, RangeOfSeq, ConstantFacts
<1>8. Base(off, i) = off /\ Span(off, i) \subseteq Frames
  BY <1>7 DEF IInv, BlocksPlaced, Blocks
<1>9. off \in Span(off, i)
  BY <1>5, <1>7, PagesPositive DEF Span
<1>10. off \notin DOMAIN live
  <2>1. SUFFICES ASSUME off \in DOMAIN live PROVE FALSE
    OBVIOUS
  <2>2. <<off, page_order[off]>> \in LiveBlocks /\ page_order[off] \in 0 .. BUDDY_MAX_ORDER
    BY <1>5, <1>7, <2>1, BlockFacts, ConstantFacts DEF TypeOK
  <2>3. off \in Span(off, page_order[off])
    BY <1>7, <2>2, PagesPositive DEF Span
  <2>4. <<off, page_order[off]>> # <<off, i>>
    BY <1>7, <2>2 DEF IInv, BlocksDisjoint
  <2>5. Span(off, page_order[off]) \cap Span(off, i) = {}
    BY <1>7, <2>2, <2>4 DEF IInv, BlocksDisjoint
  <2>6. QED
    BY <1>9, <2>3, <2>5
<1> DEFINE H == Halves(off, order, i)
           Q == H \cup {<<off, order>>}
<1>11. \A k \in order .. (i - 1) :
          /\ k \in Orders /\ k \in 0 .. (i - 1)
          /\ off + Pages[k] \in Frames
          /\ Base(off + Pages[k], k) = off + Pages[k]
          /\ BuddyOf(off + Pages[k], k) = off
          /\ Span(off + Pages[k], k) \subseteq Frames
  <2>1. SUFFICES ASSUME NEW k \in order .. (i - 1)
                 PROVE  /\ k \in Orders /\ k \in 0 .. (i - 1)
                        /\ off + Pages[k] \in Frames
                        /\ Base(off + Pages[k], k) = off + Pages[k]
                        /\ BuddyOf(off + Pages[k], k) = off
                        /\ Span(off + Pages[k], k) \subseteq Frames
    OBVIOUS
  <2>2. k \in Orders /\ k \in 0 .. (i - 1) /\ Pages[k] \in Nat \ {0}
    BY <1>3, <1>5, ConstantFacts, PagesPositive DEF Orders
  <2>3. Span(off + Pages[k], k) \subseteq Span(off, i)
    <3>1. <<off + Pages[k], k>> \in H
      BY <2>1 DEF Halves
    <3>2. QED
      BY <1>3, <1>7, <3>1, SplitInside
  <2>4. off + Pages[k] \in Span(off + Pages[k], k)
    BY <1>7, <2>2 DEF Span
  <2>5. QED
    BY <1>3, <1>7, <1>8, <2>2, <2>3, <2>4, SplitAligned
<1>12. ASSUME NEW k \in Orders
       PROVE  /\ free_list'[k] \in Seq(Frames)
              /\ IsInjective(free_list'[k])
              /\ Range(free_list'[k]) =
                    IF k = i THEN Range(free_list[k]) \ {off}
                    ELSE IF k >= order /\ k < i THEN {off + Pages[k]}
                    ELSE Range(free_list[k])
  <2>1. CASE k = i
    BY <1>2, <1>6, <2>1
  <2>2. CASE k >= order /\ k < i
    <3>1. k \in order .. (i - 1) /\ k # i
      BY <1>5, <2>2, ConstantFacts
    <3>2. free_list'[k] = Cons(off + Pages[k], free_list[k])
      BY <1>2, <2>2, <3>1
    <3>3. free_list[k] = << >> /\ off + Pages[k] \in Frames
      BY <1>3, <1>5, <1>11, <2>2, <3>1, ConstantFacts
    <3>4. Range(free_list[k]) = {}
      BY <3>3 DEF Range
    <3>5. QED
      BY <1>5, <2>2, <3>1, <3>2, <3>3, <3>4, ConsList
  <2>3. CASE k # i /\ ~(k >= order /\ k < i)
    BY <1>2, <1>5, <2>3
  <2>4. QED
    BY <2>1, <2>2, <2>3
<1>13. TypeOK'
  <2>1. free_list' \in [Orders -> Seq(Frames)]
    BY <1>2, <1>12
  <2>2. page_order' \in [Frames -> Orders]
    BY <1>1, <1>3, <1>5, <1>7 DEF TypeOK
  <2>3. DOMAIN live' \subseteq Frames /\ live' \in [DOMAIN live' -> Sizes]
    BY <1>1, <1>5, <1>7 DEF TypeOK
  <2>4. QED
    BY <2>1, <2>2, <2>3 DEF TypeOK
<1>14. ASSUME NEW o \in DOMAIN live PROVE page_order'[o] = page_order[o] /\ live'[o] = live[o]
  BY <1>1, <1>5, <1>10 DEF TypeOK
<1>15. page_order'[off] = order /\ live'[off] = size
  BY <1>1, <1>5, <1>7 DEF TypeOK
<1>16. FreeBlocks' = (FreeBlocks \ {<<off, i>>}) \cup H
  <2>1. ASSUME NEW o \in Frames, NEW k \in Orders
        PROVE  <<o, k>> \in FreeBlocks' <=> <<o, k>> \in (FreeBlocks \ {<<off, i>>}) \cup H
    <3>1. <<o, k>> \in FreeBlocks' <=> o \in Range(free_list'[k])
      BY DEF FreeBlocks
    <3>2. <<o, k>> \in FreeBlocks <=> o \in Range(free_list[k])
      BY DEF FreeBlocks
    <3>3. <<o, k>> \in H <=> k \in order .. (i - 1) /\ o = off + Pages[k]
      BY DEF Halves
    <3>4. k \in order .. (i - 1) <=> k >= order /\ k < i
      BY <1>5, ConstantFacts
    <3>5. CASE k >= order /\ k < i
      <4>1. k # i /\ Range(free_list[k]) = {}
        <5>1. free_list[k] = << >>
          BY <1>3, <1>5, <3>5, ConstantFacts
        <5>2. QED
          BY <1>5, <3>5, <5>1, ConstantFacts DEF Range
      <4>2. QED
        BY <1>12, <3>1, <3>2, <3>3, <3>4, <3>5, <4>1
    <3>6. CASE ~(k >= order /\ k < i)
      BY <1>12, <3>1, <3>2, <3>3, <3>4, <3>6
    <3>7. QED
      BY <3>5, <3>6
  <2>2. FreeBlocks' \subseteq Frames \X Orders /\ FreeBlocks \subseteq Frames \X Orders
    BY DEF FreeBlocks
  <2>3. H \subseteq Frames \X Orders
    BY <1>11 DEF Halves
  <2>4. QED
    BY <2>1, <2>2, <2>3
<1>17. LiveBlocks' = LiveBlocks \cup {<<off, order>>}
  <2>1. DOMAIN live' = DOMAIN live \cup {off}
    BY <1>1
  <2>2. QED
    BY <1>14, <1>15, <2>1 DEF LiveBlocks
<1>18. Blocks' = (Blocks \ {<<off, i>>}) \cup Q
  <2>1. <<off, i>> \notin LiveBlocks
    BY <1>7 DEF IInv, BlocksDisjoint
  <2>2. QED
    BY <1>16, <1>17, <2>1 DEF Blocks
<1>19. Disjoint(Blocks) /\ \A p \in Frames : \E b \in Blocks : p \in Span(b[1], b[2])
  BY DEF IInv, BlocksDisjoint, Disjoint, NoPageLost, Blocks
<1>20. Disjoint(Blocks')
  <2>1. \A q \in Q : \A p \in Span(q[1], q[2]) :
            \E r \in {<<off, i>>} : p \in Span(r[1], r[2])
    BY <1>3, <1>7, SplitInside
  <2>2. Disjoint(Q)
    BY <1>3, <1>7, SplitDisjoint
  <2>3. {<<off, i>>} \subseteq Blocks
    BY <1>7 DEF Blocks
  <2> HIDE DEF Q
  <2>4. QED
    BY <1>18, <1>19, <2>1, <2>2, <2>3, ReplaceDisjoint
<1>21. NoPageLost'
  <2>1. \A r \in {<<off, i>>} : \A p \in Span(r[1], r[2]) :
            \E q \in Q : p \in Span(q[1], q[2])
    BY <1>3, <1>7, SplitCovers
  <2> HIDE DEF Q
  <2>2. \A p \in Frames : \E b \in Blocks' : p \in Span(b[1], b[2])
    BY <1>18, <1>19, <2>1, ReplaceCovers
  <2>3. QED
    BY <2>2 DEF NoPageLost, Blocks
<1>22. (FreeBlocks \cap LiveBlocks)' = {}
  <2>1. ASSUME NEW k \in order .. (i - 1) PROVE <<off + Pages[k], k>> \notin LiveBlocks'
    <3>1. SUFFICES ASSUME <<off + Pages[k], k>> \in LiveBlocks PROVE FALSE
      <4>1. Pages[k] # 0 /\ Pages[k] \in Nat
        BY <1>11, ConstantFacts, PagesPositive
      <4>2. QED
        BY <1>7, <1>17, <4>1
    <3>2. <<off + Pages[k], k>> # <<off, i>>
      BY <1>7, <3>1 DEF IInv, BlocksDisjoint
    <3>3. Span(off + Pages[k], k) \cap Span(off, i) = {}
      BY <1>7, <3>1, <3>2 DEF IInv, BlocksDisjoint
    <3>4. Span(off + Pages[k], k) \subseteq Span(off, i)
      <4>1. <<off + Pages[k], k>> \in H
        BY <2>1 DEF Halves
      <4>2. QED
        BY <1>3, <1>7, <4>1, SplitInside
    <3>5. off + Pages[k] \in Span(off + Pages[k], k)
      <4>1. Pages[k] # 0 /\ Pages[k] \in Nat
        BY <1>11, ConstantFacts, PagesPositive
      <4>2. QED
        BY <1>7, <4>1 DEF Span
    <3>6. QED
      BY <3>3, <3>4, <3>5
  <2>2. <<off, order>> \notin FreeBlocks \/ order = i
    <3>1. SUFFICES ASSUME <<off, order>> \in FreeBlocks, order # i PROVE FALSE
      OBVIOUS
    <3>2. free_list[order] # << >>
      BY <3>1, <1>5, BlockFacts DEF Range
    <3>3. QED
      BY <1>3, <1>5, <3>1, <3>2
  <2>3. <<off, order>> \notin H
    <3>1. \A k \in order .. (i - 1) : Pages[k] \in Nat \ {0}
      BY <1>11, ConstantFacts, PagesPositive
    <3>2. QED
      BY <1>7, <3>1 DEF Halves
  <2>4. FreeBlocks \cap LiveBlocks = {}
    BY DEF IInv, BlocksDisjoint
  <2>5. H \cap LiveBlocks' = {}
    BY <2>1 DEF Halves
  <2>6. QED
    BY <1>16, <1>17, <2>2, <2>3, <2>4, <2>5
<1>23. BlocksDisjoint'
  BY <1>12, <1>20, <1>22 DEF BlocksDisjoint, Disjoint, Blocks
<1>24. BlocksPlaced'
  <2>1. Base(off, order) = off
    BY <1>3, <1>5, <1>7, <1>8, AlignedDown, ConstantFacts
  <2>2. Span(off, order) \subseteq Frames
    <3>1. \A b \in Q : Span(b[1], b[2]) \subseteq Span(off, i)
      BY <1>3, <1>7, SplitInside
    <3> DEFINE b == <<off, order>>
    <3>2. b \in Q /\ b[1] = off /\ b[2] = order
      OBVIOUS
    <3> HIDE DEF b, Q
    <3>3. QED
      BY <1>8, <3>1, <3>2
  <2>3. \A b \in Q : Base(b[1], b[2]) = b[1] /\ Span(b[1], b[2]) \subseteq Frames
    BY <1>11, <2>1, <2>2 DEF Halves
  <2>4. QED
    BY <1>18, <2>3 DEF IInv, BlocksPlaced
<1>25. OrderKept' /\ LiveFits'
  <2>1. DOMAIN live' = DOMAIN live \cup {off}
    BY <1>1
  <2>2. page_order'[off] = FitOrder(live'[off]) /\ Fitting(live'[off]) # {}
    BY <1>3, <1>4, <1>15
  <2>3. \A o \in DOMAIN live : page_order[o] = FitOrder(live[o]) /\ Fitting(live[o]) # {}
    BY DEF IInv, OrderKept, LiveFits
  <2>4. QED
    BY <1>14, <2>1, <2>2, <2>3 DEF OrderKept, LiveFits
<1>26. Coalesced'
  <2>1. SUFFICES ASSUME NEW k \in Orders, NEW o \in Range(free_list'[k])
                 PROVE  BuddyOf(o, k) \notin Range(free_list'[k])
    BY DEF Coalesced
  <2>2. CASE k >= order /\ k < i
    <3>1. k \in order .. (i - 1) /\ k # i /\ Pages[k] \in Nat \ {0}
      BY <1>5, <2>2, ConstantFacts, PagesPositive
    <3>2. Range(free_list'[k]) = {off + Pages[k]} /\ o = off + Pages[k]
      BY <1>12, <2>1, <2>2, <3>1
    <3>3. BuddyOf(o, k) = off
      BY <1>11, <3>1, <3>2
    <3>4. QED
      BY <1>7, <3>1, <3>2, <3>3
  <2>3. CASE ~(k >= order /\ k < i)
    <3>1. Range(free_list'[k]) \subseteq Range(free_list[k])
      BY <1>12, <2>3
    <3>2. QED
      BY <2>1, <3>1 DEF IInv, Coalesced
  <2>4. QED
    BY <2>2, <2>3
<1>27. QED
  BY <1>13, <1>21, <1>23, <1>24, <1>25, <1>26 DEF IInv
-----------------------------------------------------------------------------
(* buddy_free.                                                             *)

\* The block of the largest order around any page starts at 0, and its buddy
\* would start at or beyond the end of the VRAM.
LEMMA TopBuddyOutside ==
    ASSUME NEW off \in Frames
    PROVE  /\ BUDDY_MAX_ORDER - 1 \in Orders
           /\ BuddyOf(Base(off, BUDDY_MAX_ORDER - 1), BUDDY_MAX_ORDER - 1) \notin Frames
<1> DEFINE k == BUDDY_MAX_ORDER - 1
           p == Pages[k]
<1>1. k \in Orders /\ k \in 0 .. BUDDY_MAX_ORDER /\ off \in Nat
  BY BuddyConstants, ConstantFacts DEF Orders
<1>2. p \in Nat \ {0} /\ VramPages \in Nat /\ VramPages <= p /\ off < p
  BY <1>1, PagesPositive, BuddyConstants DEF Frames
<1> HIDE DEF k, p
<1>3. (off % p) = off
  BY <1>1, <1>2
<1>4. Base(off, k) = 0
  BY <1>1, <1>3 DEF Base, p
<1>5. BuddyOf(0, k) = p
  BY <1>2 DEF BuddyOf, p
<1>6. p \notin Frames
  BY <1>2 DEF Frames
<1>7. QED
  BY <1>1, <1>4, <1>5, <1>6 DEF k

\* Where the recursion of buddy_free stops.
LEMMA FreeChoice ==
    ASSUME TypeOK, NEW off \in Frames, NEW order \in Orders
    PROVE  LET m == Min(Stops(free_list, off, order))
           IN  /\ Stops(free_list, off, order) # {}
               /\ m \in Orders
               /\ order <= m
               /\ BuddyOf(Base(off, m), m) \notin Range(free_list[m])
               /\ \A k \in Orders : order <= k /\ k < m =>
                      BuddyOf(Base(off, k), k) \in Range(free_list[k])
<1> DEFINE S == Stops(free_list, off, order)
           m == Min(S)
<1>1. S # {}
  <2> DEFINE k == BUDDY_MAX_ORDER - 1
  <2>1. k \in Orders /\ BuddyOf(Base(off, k), k) \notin Frames
    BY TopBuddyOutside
  <2>2. k >= order
    BY ConstantFacts DEF Orders
  <2> HIDE DEF k
  <2>3. Range(free_list[k]) \subseteq Frames
    BY <2>1, RangeOfSeq DEF TypeOK
  <2>4. QED
    BY <2>1, <2>2, <2>3 DEF Stops
<1>2. S \in SUBSET Nat
  BY ConstantFacts DEF Stops
<1>3. m \in S /\ \A y \in S : m <= y
  BY <1>1, <1>2, MinProps
<1> HIDE DEF m
<1>4. m \in Orders /\ m >= order /\ BuddyOf(Base(off, m), m) \notin Range(free_list[m])
  BY <1>3 DEF Stops
<1>5. ASSUME NEW k \in Orders, order <= k, k < m
      PROVE  BuddyOf(Base(off, k), k) \in Range(free_list[k])
  BY <1>3, <1>4, <1>5, ConstantFacts DEF Stops
<1>6. QED
  BY <1>1, <1>4, <1>5, ConstantFacts DEF m

\* The buddies that a free of off at the given order merges with on its way
\* to order m.
Merged(off, order, m) == {<<BuddyOf(Base(off, k), k), k>> : k \in order .. (m - 1)}

\* The merged block holds exactly the pages of the freed block and of the
\* buddies.
LEMMA MergeCovered ==
    ASSUME NEW off \in Nat, NEW order \in Orders, NEW m \in Orders, order <= m,
           Base(off, order) = off, NEW p \in Span(Base(off, m), m)
    PROVE  \E b \in Merged(off, order, m) \cup {<<off, order>>} : p \in Span(b[1], b[2])
<1>1. order \in Nat /\ m \in Nat /\ m \in 0 .. BUDDY_MAX_ORDER /\ order \in 0 .. BUDDY_MAX_ORDER
  BY ConstantFacts
<1> DEFINE K == {k \in order .. m : p \in Span(Base(off, k), k)}
<1>2. PICK k \in K : \A y \in K : k <= y
  <2>1. K # {} /\ K \in SUBSET Nat
    BY <1>1
  <2>2. QED
    BY <2>1, MinProps
<1>3. CASE k = order
  <2> DEFINE b == <<off, order>>
  <2>1. b \in Merged(off, order, m) \cup {<<off, order>>} /\ b[1] = off /\ b[2] = order
    OBVIOUS
  <2>2. p \in Span(off, order)
    BY <1>2, <1>3
  <2> HIDE DEF b
  <2>3. QED
    BY <2>1, <2>2
<1>4. CASE k # order
  <2> DEFINE j == k - 1
             b == <<BuddyOf(Base(off, j), j), j>>
  <2>1. j \in order .. (m - 1) /\ j + 1 = k /\ j \in Orders /\ j \in order .. m /\ ~(k <= j)
    BY <1>1, <1>2, <1>4, ConstantFacts DEF Orders
  <2>2. j \notin K /\ p \in Span(Base(off, k), k)
    BY <1>2, <2>1
  <2>3. p \notin Span(Base(off, j), j)
    BY <2>1, <2>2
  <2>4. p \in Span(BuddyOf(Base(off, j), j), j)
    BY <2>1, <2>2, <2>3, SpanStep
  <2>5. b \in Merged(off, order, m) /\ b[1] = BuddyOf(Base(off, j), j) /\ b[2] = j
    BY <2>1 DEF Merged
  <2> HIDE DEF b
  <2>6. QED
    BY <2>4, <2>5
<1>5. QED
  BY <1>3, <1>4

\* A merged block holds the freed one and the buddies it met on the way.
LEMMA MergeCovers ==
    ASSUME NEW off \in Nat, NEW order \in Orders, NEW m \in Orders, order <= m,
           Base(off, order) = off
    PROVE  /\ Span(off, order) \subseteq Span(Base(off, m), m)
           /\ \A k \in order .. (m - 1) :
                  Span(BuddyOf(Base(off, k), k), k) \subseteq Span(Base(off, m), m)
<1>1. order \in Nat /\ m \in Nat /\ m \in 0 .. BUDDY_MAX_ORDER /\ order \in 0 .. BUDDY_MAX_ORDER
      /\ BUDDY_MAX_ORDER \in Nat
  BY ConstantFacts
<1>2. ASSUME NEW k \in order .. m
      PROVE  Span(Base(off, k), k) \subseteq Span(Base(off, m), m)
  <2>1. k \in 0 .. BUDDY_MAX_ORDER /\ m \in k .. BUDDY_MAX_ORDER
    BY <1>1
  <2>2. /\ Base(off, m) <= Base(off, k)
        /\ Base(off, k) + Pages[k] <= Base(off, m) + Pages[m]
        /\ Base(off, k) \in Nat /\ Base(off, m) \in Nat
        /\ Pages[k] \in Nat /\ Pages[m] \in Nat
    BY <1>1, <2>1, BaseNested, BaseProps, PagesPositive
  <2>3. QED
    BY <2>2 DEF Span
<1>3. Span(off, order) \subseteq Span(Base(off, m), m)
  BY <1>1, <1>2
<1>4. ASSUME NEW k \in order .. (m - 1)
      PROVE  Span(BuddyOf(Base(off, k), k), k) \subseteq Span(Base(off, m), m)
  <2>1. k \in Orders /\ k + 1 \in order .. m
    BY <1>1 DEF Orders
  <2>2. Span(BuddyOf(Base(off, k), k), k) \subseteq Span(Base(off, k + 1), k + 1)
    BY <2>1, SpanStep
  <2>3. QED
    BY <1>2, <2>1, <2>2
<1>5. QED
  BY <1>3, <1>4

\* Being buddies is symmetric.
LEMMA BuddySymmetric ==
    ASSUME NEW o \in Nat, NEW k \in Orders, Base(o, k) = o
    PROVE  BuddyOf(BuddyOf(o, k), k) = o
<1> DEFINE p == Pages[k]
<1>1. p \in Nat \ {0} /\ k \in 0 .. BUDDY_MAX_ORDER
  BY ConstantFacts, PagesPositive
<1> HIDE DEF p
<1> DEFINE q == o \div p
<1>2. q \in Nat /\ o = q * p
  BY <1>1, BaseProps, DivMod DEF p
<1> HIDE DEF q
<1>3. CASE (q % 2) = 0
  <2>1. BuddyOf(o, k) = o + p
    BY <1>3 DEF BuddyOf, p, q
  <2>2. o + p = ((q + 1) * p) + 0 /\ q + 1 \in Nat /\ 0 < p
    BY <1>1, <1>2
  <2>3. ((((q + 1) * p) + 0) \div p) = q + 1
    BY <1>1, <2>2, ModUnique
  <2>4. ((q + 1) % 2) = 1
    BY <1>2, <1>3
  <2>5. ((o + p) \div p) = q + 1
    BY <2>2, <2>3
  <2>6. BuddyOf(o + p, k) = (o + p) - p
    BY <2>4, <2>5 DEF BuddyOf, p
  <2>7. QED
    BY <1>1, <2>1, <2>6
<1>4. CASE (q % 2) = 1
  <2>1. BuddyOf(o, k) = o - p
    BY <1>4 DEF BuddyOf, p, q
  <2>2. q # 0 /\ q - 1 \in Nat
    BY <1>2, <1>4
  <2>3. o - p = ((q - 1) * p) + 0 /\ 0 < p
    BY <1>1, <1>2, <2>2
  <2>4. ((((q - 1) * p) + 0) \div p) = q - 1
    BY <1>1, <2>2, <2>3, ModUnique
  <2>5. ((q - 1) % 2) = 0
    BY <1>2, <1>4
  <2>6. ((o - p) \div p) = q - 1
    BY <2>3, <2>4
  <2>7. BuddyOf(o - p, k) = (o - p) + p
    BY <2>5, <2>6 DEF BuddyOf, p
  <2>8. QED
    BY <1>1, <2>1, <2>7
<1>5. QED
  BY <1>2, <1>3, <1>4

\* buddy_free preserves the invariant.
LEMMA FreeStep ==
    ASSUME IInv, NEW off \in DOMAIN live, buddy_free(off)
    PROVE  IInv'
<1> DEFINE order == page_order[off]
           m     == Min(Stops(free_list, off, order))
           top   == Base(off, m)
           R     == Merged(off, order, m) \cup {<<off, order>>}
<1>1. /\ TypeOK
      /\ off \in Frames /\ off \in Nat /\ order \in Orders
      /\ \A k \in Orders : free_list[k] \in Seq(Frames) /\ IsInjective(free_list[k])
  BY ConstantFacts DEF IInv, TypeOK, BlocksDisjoint
<1>2. /\ free_list' = [k \in Orders |->
                         IF k = m THEN Cons(Base(off, k), free_list[k])
                         ELSE IF k >= order /\ k < m
                              THEN RemoveFirst(free_list[k], BuddyOf(Base(off, k), k))
                         ELSE free_list[k]]
      /\ live' = [o \in DOMAIN live \ {off} |-> live[o]]
  BY DEF buddy_free, FreeLists
<1>3. page_order' = [p \in Frames |->
                       IF {k \in (order + 1) .. m : Base(off, k) = p} # {}
                       THEN Max({k \in (order + 1) .. m : Base(off, k) = p})
                       ELSE page_order[p]]
  BY <1>1 DEF buddy_free, FreeOrders, TypeOK
<1>4. /\ m \in Orders /\ order <= m
      /\ BuddyOf(Base(off, m), m) \notin Range(free_list[m])
      /\ \A k \in Orders : order <= k /\ k < m =>
             BuddyOf(Base(off, k), k) \in Range(free_list[k])
  BY <1>1, FreeChoice
<1> HIDE DEF order, m
<1>5. order \in Nat /\ m \in Nat /\ m \in 0 .. BUDDY_MAX_ORDER /\ order \in 0 .. BUDDY_MAX_ORDER
  BY <1>1, <1>4, ConstantFacts
<1>6. <<off, order>> \in LiveBlocks
  BY <1>1, BlockFacts DEF order
<1>7. Base(off, order) = off /\ Span(off, order) \subseteq Frames
  BY <1>6 DEF IInv, BlocksPlaced, Blocks
<1>8. \A k \in order .. (m - 1) :
         k \in Orders /\ order <= k /\ k < m /\ <<BuddyOf(Base(off, k), k), k>> \in FreeBlocks
  <2>1. \A k \in order .. (m - 1) : k \in Orders /\ order <= k /\ k < m
    BY <1>1, <1>4, <1>5, ConstantFacts DEF Orders
  <2>2. QED
    BY <1>1, <1>4, <2>1, BlockFacts
<1>9. R \subseteq Blocks /\ Merged(off, order, m) \subseteq FreeBlocks
  BY <1>6, <1>8 DEF Merged, Blocks
<1>10. \A p \in Span(top, m) : \E r \in R : p \in Span(r[1], r[2])
  BY <1>1, <1>4, <1>7, MergeCovered
<1>11. \A r \in R : Span(r[1], r[2]) \subseteq Span(top, m)
  BY <1>1, <1>4, <1>7, MergeCovers DEF Merged
<1>12. /\ top \in Nat /\ top <= off /\ off < top + Pages[m]
       /\ (top % Pages[m]) = 0 /\ Pages[m] \in Nat \ {0}
  BY <1>1, <1>5, BaseProps, PagesPositive
<1>13. Base(top, m) = top
  BY <1>5, <1>12, BaseAligned
<1>14. Span(top, m) \subseteq Frames
  BY <1>9, <1>10 DEF IInv, BlocksPlaced
<1>15. top \in Frames /\ top \in Span(top, m) /\ off \in Span(top, m)
  BY <1>1, <1>12, <1>14 DEF Span
<1> HIDE DEF R
<1>16. ASSUME NEW b \in Blocks, NEW p \in Span(top, m), p \in Span(b[1], b[2])
       PROVE  b \in R
  <2>1. PICK r \in R : p \in Span(r[1], r[2])
    BY <1>10
  <2>2. QED
    BY <1>9, <1>16, <2>1 DEF IInv, BlocksDisjoint, Blocks
<1>17. \A b \in Blocks : b[1] \in Frames /\ b[2] \in Orders /\ b[1] \in Span(b[1], b[2])
  <2>1. \A b \in Blocks : b \in Frames \X Orders
    BY <1>1, BlockFacts DEF Blocks
  <2>2. \A o \in Frames, k \in Orders : o \in Span(o, k)
    BY ConstantFacts, PagesPositive DEF Span
  <2>3. QED
    BY <2>1, <2>2
<1>18. top \notin Range(free_list[m])
  <2>1. SUFFICES ASSUME top \in Range(free_list[m]) PROVE FALSE
    OBVIOUS
  <2>2. <<top, m>> \in FreeBlocks
    BY <1>1, <1>4, <2>1, BlockFacts
  <2>3. <<top, m>> \in R
    <3> DEFINE b == <<top, m>>
    <3>1. b \in Blocks /\ b[1] = top /\ b[2] = m
      BY <2>2 DEF Blocks
    <3> HIDE DEF b
    <3>2. b \in R
      BY <1>15, <1>16, <3>1
    <3>3. QED
      BY <3>2 DEF b
  <2>4. <<top, m>> \notin Merged(off, order, m)
    BY <1>5 DEF Merged
  <2>5. <<top, m>> \notin LiveBlocks
    BY <2>2 DEF IInv, BlocksDisjoint
  <2>6. QED
    BY <1>6, <2>3, <2>4, <2>5 DEF R
<1>19. ASSUME NEW k \in Orders
       PROVE  /\ free_list'[k] \in Seq(Frames)
              /\ IsInjective(free_list'[k])
              /\ Range(free_list'[k]) =
                    IF k = m THEN Range(free_list[k]) \cup {top}
                    ELSE IF k >= order /\ k < m
                         THEN Range(free_list[k]) \ {BuddyOf(Base(off, k), k)}
                    ELSE Range(free_list[k])
  <2>1. CASE k = m
    <3> DEFINE s == free_list[k]
    <3>1. free_list'[k] = Cons(top, s)
      BY <1>2, <2>1
    <3>2. s \in Seq(Frames) /\ IsInjective(s) /\ top \notin Range(s)
      BY <1>1, <1>18, <2>1
    <3> HIDE DEF s, top
    <3>3. /\ Cons(top, s) \in Seq(Frames)
          /\ Range(Cons(top, s)) = Range(s) \cup {top}
          /\ IsInjective(Cons(top, s))
      BY <1>15, <3>2, ConsList
    <3>4. QED
      BY <2>1, <3>1, <3>3 DEF s
  <2>2. CASE k # m /\ k >= order /\ k < m
    <3> DEFINE c == BuddyOf(Base(off, k), k)
               s == free_list[k]
    <3>1. free_list'[k] = RemoveFirst(s, c)
      BY <1>2, <2>2
    <3>2. c \in Range(s)
      BY <1>4, <1>5, <2>2, ConstantFacts
    <3>3. s \in Seq(Frames) /\ IsInjective(s)
      BY <1>1
    <3> HIDE DEF c, s
    <3>4. /\ RemoveFirst(s, c) \in Seq(Frames)
          /\ Range(RemoveFirst(s, c)) = Range(s) \ {c}
          /\ IsInjective(RemoveFirst(s, c))
      BY <3>2, <3>3, RemoveList
    <3>5. QED
      BY <2>2, <3>1, <3>4 DEF c, s
  <2>3. CASE k # m /\ ~(k >= order /\ k < m)
    BY <1>1, <1>2, <2>3
  <2>4. QED
    BY <2>1, <2>2, <2>3
<1>20. DOMAIN live' = DOMAIN live \ {off} /\ \A o \in DOMAIN live \ {off} : live'[o] = live[o]
  BY <1>2
<1>21. ASSUME NEW o \in DOMAIN live \ {off} PROVE page_order'[o] = page_order[o]
  <2>1. SUFFICES ASSUME NEW k \in (order + 1) .. m, Base(off, k) = o PROVE FALSE
    BY <1>1, <1>3 DEF TypeOK
  <2>2. k \in 0 .. BUDDY_MAX_ORDER /\ m \in k .. BUDDY_MAX_ORDER
    BY <1>5, ConstantFacts
  <2>3. /\ top <= o /\ o + Pages[k] <= top + Pages[m]
        /\ Pages[k] \in Nat \ {0} /\ o \in Nat
    <3>1. Base(off, m) <= Base(off, k) /\ Base(off, k) + Pages[k] <= Base(off, m) + Pages[m]
      BY <1>1, <2>2, BaseNested
    <3>2. Base(off, k) \in Nat /\ Pages[k] \in Nat \ {0}
      BY <1>1, <2>2, BaseProps, PagesPositive
    <3>3. QED
      BY <2>1, <3>1, <3>2
  <2>4. o \in Span(top, m)
    <3>1. top \in Nat /\ Pages[m] \in Nat
      BY <1>12
    <3> HIDE DEF top
    <3>2. top <= o /\ o < top + Pages[m]
      BY <2>3, <3>1
    <3>3. QED
      BY <1>5, <2>3, <3>1, <3>2, InSpan
  <2> DEFINE b == <<o, page_order[o]>>
  <2>5. b \in LiveBlocks /\ b[1] = o
    BY <1>1, BlockFacts
  <2>6. b # <<off, order>>
    OBVIOUS
  <2> HIDE DEF b
  <2>7. b \in R
    BY <1>16, <1>17, <2>4, <2>5 DEF Blocks
  <2>8. b \in FreeBlocks
    BY <1>9, <2>6, <2>7 DEF R
  <2>9. QED
    BY <2>5, <2>8 DEF IInv, BlocksDisjoint
<1>22. TypeOK'
  <2>1. free_list' \in [Orders -> Seq(Frames)]
    BY <1>2, <1>19
  <2>2. page_order' \in [Frames -> Orders]
    <3>1. SUFFICES ASSUME NEW p \in Frames PROVE page_order'[p] \in Orders
      BY <1>3
    <3> DEFINE K == {k \in (order + 1) .. m : Base(off, k) = p}
    <3>2. K # {} => Max(K) \in K
      <4>1. ASSUME K # {} PROVE \E x \in K : \A y \in K : x >= y
        <5> DEFINE D == {m - k : k \in K}
        <5>1. D # {} /\ D \in SUBSET Nat
          BY <1>5, <4>1
        <5>2. PICK d \in D : \A y \in D : d <= y
          BY <5>1, MinProps
        <5>3. PICK x \in K : d = m - x
          BY <5>2
        <5>4. \A y \in K : x >= y
          <6>1. SUFFICES ASSUME NEW y \in K PROVE x >= y
            OBVIOUS
          <6>2. m - y \in D /\ x \in Nat /\ y \in Nat
            BY <1>5
          <6>3. m - x <= m - y
            BY <5>2, <5>3, <6>2
          <6>4. QED
            BY <1>5, <6>2, <6>3
        <5>5. QED
          BY <5>4
      <4>2. QED
        BY <4>1 DEF Max
    <3>3. K \subseteq Orders
      BY <1>4, <1>5, ConstantFacts DEF Orders
    <3>4. page_order'[p] = IF K # {} THEN Max(K) ELSE page_order[p]
      BY <1>3
    <3> HIDE DEF K
    <3>5. QED
      BY <1>1, <3>2, <3>3, <3>4 DEF TypeOK
  <2>3. DOMAIN live' \subseteq Frames /\ live' \in [DOMAIN live' -> Sizes]
    BY <1>1, <1>2 DEF TypeOK
  <2>4. QED
    BY <2>1, <2>2, <2>3 DEF TypeOK
<1>23. LiveBlocks' = LiveBlocks \ {<<off, order>>}
  BY <1>20, <1>21 DEF LiveBlocks, order
<1>24. FreeBlocks' = (FreeBlocks \ Merged(off, order, m)) \cup {<<top, m>>}
  <2>1. ASSUME NEW o \in Frames, NEW k \in Orders
        PROVE  <<o, k>> \in FreeBlocks' <=>
                  <<o, k>> \in (FreeBlocks \ Merged(off, order, m)) \cup {<<top, m>>}
    <3>1. <<o, k>> \in FreeBlocks' <=> o \in Range(free_list'[k])
      BY DEF FreeBlocks
    <3>2. <<o, k>> \in FreeBlocks <=> o \in Range(free_list[k])
      BY DEF FreeBlocks
    <3>3. <<o, k>> \in Merged(off, order, m) <=>
              k \in order .. (m - 1) /\ o = BuddyOf(Base(off, k), k)
      BY DEF Merged
    <3>4. k \in order .. (m - 1) <=> k >= order /\ k < m
      BY <1>5, ConstantFacts
    <3>5. k < m => k # m
      BY <1>5
    <3>6. QED
      BY <1>19, <3>1, <3>2, <3>3, <3>4, <3>5
  <2>2. FreeBlocks' \subseteq Frames \X Orders /\ FreeBlocks \subseteq Frames \X Orders
    BY DEF FreeBlocks
  <2>3. <<top, m>> \in Frames \X Orders
    BY <1>4, <1>15
  <2>4. QED
    BY <2>1, <2>2, <2>3
<1>25. FreeBlocks \cap LiveBlocks = {}
  BY DEF IInv, BlocksDisjoint
<1>26. Blocks' = (Blocks \ R) \cup {<<top, m>>}
  BY <1>6, <1>9, <1>23, <1>24, <1>25 DEF Blocks, R
<1>27. Disjoint(Blocks) /\ \A p \in Frames : \E b \in Blocks : p \in Span(b[1], b[2])
  BY DEF IInv, BlocksDisjoint, Disjoint, NoPageLost, Blocks
<1>28. Disjoint(Blocks')
  <2> DEFINE Q == {<<top, m>>}
  <2>1. \A q \in Q : \A p \in Span(q[1], q[2]) : \E r \in R : p \in Span(r[1], r[2])
    BY <1>10
  <2>2. Disjoint(Q)
    BY DEF Disjoint
  <2>3. Blocks' = (Blocks \ R) \cup Q
    BY <1>26
  <2> HIDE DEF Q
  <2>4. QED
    BY <1>9, <1>27, <2>1, <2>2, <2>3, ReplaceDisjoint
<1>29. NoPageLost'
  <2> DEFINE Q == {<<top, m>>}
  <2>1. \A r \in R : \A p \in Span(r[1], r[2]) : \E q \in Q : p \in Span(q[1], q[2])
    <3> DEFINE b == <<top, m>>
    <3>1. b \in Q /\ b[1] = top /\ b[2] = m
      OBVIOUS
    <3> HIDE DEF b, Q
    <3>2. QED
      BY <1>11, <3>1
  <2>2. Blocks' = (Blocks \ R) \cup Q
    BY <1>26
  <2> HIDE DEF Q
  <2>3. \A p \in Frames : \E b \in Blocks' : p \in Span(b[1], b[2])
    BY <1>27, <2>1, <2>2, ReplaceCovers
  <2>4. QED
    BY <2>3 DEF NoPageLost, Blocks
<1>30. (FreeBlocks \cap LiveBlocks)' = {}
  <2>1. <<top, m>> \notin LiveBlocks'
    <3> DEFINE b == <<top, m>>
    <3>1. b[1] = top
      OBVIOUS
    <3> HIDE DEF b
    <3>2. SUFFICES ASSUME b \in LiveBlocks, b # <<off, order>> PROVE FALSE
      BY <1>23 DEF b
    <3>3. b \in R
      BY <1>15, <1>16, <1>17, <3>1, <3>2 DEF Blocks
    <3>4. QED
      BY <1>9, <1>25, <3>2, <3>3 DEF R
  <2>2. QED
    BY <1>23, <1>24, <1>25, <2>1
<1>31. BlocksDisjoint'
  BY <1>19, <1>28, <1>30 DEF BlocksDisjoint, Disjoint, Blocks
<1>32. BlocksPlaced'
  BY <1>13, <1>14, <1>26 DEF IInv, BlocksPlaced
<1>33. OrderKept' /\ LiveFits'
  BY <1>20, <1>21 DEF IInv, OrderKept, LiveFits
<1>34. Coalesced'
  <2>1. SUFFICES ASSUME NEW k \in Orders, NEW o \in Range(free_list'[k]),
                        BuddyOf(o, k) \in Range(free_list'[k])
                 PROVE  FALSE
    BY DEF Coalesced
  <2>2. BuddyOf(o, k) \notin Range(free_list[k]) \/ o \notin Range(free_list[k])
    BY DEF IInv, Coalesced
  <2>3. k = m
    BY <1>19, <2>1, <2>2
  <2>4. Range(free_list'[k]) = Range(free_list[k]) \cup {top}
    BY <1>19, <2>3
  <2>5. BuddyOf(top, m) \notin Range(free_list[m])
    BY <1>4
  <2>6. BuddyOf(top, m) # top
    BY <1>12 DEF BuddyOf
  <2>7. o # top
    BY <2>1, <2>3, <2>4, <2>5, <2>6
  <2>8. o \in Range(free_list[k]) /\ BuddyOf(o, k) = top
    BY <2>1, <2>2, <2>4, <2>7
  <2>9. Base(o, k) = o /\ o \in Nat
    <3> DEFINE b == <<o, k>>
    <3>1. b \in FreeBlocks /\ b[1] = o /\ b[2] = k
      BY <1>1, <2>8, BlockFacts
    <3> HIDE DEF b
    <3>2. QED
      BY <1>17, <3>1, ConstantFacts DEF IInv, BlocksPlaced, Blocks
  <2>10. QED
    BY <2>3, <2>5, <2>8, <2>9, BuddySymmetric
<1>35. QED
  BY <1>22, <1>29, <1>31, <1>32, <1>33, <1>34 DEF IInv
-----------------------------------------------------------------------------
(* buddy_init.                                                             *)

\* The block of order k that buddy_init mounts, if any, ends where the block
\* of the next smaller order begins.
LEMMA MountBlock ==
    ASSUME NEW k \in Orders
    PROVE  \/ /\ InitLists[k] = << >>
              /\ Base(VramPages, k + 1) = Base(VramPages, k)
           \/ /\ InitLists[k] = << Base(VramPages, k + 1) >>
              /\ Base(VramPages, k + 1) + Pages[k] = Base(VramPages, k)
<1> DEFINE n == VramPages
           b == Base(n, k)
           d == Base(n, k + 1)
           p == Pages[k]
<1>1. n \in Nat /\ k \in 0 .. BUDDY_MAX_ORDER /\ k + 1 \in 0 .. BUDDY_MAX_ORDER /\ p \in Nat \ {0}
  BY ConstantFacts, PagesPositive DEF Orders
<1>2. /\ b \in Nat /\ b <= n /\ n < b + p
      /\ d \in Nat /\ d <= n
  BY <1>1, BaseProps
<1>3. d = b \/ d = b - p
  BY <1>1, BaseStep
<1>4. InitLists[k] = IF (n % Pages[k + 1]) >= p THEN << d >> ELSE << >>
  BY DEF InitLists, Mount, Base
<1>5. (n % Pages[k + 1]) = n - d
  <2>1. (n % Pages[k + 1]) \in Nat
    BY <1>1, PagesPositive, DivMod
  <2>2. QED
    BY <1>1, <2>1 DEF Base
<1> HIDE DEF n, b, d, p
<1>6. CASE d = b
  <2>1. ~(n - d >= p)
    BY <1>1, <1>2, <1>6
  <2>2. QED
    BY <1>4, <1>5, <1>6, <2>1 DEF n, b, d
<1>7. CASE d = b - p
  <2>1. n - d >= p /\ d + p = b
    BY <1>1, <1>2, <1>7
  <2>2. QED
    BY <1>4, <1>5, <2>1 DEF n, b, d, p
<1>8. QED
  BY <1>3, <1>6, <1>7

\* buddy_init establishes the invariant.
LEMMA InitHolds == Init => IInv
<1> SUFFICES ASSUME Init PROVE IInv
  OBVIOUS
<1> DEFINE n == VramPages
           B(k) == Base(n, k)
<1>1. /\ free_list = InitLists
      /\ page_order = [p \in Frames |-> 0]
      /\ DOMAIN live = {} /\ live = [o \in {} |-> 0]
  BY DEF Init, InitOrders
<1>2. n \in Nat /\ n # 0
  BY ConstantFacts, BuddyConstants, PagesPositive
<1>3. \A k \in 0 .. BUDDY_MAX_ORDER : B(k) \in Nat /\ B(k) <= n /\ Pages[k] \in Nat \ {0}
  BY <1>2, BaseProps, PagesPositive
<1>4. \A k \in Orders : /\ k \in 0 .. BUDDY_MAX_ORDER /\ k + 1 \in 0 .. BUDDY_MAX_ORDER
                        /\ k \in Nat
  BY ConstantFacts DEF Orders
<1>5. \A k \in Orders : \/ free_list[k] = << >> /\ B(k + 1) = B(k)
                        \/ free_list[k] = << B(k + 1) >> /\ B(k + 1) + Pages[k] = B(k)
  BY <1>1, MountBlock
<1> HIDE DEF n, B
<1>6. \A k \in Orders : \A o : o \in Range(free_list[k]) <=>
          free_list[k] = << B(k + 1) >> /\ o = B(k + 1)
  <2>1. SUFFICES ASSUME NEW k \in Orders, NEW o
                 PROVE  o \in Range(free_list[k]) <=>
                            free_list[k] = << B(k + 1) >> /\ o = B(k + 1)
    OBVIOUS
  <2>2. CASE free_list[k] = << >>
    BY <2>2 DEF Range
  <2>3. CASE free_list[k] = << B(k + 1) >>
    BY <2>3 DEF Range
  <2>4. QED
    BY <1>5, <2>2, <2>3
<1>7. \A k \in Orders : \A o \in Range(free_list[k]) :
          /\ o = B(k + 1) /\ o + Pages[k] = B(k) /\ o \in Nat /\ o \in Frames
  <2>1. SUFFICES ASSUME NEW k \in Orders, NEW o \in Range(free_list[k])
                 PROVE  o = B(k + 1) /\ o + Pages[k] = B(k) /\ o \in Nat /\ o \in Frames
    OBVIOUS
  <2>2. o = B(k + 1) /\ free_list[k] # << >>
    <3>1. o = B(k + 1) /\ free_list[k] = << B(k + 1) >>
      BY <1>6
    <3>2. << B(k + 1) >> # << >>
      OBVIOUS
    <3>3. QED
      BY <3>1, <3>2
  <2>3. o + Pages[k] = B(k)
    BY <1>5, <2>2
  <2>4. o \in Nat /\ Pages[k] \in Nat \ {0} /\ B(k) \in Nat /\ B(k) <= n
    BY <1>3, <1>4, <2>2
  <2>5. o < n
    BY <1>2, <2>3, <2>4
  <2>6. QED
    BY <1>2, <2>2, <2>3, <2>4, <2>5 DEF Frames, n
<1>8. TypeOK
  <2>1. \A k \in Orders : free_list[k] \in Seq(Frames)
    <3>1. SUFFICES ASSUME NEW k \in Orders PROVE free_list[k] \in Seq(Frames)
      OBVIOUS
    <3>2. CASE free_list[k] = << >>
      BY <3>2
    <3>3. CASE free_list[k] = << B(k + 1) >>
      <4>1. B(k + 1) \in Frames
        BY <1>6, <1>7, <3>3
      <4>2. QED
        BY <3>3, <4>1
    <3>4. QED
      BY <1>5, <3>2, <3>3
  <2>2. free_list \in [Orders -> Seq(Frames)]
    BY <1>1, <2>1 DEF InitLists, Mount
  <2>3. 0 \in Orders
    BY BuddyConstants DEF Orders
  <2>4. QED
    BY <1>1, <2>2, <2>3 DEF TypeOK
<1>9. LiveBlocks = {}
  BY <1>1 DEF LiveBlocks
<1>10. ASSUME NEW b \in FreeBlocks
       PROVE  /\ b[1] \in Nat /\ b[2] \in Orders /\ b = <<b[1], b[2]>>
              /\ b[1] = B(b[2] + 1) /\ b[1] + Pages[b[2]] = B(b[2])
  BY <1>7 DEF FreeBlocks
<1>11. BlocksDisjoint
  <2>1. \A k \in Orders : IsInjective(free_list[k])
    <3>1. SUFFICES ASSUME NEW k \in Orders PROVE IsInjective(free_list[k])
      OBVIOUS
    <3>2. free_list[k] = << >> => IsInjective(free_list[k])
      BY DEF IsInjective
    <3>3. free_list[k] = << B(k + 1) >> => IsInjective(free_list[k])
      BY DEF IsInjective
    <3>4. QED
      BY <1>5, <3>2, <3>3
  <2>2. ASSUME NEW b \in FreeBlocks, NEW c \in FreeBlocks, b[2] < c[2]
        PROVE  Span(b[1], b[2]) \cap Span(c[1], c[2]) = {}
    <3> DEFINE j == b[2]
               k == c[2]
    <3>1. j \in Orders /\ k \in Orders /\ b[1] = B(j + 1) /\ c[1] + Pages[k] = B(k)
          /\ b[1] \in Nat /\ c[1] \in Nat /\ j < k
      BY <1>10, <2>2
    <3> HIDE DEF j, k
    <3>2. j + 1 \in 0 .. BUDDY_MAX_ORDER /\ k \in (j + 1) .. BUDDY_MAX_ORDER
      BY <1>4, <3>1, ConstantFacts
    <3>3. B(k) <= B(j + 1)
      BY <1>2, <3>2, BaseNested DEF B
    <3>4. Pages[k] \in Nat /\ Pages[j] \in Nat
      BY <1>3, <1>4, <3>1
    <3>5. Span(b[1], j) \cap Span(c[1], k) = {}
      BY <3>1, <3>3, <3>4 DEF Span
    <3>6. QED
      BY <3>5 DEF j, k
  <2>3. ASSUME NEW b \in FreeBlocks, NEW c \in FreeBlocks, b # c
        PROVE  Span(b[1], b[2]) \cap Span(c[1], c[2]) = {}
    <3>1. b[2] # c[2]
      BY <1>10, <2>3
    <3>2. b[2] < c[2] \/ c[2] < b[2]
      BY <1>4, <1>10, <3>1
    <3>3. QED
      BY <2>2, <3>2
  <2>4. QED
    BY <1>9, <2>1, <2>3 DEF BlocksDisjoint
<1>12. BlocksPlaced
  <2>1. SUFFICES ASSUME NEW b \in FreeBlocks
                 PROVE  Base(b[1], b[2]) = b[1] /\ Span(b[1], b[2]) \subseteq Frames
    BY <1>9 DEF BlocksPlaced, Blocks
  <2> DEFINE o == b[1]
             k == b[2]
  <2>2. o \in Nat /\ k \in Orders /\ o = B(k + 1) /\ o + Pages[k] = B(k)
    BY <1>10
  <2> HIDE DEF o, k
  <2>3. Base(o, k + 1) = o
    BY <1>2, <1>4, <2>2, BaseProps, BaseAligned DEF B
  <2>4. Base(o, k) = o
    <3>1. k \in 0 .. (k + 1)
      BY <1>4, <2>2
    <3>2. QED
      BY <1>4, <2>2, <2>3, <3>1, AlignedDown
  <2>5. Span(o, k) \subseteq Frames
    BY <1>2, <1>3, <1>4, <2>2 DEF Span, Frames, n
  <2>6. QED
    BY <2>4, <2>5 DEF o, k
<1>13. NoPageLost
  <2>1. SUFFICES ASSUME NEW p \in Frames
                 PROVE  \E b \in FreeBlocks : p \in Span(b[1], b[2])
    BY DEF NoPageLost
  <2>2. p \in Nat /\ p < n
    BY <1>2 DEF Frames, n
  <2> DEFINE K == {k \in 0 .. BUDDY_MAX_ORDER : B(k) <= p}
  <2>3. B(BUDDY_MAX_ORDER) = 0
    <3> DEFINE e == BUDDY_MAX_ORDER - 1
               d == Pages[BUDDY_MAX_ORDER]
    <3>1. e \in Orders /\ e + 1 = BUDDY_MAX_ORDER /\ BUDDY_MAX_ORDER \in 0 .. BUDDY_MAX_ORDER
      BY BuddyConstants DEF Orders
    <3>2. n < d /\ d \in Nat \ {0}
      BY <1>2, <3>1, BuddyConstants, PagesPositive, PagesDouble DEF n
    <3> HIDE DEF d
    <3>3. (n % d) = n
      BY <1>2, <3>2
    <3>4. QED
      BY <1>2, <3>3 DEF B, Base, d
  <2>4. B(0) = n
    <3>1. Pages[0] = 1
      BY BuddyConstants
    <3>2. (n % 1) = 0
      BY <1>2
    <3>3. QED
      BY <1>2, <3>1, <3>2 DEF B, Base
  <2>5. PICK k \in K : \A y \in K : k <= y
    <3>1. BUDDY_MAX_ORDER \in K /\ K \in SUBSET Nat
      BY <2>2, <2>3, ConstantFacts
    <3>2. QED
      BY <3>1, MinProps
  <2>6. k # 0
    BY <1>2, <2>2, <2>4, <2>5
  <2> DEFINE j == k - 1
             b == <<B(k), j>>
  <2>7. j \in Orders /\ j + 1 = k /\ j \in 0 .. BUDDY_MAX_ORDER /\ ~(k <= j)
    BY <2>5, <2>6, ConstantFacts DEF Orders
  <2>8. B(k) <= p /\ ~(B(j) <= p)
    BY <2>5, <2>7
  <2>9. B(k) \in Nat /\ B(j) \in Nat /\ Pages[j] \in Nat
    BY <1>3, <2>5, <2>7
  <2>10. free_list[j] = << B(k) >> /\ B(k) + Pages[j] = B(j)
    BY <1>5, <2>7, <2>8, <2>9
  <2>11. B(k) \in Range(free_list[j])
    BY <1>6, <2>7, <2>10
  <2>12. b \in FreeBlocks /\ b[1] = B(k) /\ b[2] = j
    BY <1>8, <2>7, <2>11, BlockFacts
  <2>13. p \in Span(B(k), j)
    BY <2>2, <2>8, <2>9, <2>10 DEF Span
  <2> HIDE DEF b
  <2>14. QED
    BY <2>12, <2>13
<1>14. OrderKept /\ LiveFits
  BY <1>1 DEF OrderKept, LiveFits
<1>15. Coalesced
  <2>1. SUFFICES ASSUME NEW k \in Orders, NEW o \in Range(free_list[k])
                 PROVE  BuddyOf(o, k) \notin Range(free_list[k])
    BY DEF Coalesced
  <2>2. o \in Nat /\ Pages[k] \in Nat \ {0}
    BY <1>3, <1>4, <1>7
  <2>3. BuddyOf(o, k) # o
    BY <2>2 DEF BuddyOf
  <2>4. QED
    BY <1>7, <2>3
<1>16. QED
  BY <1>8, <1>11, <1>12, <1>13, <1>14, <1>15 DEF IInv
-----------------------------------------------------------------------------
(* The theorems.                                                           *)

\* Every call preserves the invariant.
LEMMA NextStep == IInv /\ [Next]_vars => IInv'
<1> SUFFICES ASSUME IInv, [Next]_vars PROVE IInv'
  OBVIOUS
<1>1. CASE UNCHANGED vars
  <2>1. free_list' = free_list /\ page_order' = page_order /\ live' = live
    BY <1>1 DEF vars
  <2>2. FreeBlocks' = FreeBlocks /\ LiveBlocks' = LiveBlocks
    BY <2>1 DEF FreeBlocks, LiveBlocks
  <2>3. TypeOK'
    BY <2>1 DEF IInv, TypeOK
  <2>4. BlocksDisjoint' /\ BlocksPlaced' /\ NoPageLost'
    BY <2>1, <2>2 DEF IInv, BlocksDisjoint, BlocksPlaced, Blocks, NoPageLost
  <2>5. OrderKept' /\ LiveFits' /\ Coalesced'
    BY <2>1 DEF IInv, OrderKept, LiveFits, Coalesced
  <2>6. QED
    BY <2>3, <2>4, <2>5 DEF IInv
<1>2. ASSUME NEW size \in Sizes, buddy_alloc(size) PROVE IInv'
  BY <1>2, AllocStep
<1>3. ASSUME NEW size \in Sizes, buddy_alloc_fails(size) PROVE IInv'
  BY <1>1, <1>3 DEF buddy_alloc_fails
<1>4. ASSUME NEW off \in DOMAIN live, buddy_free(off) PROVE IInv'
  BY <1>4, FreeStep
<1>5. QED
  BY <1>1, <1>2, <1>3, <1>4 DEF Next

\* The invariant holds in every reachable state.
LEMMA Invariance == Spec => []IInv
  BY InitHolds, NextStep, PTL DEF Spec

\* free_list and page_order keep their types: every listed offset is a page
\* of the VRAM and every recorded order has a list, whatever is allocated
\* and freed.
THEOREM TypeCorrect == Spec => []TypeOK
<1>1. IInv => TypeOK
  BY DEF IInv
<1>2. QED
  BY Invariance, <1>1, PTL

\* buddy_alloc never hands out, and neither a split nor a merge ever links,
\* a page that another block holds.
THEOREM NoOverlap == Spec => []BlocksDisjoint
<1>1. IInv => BlocksDisjoint
  BY DEF IInv
<1>2. QED
  BY Invariance, <1>1, PTL

\* Splitting and merging lose no page.
THEOREM NothingLost == Spec => []NoPageLost
<1>1. IInv => NoPageLost
  BY DEF IInv
<1>2. QED
  BY Invariance, <1>1, PTL

\* buddy_free finds in page_order the order the block was allocated with.
THEOREM OrderSurvives == Spec => []OrderKept
<1>1. IInv => OrderKept
  BY DEF IInv
<1>2. QED
  BY Invariance, <1>1, PTL

\* Two free buddies are always merged.
THEOREM AlwaysCoalesced == Spec => []Coalesced
<1>1. IInv => Coalesced
  BY DEF IInv
<1>2. QED
  BY Invariance, <1>1, PTL

\* The recursion of buddy_free stops below BUDDY_MAX_ORDER.
THEOREM MergeStops == Spec => []MergeBounded
<1>1. IInv => MergeBounded
  <2> SUFFICES ASSUME IInv, NEW o \in DOMAIN live
               PROVE  Stops(free_list, o, page_order[o]) # {}
    BY DEF MergeBounded
  <2>1. TypeOK /\ o \in Frames /\ page_order[o] \in Orders
    BY DEF IInv, TypeOK
  <2>2. QED
    BY <2>1, FreeChoice
<1>2. QED
  BY Invariance, <1>1, PTL
=============================================================================
