---------------------------- MODULE BuddyLemmas ----------------------------
(***************************************************************************)
(* Facts about the operators of BuddyOps, for every number of orders and   *)
(* every VRAM size: arithmetic of block sizes and buddies, and what list   *)
(* insertion and removal do to the set of listed offsets.                  *)
(***************************************************************************)
EXTENDS BuddyOps, SequenceTheorems, WellFoundedInduction, TLAPS

-----------------------------------------------------------------------------
(* Arithmetic.                                                             *)

\* Division with remainder, the only facts about % and \div used below.
LEMMA DivMod ==
    ASSUME NEW n \in Nat, NEW d \in Nat \ {0}
    PROVE  /\ (n \div d) \in Nat
           /\ (n % d) \in Nat
           /\ (n % d) < d
           /\ n = ((n \div d) * d) + (n % d)
  OBVIOUS

\* A remainder is determined by any quotient.
LEMMA ModUnique ==
    ASSUME NEW q \in Nat, NEW d \in Nat \ {0}, NEW r \in Nat, r < d
    PROVE  (((q * d) + r) % d) = r /\ (((q * d) + r) \div d) = q
  OBVIOUS

\* Every nonempty set of naturals has a least element, and Min is it.
LEMMA MinProps ==
    ASSUME NEW S \in SUBSET Nat, S # {}
    PROVE  Min(S) \in S /\ \A y \in S : Min(S) <= y
<1> DEFINE Less == OpToRel(<, Nat)
<1>1. IsWellFoundedOn(Less, Nat)
  BY NatLessThanWellFounded
<1>2. Less = {ss \in Nat \X Nat : ss[1] < ss[2]}
  BY DEF OpToRel
<1> HIDE DEF Less
<1>3. PICK x \in S : \A y \in S : ~ (<<y, x>> \in Less)
  BY <1>1, WFMin
<1>4. \A y \in S : x <= y
  <2>1. SUFFICES ASSUME NEW y \in S, y < x PROVE FALSE
    OBVIOUS
  <2>2. <<y, x>> \in Less
    BY <1>2, <2>1
  <2>3. QED
    BY <1>3, <2>2
<1>5. \A z \in S : (\A y \in S : z <= y) => z = x
  BY <1>4
<1>6. Min(S) = x
  BY <1>4, <1>5 DEF Min
<1>7. QED
  BY <1>4, <1>6

\* No block is empty.
LEMMA PagesPositive == \A k \in 0 .. BUDDY_MAX_ORDER : Pages[k] \in Nat \ {0}
  BY BuddyConstants

\* A block has twice the pages of its halves.
LEMMA PagesDouble ==
    \A k \in Orders : k \in 0 .. BUDDY_MAX_ORDER /\ (k + 1) \in 0 .. BUDDY_MAX_ORDER
                      /\ Pages[k + 1] = Pages[k] + Pages[k]
  BY BuddyConstants DEF Orders

\* Larger orders have larger blocks.
LEMMA PagesMonotone ==
    ASSUME NEW j \in 0 .. BUDDY_MAX_ORDER, NEW k \in j .. BUDDY_MAX_ORDER
    PROVE  Pages[j] <= Pages[k]
<1> DEFINE Bad == {i \in j .. BUDDY_MAX_ORDER : ~(Pages[j] <= Pages[i])}
<1>1. SUFFICES ASSUME Bad # {} PROVE FALSE
  OBVIOUS
<1>2. Bad \in SUBSET Nat
  OBVIOUS
<1>3. PICK m \in Bad : \A y \in Bad : m <= y
  BY <1>1, <1>2, MinProps
<1>4. m # j
  BY PagesPositive
<1>5. (m - 1) \in j .. BUDDY_MAX_ORDER /\ (m - 1) \in Orders /\ (m - 1) \notin Bad
  BY <1>3, <1>4, BuddyConstants DEF Orders
<1>6. Pages[m] = Pages[m - 1] + Pages[m - 1]
  BY <1>5, PagesDouble, BuddyConstants
<1>7. QED
  BY <1>3, <1>5, <1>6, PagesPositive
-----------------------------------------------------------------------------
(* Free lists: sequences without repetition.                               *)

\* Membership in a list, by index.
LEMMA InRange ==
    ASSUME NEW S, NEW s \in Seq(S), NEW x
    PROVE  x \in Range(s) <=> \E i \in 1 .. Len(s) : s[i] = x
  BY DEF Range

\* A list without repetitions, index by index.
LEMMA InjectiveSeq ==
    ASSUME NEW S, NEW s \in Seq(S)
    PROVE  IsInjective(s) <=> \A i, j \in 1 .. Len(s) : s[i] = s[j] => i = j
  BY DEF IsInjective

\* buddy_alloc's splits and buddy_free link a block at the head.
LEMMA ConsList ==
    ASSUME NEW S, NEW s \in Seq(S), NEW x \in S
    PROVE  /\ Cons(x, s) \in Seq(S)
           /\ Range(Cons(x, s)) = Range(s) \cup {x}
           /\ IsInjective(s) /\ x \notin Range(s) => IsInjective(Cons(x, s))
<1> DEFINE t == Cons(x, s)
<1>1. /\ t \in Seq(S)
      /\ Len(t) = Len(s) + 1
      /\ t[1] = x
      /\ \A i \in 1 .. Len(s) : t[i + 1] = s[i]
  BY DEF Cons
<1> HIDE DEF t
<1>2. \A i \in 1 .. Len(t) : i = 1 \/ ((i - 1) \in 1 .. Len(s) /\ t[i] = s[i - 1])
  BY <1>1
<1>3. ASSUME NEW y PROVE y \in Range(t) <=> y \in Range(s) \cup {x}
  <2>1. y \in Range(t) <=> \E i \in 1 .. Len(t) : t[i] = y
    BY <1>1, InRange
  <2>2. y \in Range(s) <=> \E i \in 1 .. Len(s) : s[i] = y
    BY InRange
  <2>3. ASSUME NEW i \in 1 .. Len(s), s[i] = y PROVE \E j \in 1 .. Len(t) : t[j] = y
    <3>1. i + 1 \in 1 .. Len(t) /\ t[i + 1] = y
      BY <1>1, <2>3
    <3>2. QED
      BY <3>1
  <2>4. 1 \in 1 .. Len(t)
    BY <1>1
  <2>5. QED
    BY <1>1, <1>2, <2>1, <2>2, <2>3, <2>4
<1>4. ASSUME IsInjective(s), x \notin Range(s) PROVE IsInjective(t)
  <2>1. \A i \in 1 .. Len(s) : s[i] # x
    BY <1>4, InRange
  <2>2. \A i, j \in 1 .. Len(s) : s[i] = s[j] => i = j
    BY <1>4, InjectiveSeq
  <2>3. SUFFICES ASSUME NEW i \in 1 .. Len(t), NEW j \in 1 .. Len(t), t[i] = t[j]
                 PROVE  i = j
    BY <1>1, InjectiveSeq
  <2>4. ASSUME NEW m \in 1 .. Len(t), m # 1 PROVE t[m] # x
    BY <1>2, <2>1, <2>4
  <2>5. CASE i = 1 \/ j = 1
    BY <1>1, <2>3, <2>4, <2>5
  <2>6. CASE i # 1 /\ j # 1
    <3>1. i - 1 \in 1 .. Len(s) /\ j - 1 \in 1 .. Len(s) /\ s[i - 1] = s[j - 1]
      BY <1>2, <2>3, <2>6
    <3>2. i - 1 = j - 1
      BY <2>2, <3>1
    <3>3. QED
      BY <3>2
  <2>7. QED
    BY <2>5, <2>6
<1>5. QED
  BY <1>1, <1>3, <1>4 DEF t

\* buddy_alloc unlinks the head.
LEMMA TailList ==
    ASSUME NEW S, NEW s \in Seq(S), s # << >>, IsInjective(s)
    PROVE  /\ Head(s) \in Range(s)
           /\ Tail(s) \in Seq(S)
           /\ Range(Tail(s)) = Range(s) \ {Head(s)}
           /\ IsInjective(Tail(s))
<1> DEFINE t == Tail(s)
<1>1. /\ t \in Seq(S)
      /\ Len(s) = Len(t) + 1
      /\ s[1] = Head(s)
      /\ \A i \in 1 .. Len(t) : t[i] = s[i + 1]
  OBVIOUS
<1> HIDE DEF t
<1>2. \A i, j \in 1 .. Len(s) : s[i] = s[j] => i = j
  BY InjectiveSeq
<1>3. Head(s) \in Range(s)
  BY <1>1, InRange
<1>4. ASSUME NEW y PROVE y \in Range(t) <=> y \in Range(s) \ {Head(s)}
  <2>1. y \in Range(t) <=> \E i \in 1 .. Len(t) : t[i] = y
    BY <1>1, InRange
  <2>2. y \in Range(s) <=> \E i \in 1 .. Len(s) : s[i] = y
    BY InRange
  <2>3. ASSUME NEW i \in 1 .. Len(s), s[i] = y, y # Head(s)
        PROVE \E j \in 1 .. Len(t) : t[j] = y
    <3>1. i - 1 \in 1 .. Len(t) /\ t[i - 1] = y
      BY <1>1, <2>3
    <3>2. QED
      BY <3>1
  <2>4. ASSUME NEW i \in 1 .. Len(t), t[i] = y
        PROVE i + 1 \in 1 .. Len(s) /\ s[i + 1] = y /\ y # Head(s)
    BY <1>1, <1>2, <2>4
  <2>5. QED
    BY <2>1, <2>2, <2>3, <2>4
<1>5. IsInjective(t)
  <2>1. \A i \in 1 .. Len(t) : i + 1 \in 1 .. Len(s)
    BY <1>1
  <2>2. SUFFICES ASSUME NEW i \in 1 .. Len(t), NEW j \in 1 .. Len(t), t[i] = t[j]
                 PROVE  i = j
    BY <1>1, InjectiveSeq
  <2>3. i + 1 = j + 1
    BY <1>1, <1>2, <2>1, <2>2
  <2>4. QED
    BY <2>3
<1>6. QED
  BY <1>1, <1>3, <1>4, <1>5 DEF t

\* buddy_free unlinks the buddy from the middle of its list.
LEMMA RemoveList ==
    ASSUME NEW S, NEW s \in Seq(S), NEW x \in Range(s), IsInjective(s)
    PROVE  /\ RemoveFirst(s, x) \in Seq(S)
           /\ Range(RemoveFirst(s, x)) = Range(s) \ {x}
           /\ IsInjective(RemoveFirst(s, x))
<1> DEFINE I == {i \in 1 .. Len(s) : s[i] = x}
           n == Min(I)
           a == SubSeq(s, 1, n - 1)
           b == SubSeq(s, n + 1, Len(s))
           t == a \o b
<1>1. I # {} /\ I \in SUBSET Nat
  BY InRange
<1>2. n \in I
  BY <1>1, MinProps
<1>3. RemoveFirst(s, x) = t
  BY <1>1 DEF RemoveFirst, RemoveAt, SelectInSeq
<1> HIDE DEF n
<1>4. /\ a \in Seq(S) /\ Len(a) = n - 1
      /\ \A i \in 1 .. (n - 1) : a[i] = s[i]
  <2>1. \A i \in 1 .. (n - 1) : s[i] \in S
    BY <1>2
  <2>2. QED
    BY <1>2, <2>1, SubSeqProperties
<1>5. /\ b \in Seq(S) /\ Len(b) = Len(s) - n
      /\ \A i \in 1 .. (Len(s) - n) : b[i] = s[n + i]
  <2>1. \A i \in (n + 1) .. Len(s) : s[i] \in S
    BY <1>2
  <2>2. QED
    BY <1>2, <2>1, SubSeqProperties
<1> HIDE DEF a, b
<1>6. /\ t \in Seq(S)
      /\ Len(t) = Len(s) - 1
      /\ \A i \in 1 .. Len(t) : t[i] = IF i < n THEN s[i] ELSE s[i + 1]
  <2>1. /\ t \in Seq(S)
        /\ Len(t) = Len(a) + Len(b)
        /\ \A i \in 1 .. (Len(a) + Len(b)) :
               t[i] = IF i <= Len(a) THEN a[i] ELSE b[i - Len(a)]
    BY <1>4, <1>5, ConcatProperties
  <2> HIDE DEF t
  <2>2. n \in 1 .. Len(s) /\ Len(s) \in Nat
    BY <1>2
  <2>3. Len(t) = Len(s) - 1
    BY <1>4, <1>5, <2>1, <2>2
  <2>4. ASSUME NEW i \in 1 .. Len(t), i < n PROVE t[i] = s[i]
    BY <1>4, <1>5, <2>1, <2>2, <2>3, <2>4
  <2>5. ASSUME NEW i \in 1 .. Len(t), ~(i < n) PROVE t[i] = s[i + 1]
    <3>1. t[i] = b[i - (n - 1)] /\ i - (n - 1) \in 1 .. (Len(s) - n)
      BY <1>4, <1>5, <2>1, <2>2, <2>3, <2>5
    <3>2. n + (i - (n - 1)) = i + 1
      BY <2>2
    <3>3. QED
      BY <1>5, <3>1, <3>2
  <2>6. QED
    BY <2>1, <2>3, <2>4, <2>5
<1> HIDE DEF t
<1>7. \A i, j \in 1 .. Len(s) : s[i] = s[j] => i = j
  BY InjectiveSeq
<1>8. n \in 1 .. Len(s) /\ s[n] = x
  BY <1>2
<1> HIDE DEF I
<1>9. ASSUME NEW y PROVE y \in Range(t) <=> y \in Range(s) \ {x}
  <2>1. y \in Range(t) <=> \E i \in 1 .. Len(t) : t[i] = y
    BY <1>6, InRange
  <2>2. y \in Range(s) <=> \E i \in 1 .. Len(s) : s[i] = y
    BY InRange
  <2>3. ASSUME NEW i \in 1 .. Len(s), s[i] = y, y # x
        PROVE \E j \in 1 .. Len(t) : t[j] = y
    <3>1. CASE i < n
      BY <1>6, <1>8, <2>3, <3>1
    <3>2. CASE i > n
      <4>1. i - 1 \in 1 .. Len(t) /\ t[i - 1] = y
        BY <1>6, <1>8, <2>3, <3>2
      <4>2. QED
        BY <4>1
    <3>3. QED
      BY <1>8, <2>3, <3>1, <3>2
  <2>4. ASSUME NEW i \in 1 .. Len(t), t[i] = y
        PROVE \E j \in 1 .. Len(s) : s[j] = y /\ y # x
    <3>1. CASE i < n
      BY <1>6, <1>7, <1>8, <2>4, <3>1
    <3>2. CASE ~(i < n)
      <4>1. i + 1 \in 1 .. Len(s) /\ s[i + 1] = y /\ i + 1 # n
        BY <1>6, <1>8, <2>4, <3>2
      <4>2. QED
        BY <1>7, <1>8, <4>1
    <3>3. QED
      BY <3>1, <3>2
  <2>5. QED
    BY <2>1, <2>2, <2>3, <2>4
<1>10. IsInjective(t)
  <2>1. SUFFICES ASSUME NEW i \in 1 .. Len(t), NEW j \in 1 .. Len(t), t[i] = t[j]
                 PROVE  i = j
    BY <1>6, InjectiveSeq
  <2>2. i \in 1 .. Len(s) /\ i + 1 \in 1 .. Len(s)
        /\ j \in 1 .. Len(s) /\ j + 1 \in 1 .. Len(s)
    BY <1>6, <1>8
  <2>3. QED
    BY <1>6, <1>7, <1>8, <2>1, <2>2
<1>11. QED
  BY <1>3, <1>6, <1>9, <1>10
-----------------------------------------------------------------------------
(* Blocks and buddies.                                                     *)

\* The block of order k around a page starts at or below it, on a multiple
\* of the block size.
LEMMA BaseProps ==
    ASSUME NEW off \in Nat, NEW k \in 0 .. BUDDY_MAX_ORDER
    PROVE  /\ Base(off, k) \in Nat
           /\ Base(off, k) <= off
           /\ off < Base(off, k) + Pages[k]
           /\ Base(off, k) = (off \div Pages[k]) * Pages[k]
           /\ (Base(off, k) % Pages[k]) = 0
           /\ (Base(off, k) \div Pages[k]) = (off \div Pages[k])
<1> DEFINE p == Pages[k]
<1>1. p \in Nat \ {0}
  BY PagesPositive
<1> HIDE DEF p
<1> DEFINE q == off \div p
           r == off % p
<1>2. q \in Nat /\ r \in Nat /\ r < p /\ off = (q * p) + r
  BY <1>1, DivMod
<1> HIDE DEF q, r
<1>3. (((q * p) + 0) % p) = 0 /\ (((q * p) + 0) \div p) = q
  BY <1>1, <1>2, ModUnique
<1>4. q * p \in Nat
  BY <1>1, <1>2
<1>5. off - r = q * p
  BY <1>1, <1>2, <1>4
<1>6. Base(off, k) = q * p
  BY <1>5 DEF Base, p, r
<1>7. (q * p) <= off /\ off < (q * p) + p
  BY <1>1, <1>2, <1>4
<1>8. ((q * p) % p) = 0 /\ ((q * p) \div p) = q
  BY <1>3, <1>4
<1>9. QED
  BY <1>4, <1>6, <1>7, <1>8 DEF p, q

\* A page and its block one order up: the block of order k + 1 consists of
\* the block of order k and its buddy, in one order or the other.  This is
\* what makes offset ^ (1 << k) the partner to merge with.
LEMMA BaseStep ==
    ASSUME NEW off \in Nat, NEW k \in Orders
    PROVE  \/ /\ Base(off, k + 1) = Base(off, k)
              /\ BuddyOf(Base(off, k), k) = Base(off, k) + Pages[k]
           \/ /\ Base(off, k + 1) = Base(off, k) - Pages[k]
              /\ BuddyOf(Base(off, k), k) = Base(off, k) - Pages[k]
<1> DEFINE p == Pages[k]
           d == Pages[k + 1]
<1>1. p \in Nat \ {0} /\ d = p + p /\ d \in Nat \ {0}
      /\ k \in 0 .. BUDDY_MAX_ORDER /\ k + 1 \in 0 .. BUDDY_MAX_ORDER
  BY PagesPositive, PagesDouble
<1> HIDE DEF p, d
<1> DEFINE q == off \div p
           r == off % p
           h == q \div 2
           e == q % 2
<1>2. q \in Nat /\ r \in Nat /\ r < p /\ off = (q * p) + r
  BY <1>1, DivMod
<1>3. h \in Nat /\ e \in Nat /\ e < 2 /\ q = (h * 2) + e
  BY <1>2, DivMod
<1>4. Base(off, k) = q * p /\ (Base(off, k) \div p) = q
  BY <1>1, BaseProps DEF p
<1>5. Base(off, k + 1) = (off \div d) * d
  BY <1>1, BaseProps DEF d
<1> HIDE DEF q, r, h
<1>6. CASE e = 0
  <2>1. q = h * 2
    BY <1>3, <1>6
  <2>2. q * p = h * d
    BY <1>1, <1>3, <2>1
  <2>3. off = (h * d) + r /\ r < d
    BY <1>1, <1>2, <2>2
  <2>4. (off \div d) = h
    BY <1>1, <1>2, <1>3, <2>3, ModUnique
  <2>5. Base(off, k + 1) = Base(off, k)
    BY <1>4, <1>5, <2>2, <2>4
  <2>6. BuddyOf(Base(off, k), k) = Base(off, k) + p
    BY <1>4, <1>6 DEF BuddyOf, p
  <2>7. QED
    BY <2>5, <2>6 DEF p
<1>7. CASE e = 1
  <2>1. q = (h * 2) + 1
    BY <1>3, <1>7
  <2>2. q * p = (h * d) + p /\ h * d \in Nat
    BY <1>1, <1>3, <2>1
  <2>3. off = (h * d) + (p + r) /\ p + r < d /\ p + r \in Nat
    BY <1>1, <1>2, <2>2
  <2>4. (off \div d) = h
    BY <1>1, <1>3, <2>3, ModUnique
  <2>5. Base(off, k + 1) = Base(off, k) - p
    BY <1>1, <1>4, <1>5, <2>2, <2>4
  <2>6. BuddyOf(Base(off, k), k) = Base(off, k) - p
    BY <1>4, <1>7 DEF BuddyOf, p
  <2>7. QED
    BY <2>5, <2>6 DEF p
<1>8. QED
  BY <1>3, <1>6, <1>7

\* An offset on a multiple of a block size is the start of its block.
LEMMA BaseAligned ==
    ASSUME NEW off \in Nat, NEW k \in 0 .. BUDDY_MAX_ORDER
    PROVE  (off % Pages[k]) = 0 <=> Base(off, k) = off
<1>1. (off % Pages[k]) \in Nat
  BY PagesPositive, DivMod
<1>2. QED
  BY <1>1 DEF Base

\* Alignment to a block size implies alignment to every smaller one.
LEMMA AlignedDown ==
    ASSUME NEW off \in Nat, NEW k \in 0 .. BUDDY_MAX_ORDER, NEW j \in 0 .. k,
           Base(off, k) = off
    PROVE  Base(off, j) = off
<1> DEFINE Bad == {d \in 0 .. k : Base(off, k - d) # off}
<1>1. SUFFICES ASSUME Bad # {} PROVE FALSE
  <2>1. k - j \in 0 .. k /\ k - (k - j) = j
    BY BuddyConstants
  <2>2. QED
    BY <2>1
<1>2. PICK d \in Bad : \A y \in Bad : d <= y
  <2>1. Bad \in SUBSET Nat
    BY BuddyConstants
  <2>2. QED
    BY <1>1, <2>1, MinProps
<1>3. d # 0 /\ d \in 1 .. k
  <2>1. k - 0 = k /\ d \in 0 .. k
    BY BuddyConstants
  <2>2. d # 0
    BY <1>2, <2>1
  <2>3. QED
    BY <2>1, <2>2
<1>4. d - 1 \in 0 .. k /\ d - 1 \notin Bad
  BY <1>2, <1>3
<1> DEFINE i == k - d
<1>5. i \in Orders /\ i + 1 = k - (d - 1) /\ i \in 0 .. BUDDY_MAX_ORDER
  BY <1>3, BuddyConstants DEF Orders
<1>6. Base(off, i + 1) = off /\ Base(off, i) # off
  BY <1>2, <1>4, <1>5
<1> HIDE DEF i
<1>7. Base(off, i) \in Nat /\ Base(off, i) <= off /\ Pages[i] \in Nat \ {0}
  BY <1>5, BaseProps, PagesPositive
<1>8. QED
  BY <1>5, <1>6, <1>7, BaseStep

\* The blocks around a page grow with the order.
LEMMA BaseNested ==
    ASSUME NEW off \in Nat, NEW j \in 0 .. BUDDY_MAX_ORDER,
           NEW k \in j .. BUDDY_MAX_ORDER
    PROVE  /\ Base(off, k) <= Base(off, j)
           /\ Base(off, j) + Pages[j] <= Base(off, k) + Pages[k]
<1> DEFINE Good(i) == /\ Base(off, i) <= Base(off, j)
                      /\ Base(off, j) + Pages[j] <= Base(off, i) + Pages[i]
           Bad == {i \in j .. BUDDY_MAX_ORDER : ~Good(i)}
<1>1. SUFFICES ASSUME Bad # {} PROVE FALSE
  OBVIOUS
<1>2. PICK i \in Bad : \A y \in Bad : i <= y
  <2>1. Bad \in SUBSET Nat
    BY BuddyConstants
  <2>2. QED
    BY <1>1, <2>1, MinProps
<1>3. Base(off, j) \in Nat /\ Pages[j] \in Nat
  BY BaseProps, PagesPositive
<1>4. i # j
  BY <1>3
<1> DEFINE h == i - 1
<1>5. h \in Orders /\ h \in j .. BUDDY_MAX_ORDER /\ h + 1 = i /\ h \notin Bad
  BY <1>2, <1>4, BuddyConstants DEF Orders
<1>6. Good(h)
  BY <1>5
<1>7. /\ Base(off, h) \in Nat /\ Pages[h] \in Nat \ {0}
      /\ Base(off, i) \in Nat /\ Pages[i] = Pages[h] + Pages[h]
  BY <1>5, BaseProps, PagesPositive, PagesDouble, BuddyConstants
<1>8. Base(off, i) = Base(off, h) \/ Base(off, i) = Base(off, h) - Pages[h]
  BY <1>5, BaseStep
<1>9. Good(i)
  BY <1>3, <1>6, <1>7, <1>8
<1>10. QED
  BY <1>2, <1>9
-----------------------------------------------------------------------------
(* The pages of blocks.                                                    *)

\* The pages of a block, as an interval.
LEMMA InSpan ==
    ASSUME NEW off \in Nat, NEW k \in 0 .. BUDDY_MAX_ORDER, NEW p \in Int
    PROVE  p \in Span(off, k) <=> off <= p /\ p < off + Pages[k]
<1>1. Pages[k] \in Nat
  BY PagesPositive
<1>2. QED
  BY <1>1 DEF Span

\* A block of order k + 1 consists of the block of order k and its buddy.
LEMMA SpanStep ==
    ASSUME NEW off \in Nat, NEW k \in Orders
    PROVE  /\ BuddyOf(Base(off, k), k) \in Nat
           /\ Span(Base(off, k + 1), k + 1) =
                 Span(Base(off, k), k) \cup Span(BuddyOf(Base(off, k), k), k)
           /\ Span(Base(off, k), k) \cap Span(BuddyOf(Base(off, k), k), k) = {}
<1>1. /\ Pages[k] \in Nat \ {0} /\ Pages[k + 1] = Pages[k] + Pages[k]
      /\ k \in 0 .. BUDDY_MAX_ORDER /\ k + 1 \in 0 .. BUDDY_MAX_ORDER
  BY PagesPositive, PagesDouble
<1>2. Base(off, k) \in Nat /\ Base(off, k + 1) \in Nat
  BY <1>1, BaseProps
<1>3. QED
  BY <1>1, <1>2, BaseStep DEF Span
=============================================================================
