------------------------------ MODULE Reductions ------------------------------
(***************************************************************************)
(* The kernels that reduce over a warp with vshfl: softmax_decode.S,       *)
(* rmsnorm.S and argmax.S, block of instructions by block.                 *)
(*                                                                         *)
(* The maximum of some numbers is represented by the set of them, their    *)
(* sum by the bag of them: what was left out, counted twice or taken from  *)
(* a register nobody wrote shows.  The order of floating-point additions   *)
(* is not part of the model.                                               *)
(***************************************************************************)
EXTENDS Warp, Bags

CONSTANT
    LaneElems          \* elements of a row per lane of rmsnorm.S (28)

ASSUME ReductionConstants == LaneElems \in Nat \ {0}

\* The register of every lane.
Column(f) == [l \in Lanes |-> reg[l][f]]

\* The butterflies: for each mask a shuffle, then the lane's own value with its
\* partner's.  Only the running lanes cur change their register r[l].
WarpMax(r, cur) ==
    FoldLeft(LAMBDA f, mask :
                 [l \in Lanes |-> IF l \in cur THEN f[l] \cup Shuffled(f, mask)[l] ELSE f[l]],
             r, Masks)

WarpSum(r, cur) ==
    FoldLeft(LAMBDA f, mask :
                 [l \in Lanes |-> IF l \in cur THEN f[l] (+) Shuffled(f, mask)[l] ELSE f[l]],
             r, Masks)
-----------------------------------------------------------------------------
\* softmax_decode.S: the row of the block's query head.
ScoreRow == args.scores_off + block * args.max_seq

\* s4 = ceil((S - lane_id) / 32), 0 for a lane that has no position.
IterCount(l) == ((args.cur_pos + 1) - l + (WarpSize - 1)) \div WarpSize

SoftmaxReg ==
    [s5 |-> 0, t1 |-> 0, ft0 |-> {Dirty}, ft5 |-> {Dirty},
     ft6 |-> SetToBag({Dirty})]

\* mv s5, s4 and t1 = the lane's first position.
Rewound(l, r) == [r EXCEPT !.s5 = IterCount(l), !.t1 = ScoreRow + l]

\* t1 += 128; s5 -= 1.
Advanced(r) == [r EXCEPT !.s5 = @ - 1, !.t1 = @ + WarpSize]

\* Fault: an empty lane leaves before its registers are set (the beqz that is
\* commented out in the code).
SoftmaxStart_EmptyLeave(l) ==
    IF IterCount(l) = 0 THEN Does(Done, reg[l], {})
    ELSE Does(1, Rewound(l, [reg[l] EXCEPT !.ft0 = {}]), {})

\* Up to p1_loop: ft0 = -INF in every lane.
SoftmaxStart(l) == Does(1, Rewound(l, [reg[l] EXCEPT !.ft0 = {}]), {})

\* p1_loop: the largest of the lane's own positions.
p1_loop(l) ==
    LET r == reg[l]
    IN  IF r.s5 = 0 THEN Does(2, r, {})
        ELSE Does(1, Advanced([r EXCEPT !.ft0 = @ \cup {Load(r.t1)}]), {})

\* p1_done up to p2_loop: warp_max to ft5, ft6 = 0.
p1_done(l, cur) ==
    Does(3, Rewound(l, [reg[l] EXCEPT !.ft5 = WarpMax(Column("ft0"), cur)[l],
                                      !.ft6 = EmptyBag]), {})

\* p2_loop: exp(x - warp_max) in place, and their sum.
p2_loop(l) ==
    LET r == reg[l]
        e == <<"exp", Load(r.t1), r.ft5>>
    IN  IF r.s5 = 0 THEN Does(4, r, {})
        ELSE Does(3, Advanced([r EXCEPT !.ft6 = @ (+) SetToBag({e})]), {<<r.t1, e>>})

\* p2_done up to p3_loop; a lane without positions is done.
p2_done(l, cur) ==
    LET r == Rewound(l, [reg[l] EXCEPT !.ft6 = WarpSum(Column("ft6"), cur)[l]])
    IN  Does(IF r.s5 = 0 THEN Done ELSE 5, r, {})

\* p3_loop: divide by warp_sum in place.
p3_loop(l) ==
    LET r == reg[l]
    IN  Does(IF r.s5 = 1 THEN Done ELSE 5, Advanced(r),
             {<<r.t1, <<"div", Load(r.t1), r.ft6>> >>})

softmax_decode(l, cur) ==
    CASE pc[l] = 0 -> SoftmaxStart(l)
      [] pc[l] = 1 -> p1_loop(l)
      [] pc[l] = 2 -> p1_done(l, cur)
      [] pc[l] = 3 -> p2_loop(l)
      [] pc[l] = 4 -> p2_done(l, cur)
      [] pc[l] = 5 -> p3_loop(l)
-----------------------------------------------------------------------------
RmsnormReg == [t0 |-> 0, ft1 |-> SetToBag({Dirty})]

\* rmsnorm.S: a lane's LaneElems consecutive elements, whatever d says; t0
\* counts down.  Block 2 is the butterfly, block 3 the scaling.
rmsnorm(l, cur) ==
    LET r    == reg[l]
        i    == l * LaneElems + (LaneElems - r.t0)
        x    == Load(args.in_off + i)
        next == [r EXCEPT !.t0 = @ - 1]
    IN  CASE pc[l] = 0 -> Does(1, [t0 |-> LaneElems, ft1 |-> EmptyBag], {})
          [] pc[l] = 1 -> Does(IF r.t0 = 1 THEN 2 ELSE 1,
                               [next EXCEPT !.ft1 = @ (+) SetToBag({<<"square", x>>})],
                               {})
          [] pc[l] = 2 -> Does(3, [t0 |-> LaneElems,
                                   ft1 |-> WarpSum(Column("ft1"), cur)[l]],
                               {})
          [] pc[l] = 3 -> Does(IF r.t0 = 1 THEN Done ELSE 3, next,
                               {<<args.out_off + i,
                                  <<"norm", x, r.ft1, Load(args.weight_off + i)>> >>})
-----------------------------------------------------------------------------
\* argmax.S.  Logits are ranks: NaN compares false, and nothing is below -INF.
NaN == -1
NegInf == 0

flt(a, b) == a # NaN /\ b # NaN /\ a < b
feq(a, b) == a # NaN /\ b # NaN /\ a = b

\* The index no logit has: 0x7F7FFFFF.
NoIndex == 2139095039

ArgmaxReg == [t1 |-> 0, s0 |-> 0, ft0 |-> NaN, ft1 |-> NaN, ft2 |-> 0, ft3 |-> NaN,
              ft4 |-> 0]

\* DUMP_FT2.
Dump(l, slot, v) == {<<args.debug_base + l * 8 + slot, <<"u32", v>> >>}

\* The blocks of round n of the reduction, and those after the last round.
Shuffle(n) == 5 + 3 * n
Equal(n) == 6 + 3 * n
Take(n) == 7 + 3 * n
Final == Shuffle(Rounds)
Store == Final + 1

\* Fault: the counter is not incremented.
phaseA_skip_Still(l) == Does(1, reg[l], {})

\* phaseA_skip: the next turn, or the reduction, with the index moved to ft2.
phaseA_skip(l) ==
    LET r == [reg[l] EXCEPT !.t1 = @ + 1]
    IN  IF r.t1 # (args.V + (WarpSize - 1)) \div WarpSize THEN Does(1, r, {})
        ELSE Does(Shuffle(0), [r EXCEPT !.ft2 = r.s0], {})

\* phaseA_loop: indices lane, lane + 32, ... below V; the first largest wins.
PhaseA(l) ==
    LET r == reg[l]
        i == r.t1 * WarpSize + l
    IN  CASE pc[l] = 0 -> Does(1, [r EXCEPT !.s0 = NoIndex, !.ft1 = NegInf, !.t1 = 0], {})
          [] pc[l] = 1 -> Does(IF i >= args.V THEN 4 ELSE 2, r, {})
          [] pc[l] = 2 -> LET x == Load(args.logits_base + i)
                          IN  Does(IF flt(r.ft1, x) THEN 3 ELSE 4,
                                   [r EXCEPT !.ft0 = x], {})
          [] pc[l] = 3 -> Does(4, [r EXCEPT !.ft1 = r.ft0, !.s0 = i], {})
          [] pc[l] = 4 -> phaseA_skip(l)

\* The largest mask comes first.
ArgmaxMask(n) == Masks[Rounds - n]

\* Fault: the partner's index is not looked at when the values are equal.
ReduceStep_NoTie(l, n) ==
    LET r == reg[l]
        p == reg[Partner(l, ArgmaxMask(n))]
        s == [r EXCEPT !.ft3 = p.ft1, !.ft4 = p.ft2]
    IN  CASE pc[l] = Shuffle(n) -> Does(IF flt(s.ft1, s.ft3) THEN Take(n) ELSE Equal(n),
                                        s, Dump(l, n, r.ft2))
          [] pc[l] = Equal(n) -> Does(Shuffle(n + 1), r, {})
          [] pc[l] = Take(n) -> Does(Shuffle(n + 1),
                                     [r EXCEPT !.ft1 = r.ft3, !.ft2 = r.ft4, !.s0 = r.ft4],
                                     {})

\* The two VSHFL_XOR and REDUCE_STEP of round n: the partner's pair is taken
\* when its value is larger, or equal with a smaller index.
ReduceStep(l, n) ==
    LET r == reg[l]
        p == reg[Partner(l, ArgmaxMask(n))]
        s == [r EXCEPT !.ft3 = p.ft1, !.ft4 = p.ft2]
    IN  CASE pc[l] = Shuffle(n) -> Does(IF flt(s.ft1, s.ft3) THEN Take(n) ELSE Equal(n),
                                        s, Dump(l, n, r.ft2))
          [] pc[l] = Equal(n) -> Does(IF feq(r.ft1, r.ft3) /\ r.ft4 < r.s0
                                      THEN Take(n) ELSE Shuffle(n + 1), r, {})
          [] pc[l] = Take(n) -> Does(Shuffle(n + 1),
                                     [r EXCEPT !.ft1 = r.ft3, !.ft2 = r.ft4, !.s0 = r.ft4],
                                     {})

\* The last dumps; lane 0 stores the result.
ArgmaxEnd(l) ==
    IF pc[l] = Final
    THEN Does(IF l = 0 THEN Store ELSE Done, reg[l],
              Dump(l, Rounds, reg[l].ft2) \cup Dump(l, Rounds + 1, reg[l].s0))
    ELSE Does(Done, reg[l], {<<args.out_base, <<"u32", reg[l].ft2>> >>})

argmax(l) ==
    IF pc[l] < Shuffle(0) THEN PhaseA(l)
    ELSE IF pc[l] < Final THEN ReduceStep(l, (pc[l] - 5) \div 3)
    ELSE ArgmaxEnd(l)
=============================================================================
