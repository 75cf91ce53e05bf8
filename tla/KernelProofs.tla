---------------------------- MODULE KernelProofs ----------------------------
(***************************************************************************)
(* Every shuffle runs with the whole warp: for every width of the warp,    *)
(* every launch and every contents of the VRAM.                            *)
(*                                                                         *)
(* The argument does not follow the lanes through their loops.  A block    *)
(* with a shuffle is a barrier: the blocks before it lead at most to it,   *)
(* and it leads past itself and so do all blocks behind it (Barrier).      *)
(* Under min-PC scheduling that suffices: a lane waits at the barrier as   *)
(* long as one lane is in front of it, so that the lanes are all at or     *)
(* before it or all past it (Together).                                    *)
(***************************************************************************)
EXTENDS Kernels, TLAPS

\* The blocks of each kernel.
Labels ==
    CASE args.kernel = "softmax_decode" -> 0 .. 5
      [] args.kernel = "rmsnorm" -> 0 .. 3
      [] args.kernel = "argmax" -> 0 .. Store
      [] OTHER -> 0 .. 1

\* Where a lane may go from block p.
Barrier(p, q) ==
    /\ q \in Labels \cup {Done}
    /\ \A s \in ShuffleBlocks : (p < s => q <= s) /\ (p >= s => q > s)

\* All lanes are at or before the shuffle s, or all of them are past it.
Together(s) ==
    (\A l \in Lanes : pc[l] <= s) \/ (\A l \in Lanes : pc[l] > s)

\* The inductive invariant: lanes are at blocks of their kernel, and no
\* shuffle separates them.
Converging ==
    /\ pc \in [Lanes -> Labels \cup {Done}]
    /\ \A s \in ShuffleBlocks : Together(s)

\* Program counters are numbers below Done, and shuffles are blocks.
LEMMA LabelsAreBlocks ==
    /\ Rounds \in Nat /\ Done \in Nat
    /\ 0 \in Labels /\ \A p \in Labels : p \in Nat /\ p < Done
    /\ \A s \in ShuffleBlocks : s \in Labels /\ s # 0
<1>1. Rounds \in Nat /\ Done \in Nat /\ Done >= 10
  BY WarpConstants DEF Done
<1>2. Store \in Nat /\ Store = Done - 1
  BY WarpConstants DEF Store, Final, Shuffle, Done
<1>3. Labels \subseteq 0 .. (Done - 1) /\ 0 \in Labels
  BY <1>1, <1>2 DEF Labels
<1>4. ASSUME NEW n \in 0 .. (Rounds - 1)
      PROVE  Shuffle(n) \in 1 .. Store
  BY WarpConstants DEF Shuffle, Store, Final
<1>5. ShuffleBlocks \subseteq Labels /\ 0 \notin ShuffleBlocks
  BY <1>1, <1>2, <1>4 DEF ShuffleBlocks, Labels
<1>6. \A p \in Labels : p \in Nat /\ p < Done
  BY <1>1, <1>3
<1>. QED  BY <1>1, <1>3, <1>5, <1>6

\* softmax_decode.S: the loops p1 and p2 end at their shuffles, the empty lane
\* leaves behind the second one.
LEMMA SoftmaxBarrier ==
    ASSUME args.kernel = "softmax_decode", NEW l \in Lanes, NEW cur,
           pc[l] \in Labels
    PROVE  Barrier(pc[l], Execute(l, cur).pc)
<1>1. Labels = 0 .. 5 /\ ShuffleBlocks = {2, 4}
  BY DEF Labels, ShuffleBlocks
<1>2. Done \in Nat /\ Done >= 10
  BY WarpConstants DEF Done
<1>3. Execute(l, cur) = softmax_decode(l, cur)
  BY DEF Execute
<1>4. CASE pc[l] = 0
  <2>1. softmax_decode(l, cur) = SoftmaxStart(l)
    BY <1>4 DEF softmax_decode
  <2>2. SoftmaxStart(l).pc = 1
    BY DEF SoftmaxStart, Does
  <2>. QED  BY <1>1, <1>2, <1>3, <1>4, <2>1, <2>2 DEF Barrier
<1>5. CASE pc[l] = 1
  <2>1. softmax_decode(l, cur) = p1_loop(l)
    BY <1>5 DEF softmax_decode
  <2>2. p1_loop(l).pc \in {1, 2}
    BY DEF p1_loop, Does
  <2>. QED  BY <1>1, <1>2, <1>3, <1>5, <2>1, <2>2 DEF Barrier
<1>6. CASE pc[l] = 2
  <2>1. softmax_decode(l, cur) = p1_done(l, cur)
    BY <1>6 DEF softmax_decode
  <2>2. p1_done(l, cur).pc = 3
    BY DEF p1_done, Does
  <2>. QED  BY <1>1, <1>2, <1>3, <1>6, <2>1, <2>2 DEF Barrier
<1>7. CASE pc[l] = 3
  <2>1. softmax_decode(l, cur) = p2_loop(l)
    BY <1>7 DEF softmax_decode
  <2>2. p2_loop(l).pc \in {3, 4}
    BY DEF p2_loop, Does
  <2>. QED  BY <1>1, <1>2, <1>3, <1>7, <2>1, <2>2 DEF Barrier
<1>8. CASE pc[l] = 4
  <2>1. softmax_decode(l, cur) = p2_done(l, cur)
    BY <1>8 DEF softmax_decode
  <2>2. p2_done(l, cur).pc \in {5, Done}
    BY DEF p2_done, Does
  <2>. QED  BY <1>1, <1>2, <1>3, <1>8, <2>1, <2>2 DEF Barrier
<1>9. CASE pc[l] = 5
  <2>1. softmax_decode(l, cur) = p3_loop(l)
    BY <1>9 DEF softmax_decode
  <2>2. p3_loop(l).pc \in {5, Done}
    BY DEF p3_loop, Does
  <2>. QED  BY <1>1, <1>2, <1>3, <1>9, <2>1, <2>2 DEF Barrier
<1>. QED  BY <1>1, <1>4, <1>5, <1>6, <1>7, <1>8, <1>9

\* rmsnorm.S: every lane makes LaneElems turns before the butterfly.
LEMMA RmsnormBarrier ==
    ASSUME args.kernel = "rmsnorm", NEW l \in Lanes, NEW cur, pc[l] \in Labels
    PROVE  Barrier(pc[l], Execute(l, cur).pc)
<1>1. Labels = 0 .. 3 /\ ShuffleBlocks = {2}
  BY DEF Labels, ShuffleBlocks
<1>2. Done \in Nat /\ Done >= 10
  BY WarpConstants DEF Done
<1>3. Execute(l, cur) = rmsnorm(l, cur)
  BY DEF Execute
<1>4. CASE pc[l] = 0
  <2>1. rmsnorm(l, cur).pc = 1
    BY <1>4 DEF rmsnorm, Does
  <2>. QED  BY <1>1, <1>2, <1>3, <1>4, <2>1 DEF Barrier
<1>5. CASE pc[l] = 1
  <2>1. rmsnorm(l, cur).pc \in {1, 2}
    BY <1>5 DEF rmsnorm, Does
  <2>. QED  BY <1>1, <1>2, <1>3, <1>5, <2>1 DEF Barrier
<1>6. CASE pc[l] = 2
  <2>1. rmsnorm(l, cur).pc = 3
    BY <1>6 DEF rmsnorm, Does
  <2>. QED  BY <1>1, <1>2, <1>3, <1>6, <2>1 DEF Barrier
<1>7. CASE pc[l] = 3
  <2>1. rmsnorm(l, cur).pc \in {3, Done}
    BY <1>7 DEF rmsnorm, Does
  <2>. QED  BY <1>1, <1>2, <1>3, <1>7, <2>1 DEF Barrier
<1>. QED  BY <1>1, <1>4, <1>5, <1>6, <1>7

\* The round that a block of the reduction belongs to.
LEMMA RoundOf ==
    ASSUME NEW p \in Int, NEW r \in Nat, p >= 5, p < 5 + 3 * r
    PROVE  /\ ((p - 5) \div 3) \in 0 .. (r - 1)
           /\ p = 5 + 3 * ((p - 5) \div 3) \/ p = 6 + 3 * ((p - 5) \div 3)
              \/ p = 7 + 3 * ((p - 5) \div 3)
OBVIOUS

\* REDUCE_STEP: from the shuffle to the comparison or the taking, and from
\* there to the next shuffle.
LEMMA ReduceGoes ==
    ASSUME NEW l \in Lanes, NEW n \in Nat,
           pc[l] = Shuffle(n) \/ pc[l] = Equal(n) \/ pc[l] = Take(n)
    PROVE  ReduceStep(l, n).pc \in {Equal(n), Take(n), Shuffle(n + 1)}
<1>1. Shuffle(n) # Equal(n) /\ Shuffle(n) # Take(n) /\ Equal(n) # Take(n)
  BY DEF Shuffle, Equal, Take
<1>2. CASE pc[l] = Shuffle(n)
  BY <1>2 DEF ReduceStep, Does
<1>3. CASE pc[l] = Equal(n)
  BY <1>1, <1>3 DEF ReduceStep, Does
<1>4. CASE pc[l] = Take(n)
  BY <1>1, <1>4 DEF ReduceStep, Does
<1>. QED  BY <1>2, <1>3, <1>4

\* argmax.S: phase A ends at the first shuffle, and both branches of
\* REDUCE_STEP meet at the next one.
LEMMA ArgmaxBarrier ==
    ASSUME args.kernel = "argmax", NEW l \in Lanes, NEW cur, pc[l] \in Labels
    PROVE  Barrier(pc[l], Execute(l, cur).pc)
<1>1. Rounds \in Nat /\ Rounds >= 1
  BY WarpConstants
<1>2. Final = 5 + 3 * Rounds /\ Store = 6 + 3 * Rounds /\ Done = 7 + 3 * Rounds
  BY <1>1 DEF Store, Final, Shuffle, Done
<1>3. Labels = 0 .. Store
  BY DEF Labels
<1>4. \A s \in ShuffleBlocks : \E m \in 0 .. (Rounds - 1) : s = 5 + 3 * m
  BY DEF ShuffleBlocks, Shuffle
<1>5. Execute(l, cur) = argmax(l)
  BY DEF Execute
<1>. DEFINE p == pc[l]
            q == argmax(l).pc
<1>6. p \in Int /\ p >= 0 /\ p <= Store
  BY <1>1, <1>2, <1>3
<1>7. SUFFICES /\ q \in Int /\ 0 <= q /\ q <= Done
               /\ \A m \in 0 .. (Rounds - 1) :
                      /\ p < 5 + 3 * m => q <= 5 + 3 * m
                      /\ p >= 5 + 3 * m => q > 5 + 3 * m
  <2>. HIDE DEF p, q
  <2>1. q \in Labels \cup {Done}
    BY <1>1, <1>2, <1>3, <1>7
  <2>. QED  BY <1>4, <1>5, <1>7, <2>1 DEF Barrier, p, q
<1>8. CASE p < 5
  <2>1. argmax(l) = PhaseA(l)
    BY <1>8 DEF argmax, Shuffle
  <2>2. phaseA_skip(l).pc \in {1, 5}
    BY DEF phaseA_skip, Does, Shuffle
  <2>3. CASE p = 0
    BY <2>1, <2>3, <1>1, <1>2 DEF PhaseA, Does
  <2>4. CASE p = 1
    BY <2>1, <2>4, <1>1, <1>2 DEF PhaseA, Does
  <2>5. CASE p = 2
    BY <2>1, <2>5, <1>1, <1>2 DEF PhaseA, Does
  <2>6. CASE p = 3
    BY <2>1, <2>6, <1>1, <1>2 DEF PhaseA, Does
  <2>7. CASE p = 4
    <3>1. q \in {1, 5}
      BY <2>1, <2>2, <2>7 DEF PhaseA
    <3>. QED  BY <3>1, <2>7, <1>1, <1>2
  <2>. QED  BY <1>6, <1>8, <2>3, <2>4, <2>5, <2>6, <2>7
<1>9. CASE p >= 5 /\ p < Final
  <2>. DEFINE n == (p - 5) \div 3
  <2>1. argmax(l) = ReduceStep(l, n)
    BY <1>6, <1>9 DEF argmax, Shuffle
  <2>2. n \in 0 .. (Rounds - 1) /\ (p = 5 + 3 * n \/ p = 6 + 3 * n \/ p = 7 + 3 * n)
    BY <1>1, <1>2, <1>6, <1>9, RoundOf
  <2>. HIDE DEF n
  <2>3. n \in Nat
    BY <2>2, <1>1
  <2>4. q \in {6 + 3 * n, 7 + 3 * n, 8 + 3 * n}
    <3>1. p = Shuffle(n) \/ p = Equal(n) \/ p = Take(n)
      BY <2>2 DEF Shuffle, Equal, Take
    <3>2. q \in {Equal(n), Take(n), Shuffle(n + 1)}
      BY <3>1, <2>1, <2>3, ReduceGoes
    <3>. QED  BY <3>2, <2>3 DEF Shuffle, Equal, Take
  <2>. HIDE DEF p, q
  <2>. QED  BY <1>1, <1>2, <2>2, <2>4
<1>10. CASE p = Final \/ p = Store
  <2>1. argmax(l) = ArgmaxEnd(l)
    BY <1>1, <1>2, <1>10 DEF argmax, Shuffle
  <2>2. q \in {Store, Done}
    BY <2>1 DEF ArgmaxEnd, Does
  <2>. HIDE DEF p, q
  <2>. QED  BY <1>1, <1>2, <1>10, <2>2
<1>. QED  BY <1>1, <1>2, <1>6, <1>8, <1>9, <1>10

\* Every block of every kernel respects its barriers.
LEMMA ExecuteBarrier ==
    ASSUME NEW l \in Lanes, NEW cur, pc[l] \in Labels
    PROVE  Barrier(pc[l], Execute(l, cur).pc)
<1>1. CASE args.kernel = "softmax_decode"
  BY <1>1, SoftmaxBarrier
<1>2. CASE args.kernel = "rmsnorm"
  BY <1>2, RmsnormBarrier
<1>3. CASE args.kernel = "argmax"
  BY <1>3, ArgmaxBarrier
<1>4. CASE args.kernel \notin {"softmax_decode", "rmsnorm", "argmax"}
  <2>1. Labels = 0 .. 1 /\ ShuffleBlocks = {}
    BY <1>4 DEF Labels, ShuffleBlocks
  <2>2. Execute(l, cur) = ElementwiseBlock(l)
    BY <1>4 DEF Execute
  <2>3. ElementwiseBlock(l).pc \in {0, 1, Done}
    BY DEF ElementwiseBlock, Does
  <2>. QED  BY <2>1, <2>2, <2>3 DEF Barrier
<1>. QED  BY <1>1, <1>2, <1>3, <1>4

\* When a lane runs at a shuffle, no lane is past it: then all of them are at
\* it and run.
LEMMA AllArrive ==
    ASSUME Converging, NEW l \in Current, pc[l] \in ShuffleBlocks
    PROVE  Current = Lanes /\ \A k \in Lanes : pc[k] = pc[l]
<1>1. l \in Lanes /\ \A k \in Active : pc[l] <= pc[k]
  BY DEF Current, Active
<1>2. pc[l] \in Nat /\ pc[l] < Done /\ Done \in Nat
  BY LabelsAreBlocks
<1>3. \A k \in Lanes : pc[k] \in Nat
  <2>1. \A k \in Lanes : pc[k] \in Labels \cup {Done}
    BY DEF Converging
  <2>. QED  BY <2>1, LabelsAreBlocks
<1>4. Together(pc[l])
  BY DEF Converging
<1>5. \A k \in Lanes : pc[k] <= pc[l]
  BY <1>1, <1>2, <1>4 DEF Together
<1>6. \A k \in Lanes : k \in Active
  BY <1>2, <1>3, <1>5 DEF Active
<1>7. \A k \in Lanes : pc[k] = pc[l]
  BY <1>1, <1>2, <1>3, <1>5, <1>6
<1>8. \A k \in Lanes : k \in Current
  BY <1>2, <1>6, <1>7 DEF Current, Active
<1>. QED  BY <1>7, <1>8 DEF Current, Active

\* A cycle of the warp moves the running lanes along their barriers.
LEMMA CycleConverges ==
    ASSUME Converging, exec_warp
    PROVE  Converging'
<1>1. args' = args
  BY DEF exec_warp
<1>2. Labels' = Labels /\ ShuffleBlocks' = ShuffleBlocks
  BY <1>1 DEF Labels, ShuffleBlocks
<1>3. \A l \in Lanes : pc[l] \in Labels \cup {Done}
  BY DEF Converging
<1>4. \A l \in Current : l \in Lanes /\ pc[l] \in Labels
  BY <1>3 DEF Current, Active
<1>5. pc' = [l \in Lanes |-> IF l \in Current THEN Execute(l, Current).pc ELSE pc[l]]
  <2>1. PICK cur \in {Current} : \E does \in {[l \in cur |-> Execute(l, cur)]} :
            pc' = [l \in Lanes |-> IF l \in cur THEN does[l].pc ELSE pc[l]]
    BY Zenon DEF exec_warp
  <2>2. PICK does \in {[l \in cur |-> Execute(l, cur)]} :
            pc' = [l \in Lanes |-> IF l \in cur THEN does[l].pc ELSE pc[l]]
    BY <2>1
  <2>3. cur = Current /\ \A l \in Current : does[l] = Execute(l, Current)
    BY <2>1, <2>2
  <2>. QED  BY <2>2, <2>3
<1>6. \A l \in Current : Barrier(pc[l], pc'[l])
  BY <1>4, <1>5, ExecuteBarrier
<1>7. \A l \in Lanes \ Current : pc'[l] = pc[l]
  BY <1>5
<1>8. pc' \in [Lanes -> Labels \cup {Done}]
  <2>1. \A l \in Lanes : pc'[l] \in Labels \cup {Done}
    BY <1>3, <1>6, <1>7 DEF Barrier
  <2>. QED  BY <1>5, <2>1
<1>9. ASSUME NEW s \in ShuffleBlocks
      PROVE  Together(s)'
  <2>1. s \in Nat /\ \A l \in Lanes : pc[l] \in Nat /\ pc'[l] \in Nat
    BY <1>3, <1>8, LabelsAreBlocks
  <2>2. CASE \A l \in Lanes : pc[l] > s
    <3>1. \A l \in Lanes : pc'[l] > s
      BY <1>6, <1>7, <2>1, <2>2, <1>4 DEF Barrier
    <3>. QED  BY <3>1 DEF Together
  <2>3. CASE (\A l \in Lanes : pc[l] <= s) /\ \E l \in Current : pc[l] = s
    <3>1. Current = Lanes /\ \A k \in Lanes : pc[k] = s
      BY <2>3, AllArrive
    <3>2. \A l \in Lanes : pc'[l] > s
      BY <1>6, <2>1, <3>1 DEF Barrier
    <3>. QED  BY <3>2 DEF Together
  <2>4. CASE (\A l \in Lanes : pc[l] <= s) /\ \A l \in Current : pc[l] # s
    <3>1. \A l \in Lanes : pc'[l] <= s
      BY <1>4, <1>6, <1>7, <2>1, <2>4 DEF Barrier
    <3>. QED  BY <3>1 DEF Together
  <2>5. Together(s)
    BY DEF Converging
  <2>. QED  BY <2>2, <2>3, <2>4, <2>5 DEF Together
<1>. QED  BY <1>2, <1>8, <1>9 DEF Converging

\* A warp that starts is at block 0, before every shuffle.
LEMMA StartConverges ==
    ASSUME pc = [l \in Lanes |-> 0]
    PROVE  Converging
<1>1. \A s \in ShuffleBlocks : s \in Nat
  BY LabelsAreBlocks
<1>2. \A s \in ShuffleBlocks : Together(s)
  BY <1>1 DEF Together
<1>. QED  BY <1>2, LabelsAreBlocks DEF Converging

\* The invariant behind ShuffleConverged, for every launch and every width.
THEOREM WarpConverges == Spec => []Converging
<1>1. Init => Converging
  BY StartConverges DEF Init
<1>2. Converging /\ [Next]_vars => Converging'
  <2>. SUFFICES ASSUME Converging, [Next]_vars PROVE Converging'
    OBVIOUS
  <2>1. CASE exec_warp
    BY <2>1, CycleConverges
  <2>2. CASE next_block
    <3>1. pc' = [l \in Lanes |-> 0]
      BY <2>2 DEF next_block
    <3>2. (pc = [l \in Lanes |-> 0])' => Converging'
      BY StartConverges, PTL
    <3>. QED  BY <3>1, <3>2
  <2>3. CASE UNCHANGED vars
    BY <2>3 DEF vars, Converging, Together, Labels, ShuffleBlocks
  <2>. QED  BY <2>1, <2>2, <2>3 DEF Next
<1>. QED  BY <1>1, <1>2, PTL DEF Spec

\* Shuffles run with the whole warp (ShuffleConverged), whatever the branches
\* and the numbers of turns of the lanes: softmax_decode.S, rmsnorm.S and
\* argmax.S never read the register of a lane that is elsewhere.
THEOREM ShufflesRunTogether == Spec => []ShuffleConverged
<1>1. Converging => ShuffleConverged
  BY AllArrive DEF ShuffleConverged
<1>. QED  BY <1>1, WarpConverges, PTL
=============================================================================
