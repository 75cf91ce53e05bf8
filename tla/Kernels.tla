------------------------------- MODULE Kernels -------------------------------
(***************************************************************************)
(* The op_* helpers of lib/src/transformer.c, which fix the arguments and  *)
(* the grid of every launch, composed with the kernels they launch and the *)
(* scheduler of the device: one launch, from the first block to the last.  *)
(***************************************************************************)
EXTENDS Elementwise, Reductions

CONSTANTS
    Launches,          \* results of op_* helpers
    VramWords,         \* words of VRAM
    VocabSize,         \* rows of the embedding table: bound of token ids
    Logits             \* ranks that logits may have

vars == <<args, before, mem, block, pc, reg>>

\* Fault: the last, partial block is not launched.
Blocks_Floor(total) == total \div WarpSize

\* calc_dispatch_1warp_per_block: blocks of one warp.
Blocks(total) == (total + (WarpSize - 1)) \div WarpSize

op_rmsnorm(in_off, out_off, weight_off, D) ==
    [kernel |-> "rmsnorm", in_off |-> in_off, out_off |-> out_off,
     weight_off |-> weight_off, d |-> D, grid |-> 1]

op_gemm(a_off, b_off, c_off, M, K, N) ==
    [kernel |-> "gemm", a_off |-> a_off, b_off |-> b_off, c_off |-> c_off,
     M |-> M, K |-> K, N |-> N, grid |-> Blocks(M * N)]

op_broadcast_add(x_off, b_off, y_off, M, N) ==
    [kernel |-> "broadcast_add", x_off |-> x_off, y_off |-> y_off, b_off |-> b_off,
     M |-> M, N |-> N, grid |-> Blocks(M * N)]

op_silu(in_off, out_off, D) ==
    [kernel |-> "silu", in_off |-> in_off, out_off |-> out_off, D |-> D,
     grid |-> Blocks(D)]

\* Asserts that num is a multiple of the warp.
op_vmul(a_off, b_off, c_off, num) ==
    [kernel |-> "vmul", a_off |-> a_off, b_off |-> b_off, c_off |-> c_off,
     num |-> num, grid |-> 1]

op_rope(x_off, sincos_off, num_heads, head_dim, token_pos) ==
    [kernel |-> "rope", x_off |-> x_off, sincos_off |-> sincos_off,
     num_heads |-> num_heads, head_dim |-> head_dim, token_pos |-> token_pos,
     grid |-> 1]

op_embedding(table_off, token_id_buf, out_off, D) ==
    [kernel |-> "embedding_lookup", table_base |-> table_off,
     token_id_buf |-> token_id_buf, output_base |-> out_off, D |-> D,
     elems_per_lane |-> D \div WarpSize, grid |-> 1]

op_argmax(logits, V, out, debug) ==
    [kernel |-> "argmax", logits_base |-> logits, V |-> V, out_base |-> out,
     debug_base |-> debug, grid |-> 1]

op_qkt_decode(Q_off, K_cache_off, scores_off, cur_pos, shape) ==
    [kernel |-> "qkt_decode", Q_off |-> Q_off, K_cache_off |-> K_cache_off,
     scores_off |-> scores_off, cur_pos |-> cur_pos, max_seq |-> shape.max_seq,
     head_dim |-> shape.head_dim,
     q_per_kv |-> shape.num_q_heads \div shape.num_kv_heads,
     grid |-> shape.num_q_heads]

op_softmax_decode(scores_off, cur_pos, shape) ==
    [kernel |-> "softmax_decode", scores_off |-> scores_off, cur_pos |-> cur_pos,
     max_seq |-> shape.max_seq, grid |-> shape.num_q_heads]

op_pv_decode(P_off, V_cache_off, O_off, cur_pos, shape) ==
    [kernel |-> "pv_decode", P_off |-> P_off, V_cache_off |-> V_cache_off,
     O_off |-> O_off, cur_pos |-> cur_pos, max_seq |-> shape.max_seq,
     head_dim |-> shape.head_dim,
     q_per_kv |-> shape.num_q_heads \div shape.num_kv_heads,
     grid |-> shape.num_q_heads]
-----------------------------------------------------------------------------
Cell(a) == <<"cell", a>>

\* What the VRAM may hold when the kernel starts: any logits, any token id
\* of the vocabulary, and otherwise numbers nobody looks into.
Contents ==
    LET inputs == CASE args.kernel = "argmax" ->
                           args.logits_base .. (args.logits_base + args.V - 1)
                    [] args.kernel = "embedding_lookup" -> {args.token_id_buf}
                    [] OTHER -> {}
        values == IF args.kernel = "argmax" THEN Logits ELSE 0 .. (VocabSize - 1)
    IN  {[a \in 0 .. (VramWords - 1) |-> IF a \in inputs THEN f[a] ELSE Cell(a)] :
            f \in [inputs -> values]}

\* The registers of a warp that starts.
Reset ==
    CASE args.kernel = "softmax_decode" -> SoftmaxReg
      [] args.kernel = "rmsnorm" -> RmsnormReg
      [] args.kernel = "argmax" -> ArgmaxReg
      [] OTHER -> ElementwiseReg

Init ==
    /\ args \in Launches
    /\ before \in Contents /\ mem = before
    /\ block = 0
    /\ pc = [l \in Lanes |-> 0] /\ reg = [l \in Lanes |-> Reset]

\* The block of instructions that lane l is at.
Execute(l, cur) ==
    CASE args.kernel = "softmax_decode" -> softmax_decode(l, cur)
      [] args.kernel = "rmsnorm" -> rmsnorm(l, cur)
      [] args.kernel = "argmax" -> argmax(l)
      [] OTHER -> ElementwiseBlock(l)

\* One cycle of min-PC scheduling.  All of the running lanes load before any of
\* them stores.  (\E x \in {e} only names the value of e.)
exec_warp ==
    /\ Active # {}
    /\ \E cur \in {Current} :
       \E does \in {[l \in cur |-> Execute(l, cur)]} :
       \E stores \in {UNION {does[l].stores : l \in cur}} :
           /\ pc' = [l \in Lanes |-> IF l \in cur THEN does[l].pc ELSE pc[l]]
           /\ reg' = [l \in Lanes |-> IF l \in cur THEN does[l].reg ELSE reg[l]]
           /\ mem' = Stored(mem, stores)
    /\ UNCHANGED <<args, before, block>>

\* gpgpu_core_exec_kernel: the next block, on a warp that starts afresh.
next_block ==
    /\ Active = {} /\ block + 1 < args.grid
    /\ block' = block + 1
    /\ pc' = [l \in Lanes |-> 0] /\ reg' = [l \in Lanes |-> Reset]
    /\ UNCHANGED <<args, before, mem>>

Next == exec_warp \/ next_block

\* The interpreter's loop runs until every lane of every block has stopped.
Spec == Init /\ [][Next]_vars /\ WF_vars(Next)

Finished == Active = {} /\ block + 1 >= args.grid
-----------------------------------------------------------------------------
\* The blocks that hold a vshfl.
ShuffleBlocks ==
    CASE args.kernel = "softmax_decode" -> {2, 4}
      [] args.kernel = "rmsnorm" -> {2}
      [] args.kernel = "argmax" -> {Shuffle(n) : n \in 0 .. (Rounds - 1)}
      [] OTHER -> {}

\* A shuffle runs with the whole warp: however many turns each lane made in
\* the loops before it and whichever side of a branch it took, no lane runs
\* ahead of it, has stopped, or is still behind.  Without that a partner's
\* register is one that an earlier or a later step left there
\* (docs/4.30, "必须 32 lane 全 active", "必须 fully converged").
ShuffleConverged ==
    \A l \in Current : pc[l] \in ShuffleBlocks => Current = Lanes

\* The sum of the terms e(i), i \in s.
SumOf(e(_), s) == [t \in {e(i) : i \in s} |-> 1]

\* What the operation is to compute, from the VRAM at the launch: the words it
\* writes with their values, without lanes, blocks or order.
Result ==
    LET at(a) == before[a]
        rows  == 0 .. (args.grid - 1)
        kv(off, qh, j) == off + ((qh \div args.q_per_kv) * args.max_seq + j) * args.head_dim
        score(qh, j) == at(args.scores_off + qh * args.max_seq + j)
        expo(qh, j) == <<"exp", score(qh, j), {score(qh, i) : i \in 0 .. args.cur_pos}>>
        sq(i) == <<"square", at(args.in_off + i)>>
        half  == args.head_dim \div 2
    IN  CASE args.kernel = "gemm" ->
               {<<args.c_off + r * args.N + n,
                  <<"dot", [k \in 1 .. args.K |-> <<at(args.a_off + r * args.K + (k - 1)),
                                                    at(args.b_off + (k - 1) * args.N + n)>>]>> >> :
                    r \in 0 .. (args.M - 1), n \in 0 .. (args.N - 1)}
          [] args.kernel = "broadcast_add" ->
               {<<args.y_off + r * args.N + n,
                  <<"add", at(args.x_off + r * args.N + n), at(args.b_off + n)>> >> :
                    r \in 0 .. (args.M - 1), n \in 0 .. (args.N - 1)}
          [] args.kernel = "silu" ->
               {<<args.out_off + i, <<"silu", at(args.in_off + i)>> >> : i \in 0 .. (args.D - 1)}
          [] args.kernel = "vmul" ->
               {<<args.c_off + i, <<"mul", at(args.a_off + i), at(args.b_off + i)>> >> :
                    i \in 0 .. (args.num - 1)}
          [] args.kernel = "rope" ->
               UNION {LET x   == args.x_off + h * args.head_dim + k
                          cs  == args.sincos_off + args.token_pos * args.head_dim + 2 * k
                          ops == <<at(x), at(x + half), at(cs), at(cs + 1)>>
                      IN  {<<x, <<"rot_lo", ops>> >>, <<x + half, <<"rot_hi", ops>> >>} :
                        h \in 0 .. (args.num_heads - 1), k \in 0 .. (half - 1)}
          [] args.kernel = "embedding_lookup" ->
               {<<args.output_base + d,
                  at(args.table_base + at(args.token_id_buf) * args.D + d)>> :
                    d \in 0 .. (args.D - 1)}
          [] args.kernel = "qkt_decode" ->
               {<<args.scores_off + qh * args.max_seq + j,
                  <<"score", [k \in 1 .. args.head_dim |->
                                <<at(args.Q_off + qh * args.head_dim + (k - 1)),
                                  at(kv(args.K_cache_off, qh, j) + (k - 1))>>]>> >> :
                    qh \in rows, j \in 0 .. args.cur_pos}
          [] args.kernel = "softmax_decode" ->
               {<<args.scores_off + qh * args.max_seq + j,
                  <<"div", expo(qh, j), SumOf(LAMBDA i : expo(qh, i), 0 .. args.cur_pos)>> >> :
                    qh \in rows, j \in 0 .. args.cur_pos}
          [] args.kernel = "pv_decode" ->
               {<<args.O_off + qh * args.head_dim + k,
                  <<"dot", [j \in 1 .. (args.cur_pos + 1) |->
                              <<at(args.P_off + qh * args.max_seq + (j - 1)),
                                at(kv(args.V_cache_off, qh, j - 1) + k)>>]>> >> :
                    qh \in rows, k \in 0 .. (args.head_dim - 1)}
          [] args.kernel = "rmsnorm" ->
               {<<args.out_off + i,
                  <<"norm", at(args.in_off + i), SumOf(sq, 0 .. (args.d - 1)),
                    at(args.weight_off + i)>> >> : i \in 0 .. (args.d - 1)}

\* A launch computes the operation it stands for, and touches nothing else:
\* the blocks of its grid and the turns of its lanes cover every element once,
\* in place or not, and every reduction sees each element of its row exactly
\* once, also when the row is shorter than the warp or no multiple of it.
ComputesTheOperation ==
    Finished /\ args.kernel # "argmax" => mem = Stored(before, Result)

\* argmax.S stores the first index of the largest logit, never that of a NaN;
\* when no logit is above -INF it stores 0x7F7FFFFF, which is no token.  Beside
\* the result it writes only its debug slots.
ArgmaxIsFirstMaximum ==
    Finished /\ args.kernel = "argmax" =>
        LET logit(i) == before[args.logits_base + i]
            above    == {i \in 0 .. (args.V - 1) : logit(i) > NegInf}
            best     == {i \in above : \A j \in above : logit(j) <= logit(i)}
            first    == IF best = {} THEN NoIndex
                        ELSE CHOOSE i \in best : \A j \in best : i <= j
            slots    == args.debug_base .. (args.debug_base + 8 * WarpSize - 1)
        IN  /\ mem[args.out_base] = <<"u32", first>>
            /\ \A a \in DOMAIN mem \ (slots \cup {args.out_base}) : mem[a] = before[a]

\* No lane starves: the warp of every block comes to its end, although
\* min-PC scheduling always prefers the lanes that are behind (README.md:376).
KernelEnds == <>Finished
=============================================================================
