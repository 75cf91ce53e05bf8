----------------------------- MODULE Elementwise -----------------------------
(***************************************************************************)
(* The kernels whose lanes do not talk to each other: gemm.S,              *)
(* broadcast_add.S, silu.S, vmul.S, rope.S, embedding_lookup.S,            *)
(* qkt_decode.S and pv_decode.S.                                           *)
(*                                                                         *)
(* Each is a loop of turns: block 0 is the test that ends it, block 1 its  *)
(* body.  Inner loops that accumulate over the same indices in every lane  *)
(* are in closed form.  Numbers are terms: <<"dot", s>> is the sum over    *)
(* the pairs in s of their products, <<"cell", a>> what a word held.       *)
(***************************************************************************)
EXTENDS Warp

\* block_id * 32 + lane_id.
LinearId(l) == block * WarpSize + l

\* Lane l makes turn t: the guards on the thread id, and the loop tests.
\* rope.S and embedding_lookup.S test at the end of the loop.
Goes(l, t) ==
    CASE args.kernel = "gemm" -> t = 0 /\ LinearId(l) < args.M * args.N
      [] args.kernel = "broadcast_add" -> t = 0 /\ LinearId(l) < args.M * args.N
      [] args.kernel = "silu" -> t = 0 /\ LinearId(l) < args.D
      [] args.kernel = "vmul" -> t < args.num \div WarpSize
      [] args.kernel = "rope" -> t = 0 \/ t < args.num_heads
      [] args.kernel = "embedding_lookup" -> t = 0 \/ t < args.elems_per_lane
      [] args.kernel = "qkt_decode" -> l + t * WarpSize < args.cur_pos + 1
      [] args.kernel = "pv_decode" -> t < args.head_dim \div WarpSize

gemm(l) ==
    LET row == LinearId(l) \div args.N
        col == LinearId(l) % args.N
    IN  {<<args.c_off + row * args.N + col,
           <<"dot", [k \in 1 .. args.K |->
                        <<Load(args.a_off + row * args.K + (k - 1)),
                          Load(args.b_off + (k - 1) * args.N + col)>>]>> >>}

broadcast_add(l) ==
    {<<args.y_off + LinearId(l),
       <<"add", Load(args.x_off + LinearId(l)),
                Load(args.b_off + (LinearId(l) % args.N))>> >>}

silu(l) == {<<args.out_off + LinearId(l), <<"silu", Load(args.in_off + LinearId(l))>> >>}

vmul(l, t) ==
    LET i == t * WarpSize + l
    IN  {<<args.c_off + i, <<"mul", Load(args.a_off + i), Load(args.b_off + i)>> >>}

\* The other half of the pair is 128 bytes, 32 words, on: the width of the
\* warp, whatever head_dim is.
rope(l, h) ==
    LET base   == args.x_off + h * args.head_dim + l
        sincos == args.sincos_off + args.token_pos * args.head_dim + 2 * l
        ops    == <<Load(base), Load(base + WarpSize), Load(sincos), Load(sincos + 1)>>
    IN  {<<base, <<"rot_lo", ops>> >>, <<base + WarpSize, <<"rot_hi", ops>> >>}

embedding_lookup(l, t) ==
    LET d   == t * WarpSize + l
        row == args.table_base + Load(args.token_id_buf) * args.D
    IN  {<<args.output_base + d, Load(row + d)>>}

\* kh: the KV head that the query head of this block shares.
KvHead == block \div args.q_per_kv

qkt_decode(l, t) ==
    LET j     == l + t * WarpSize
        k_row == args.K_cache_off + (KvHead * args.max_seq + j) * args.head_dim
    IN  {<<args.scores_off + block * args.max_seq + j,
           <<"score", [k \in 1 .. args.head_dim |->
                          <<Load(args.Q_off + block * args.head_dim + (k - 1)),
                            Load(k_row + (k - 1))>>]>> >>}

pv_decode(l, t) ==
    LET k      == l + t * WarpSize
        V(j)   == args.V_cache_off + (KvHead * args.max_seq + j) * args.head_dim + k
    IN  IF k >= args.head_dim THEN {}
        ELSE {<<args.O_off + block * args.head_dim + k,
                <<"dot", [j \in 1 .. (args.cur_pos + 1) |->
                             <<Load(args.P_off + block * args.max_seq + (j - 1)),
                               Load(V(j - 1))>>]>> >>}

\* The stores of lane l in turn t.
Turn(l, t) ==
    CASE args.kernel = "gemm" -> gemm(l)
      [] args.kernel = "broadcast_add" -> broadcast_add(l)
      [] args.kernel = "silu" -> silu(l)
      [] args.kernel = "vmul" -> vmul(l, t)
      [] args.kernel = "rope" -> rope(l, t)
      [] args.kernel = "embedding_lookup" -> embedding_lookup(l, t)
      [] args.kernel = "qkt_decode" -> qkt_decode(l, t)
      [] args.kernel = "pv_decode" -> pv_decode(l, t)

ElementwiseReg == [turn |-> 0]

ElementwiseBlock(l) ==
    LET r == reg[l]
    IN  IF pc[l] = 0 THEN Does(IF Goes(l, r.turn) THEN 1 ELSE Done, r, {})
        ELSE Does(0, [r EXCEPT !.turn = @ + 1], Turn(l, r.turn))
=============================================================================
