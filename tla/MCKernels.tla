------------------------------ MODULE MCKernels ------------------------------
(***************************************************************************)
(* Kernels for TLC: warps of 4 lanes.  Buffers lie next to each other, so  *)
(* that a store past one of them hits another.  Sizes keep what the code   *)
(* asserts or takes for granted: head_dim is twice the warp (rope.S), num  *)
(* and D are multiples of it (vmul.S, embedding_lookup.S), and d is        *)
(* LaneElems per lane (rmsnorm.S).  Rows and vocabularies are shorter than *)
(* the warp, equal to it, and longer without being a multiple.             *)
(***************************************************************************)
EXTENDS Kernels

Shape == [num_q_heads |-> 4, num_kv_heads |-> 2, head_dim |-> 8, max_seq |-> 6]

\* gemm and broadcast_add are called with M = 1; M = 2 is the batched case.
Dense ==
    {op_gemm(0, 6, 24, M, 3, N) : M \in {1, 2}, N \in {1, 4, 6}}
    \cup {op_broadcast_add(x, 12, y, M, N) :
              x \in {0}, y \in {0, 20}, M \in {1, 2}, N \in {3, 4, 5}}
    \cup {op_silu(0, y, D) : y \in {0, 8}, D \in {1, 4, 7}}
    \cup {op_vmul(0, 8, c, num) : c \in {0, 16}, num \in {4, 8}}
    \cup {op_rope(0, 32, heads, 8, pos) : heads \in {2, 4}, pos \in {0, 2}}
    \cup {op_embedding(1, 0, 60, 8), op_rmsnorm(0, 8, 16, 4 * LaneElems)}

Attention ==
    UNION {{op_qkt_decode(0, 32, 128, pos, Shape), op_softmax_decode(8, pos, Shape),
            op_pv_decode(0, 24, 120, pos, Shape)} : pos \in 0 .. (Shape.max_seq - 1)}

MCLaunches == Dense \cup Attention \cup {op_argmax(0, V, 6, 7) : V \in {3, 6}}
MCLogits == NaN .. 2
=============================================================================
