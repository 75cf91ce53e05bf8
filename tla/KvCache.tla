------------------------------- MODULE KvCache -------------------------------
(***************************************************************************)
(* The functions of lib/src/kv_cache.c as operators on a cache record.     *)
(* A device buffer is modelled by its rows of head_dim floats, at the      *)
(* index that the address arithmetic of the code computes.                 *)
(***************************************************************************)
EXTENDS Integers, FiniteSets

CONSTANTS num_layers, num_kv_heads, max_seq

ASSUME KvConstants ==
    /\ num_layers \in Nat \ {0}
    /\ num_kv_heads \in Nat \ {0}
    /\ max_seq \in Nat

Layers == 0 .. (num_layers - 1)
Heads  == 0 .. (num_kv_heads - 1)
Rows   == 0 .. ((num_layers * num_kv_heads * max_seq) - 1)

\* A row that gpuMalloc returned and nobody wrote.
Unwritten == <<"unwritten">>

\* The fields of kv_cache_t that change; the contents of K_dev_off and
\* V_dev_off are K and V.  A failed gpuMalloc gives its predecessor back and
\* yields no cache.
kv_cache_create ==
    [filled |-> 0, pending |-> 0,
     K |-> [r \in Rows |-> Unwritten], V |-> [r \in Rows |-> Unwritten]]

\* Fault: the stride of a layer leaves out the heads.
kv_cache_K_off_OneHead(layer) == layer * max_seq

\* The first row of a layer; the K and the V buffer have the same layout.
kv_cache_K_off(layer) == layer * num_kv_heads * max_seq

\* Fault: the stride of a head is one row short.
RowOf_Short(layer, kh, pos) ==
    kv_cache_K_off(layer) + (kh * (max_seq - 1)) + pos

\* Row of position pos of KV head kh.
RowOf(layer, kh, pos) == kv_cache_K_off(layer) + (kh * max_seq) + pos

\* The three early returns of kv_cache_append_layer, and success.
AppendRc(cache, layer) ==
    IF cache.filled >= max_seq THEN -1
    ELSE IF layer >= num_layers THEN -2
    ELSE IF layer # cache.pending THEN -2
    ELSE 0

\* k and v hold one value per KV head.  gpuMemcpy fails only for an unknown
\* direction, so the copies all happen.
kv_cache_append_layer(cache, layer, k, v) ==
    LET dst == [kh \in Heads |-> RowOf(layer, kh, cache.filled)]
        copied(mem, src) ==
            [r \in Rows |-> IF \E kh \in Heads : dst[kh] = r
                            THEN src[CHOOSE kh \in Heads : dst[kh] = r]
                            ELSE mem[r]]
    IN  [cache EXCEPT !.pending = @ + 1,
                      !.K = copied(cache.K, k), !.V = copied(cache.V, v)]

CommitRc(cache) ==
    IF cache.pending = 0 THEN -1
    ELSE IF cache.pending # num_layers THEN -2
    ELSE 0

kv_cache_commit_token(cache) ==
    [cache EXCEPT !.pending = 0, !.filled = @ + 1]

\* The assertion in kv_cache_cur_pos and in kv_cache_commit_token.
HasRoom(cache) == cache.filled < max_seq

kv_cache_cur_pos(cache) == cache.filled
=============================================================================
