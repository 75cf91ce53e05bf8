----------------------------- MODULE Transformer -----------------------------
(***************************************************************************)
(* Token generation: transformer_step of lib/src/transformer.c, called for *)
(* the prompt and then for its own output by main of                       *)
(* lib/test/infer_tokens.c.                                                *)
(*                                                                         *)
(* Numbers are left out.  A device buffer holds the name of the value it   *)
(* contains: <<v, layer, pos>> is the value v of the decoder layer for the *)
(* token at pos.  An operation whose operands are not the ones the model   *)
(* architecture prescribes for v writes Garbage instead, so a buffer that  *)
(* is overwritten too early or read too late shows in what is computed     *)
(* from it.                                                                *)
(***************************************************************************)
EXTENDS KvCache, Sequences, SequencesExt

CONSTANTS
    Vocab,         \* token ids below vocab_size
    Prompts,       \* token sequences read from the input file
    MaxNew,        \* values of max_new_tokens
    Eos,           \* values of eos_token, NoToken included
    NoToken        \* the token id -1

\* read_tokens rejects an empty file, parse_long_arg a count below 1.
ASSUME TransformerConstants ==
    /\ \A p \in Prompts : Len(p) > 0
    /\ MaxNew \subseteq Nat \ {0}
    /\ NoToken \notin Vocab

VARIABLES
    prompt, max_new, eos_token,   \* arguments of the program
    faulty,        \* launches, allocations and file writes may fail
    at,            \* where the program is
    phase,         \* the loop of main: "prefill" or "decode"
    i,             \* its counter
    pos,           \* cur_pos of the running transformer_step
    layer, op,     \* position inside transformer_decoder_layer
    buf,           \* contents of the device buffers
    token_id_buf,  \* contents of the token buffer
    cache,         \* the kv cache
    next,          \* the last result of transformer_step
    generated,     \* tokens to be written out
    inputs,        \* tokens whose embedding was looked up (history)
    ret            \* exit status

args == <<prompt, max_new, eos_token, faulty>>
loopVars == <<phase, i, next, generated, ret>>
stepVars == <<pos, layer, op, buf, token_id_buf, cache, inputs>>
vars == <<args, at, loopVars, stepVars>>

Buffers == {"RESID_A", "RESID_B", "SCRATCH_X", "SCRATCH_Q", "SCRATCH_K",
            "SCRATCH_V", "SCRATCH_SCORES", "SCRATCH_FFN_A", "SCRATCH_FFN_B",
            "LOGITS"}

Garbage == <<"garbage">>

Op(val, in, out) == [val |-> val, in |-> in, out |-> out]

\* The launches of transformer_decoder_layer in order: which value, from
\* which buffers, into which.  Entry 10 is the append to the cache.
DecoderLayer == <<
    Op("input_norm",  <<"RESID_A">>,                          "SCRATCH_X"),
    Op("q_gemm",      <<"SCRATCH_X">>,                        "SCRATCH_Q"),
    Op("q_proj",      <<"SCRATCH_Q">>,                        "SCRATCH_Q"),
    Op("k_gemm",      <<"SCRATCH_X">>,                        "SCRATCH_K"),
    Op("k_proj",      <<"SCRATCH_K">>,                        "SCRATCH_K"),
    Op("v_gemm",      <<"SCRATCH_X">>,                        "SCRATCH_V"),
    Op("v_proj",      <<"SCRATCH_V">>,                        "SCRATCH_V"),
    Op("q_rope",      <<"SCRATCH_Q">>,                        "SCRATCH_Q"),
    Op("k_rope",      <<"SCRATCH_K">>,                        "SCRATCH_K"),
    Op("kv_append",   <<"SCRATCH_K", "SCRATCH_V">>,           "cache"),
    Op("scores",      <<"SCRATCH_Q">>,                        "SCRATCH_SCORES"),
    Op("softmax",     <<"SCRATCH_SCORES">>,                   "SCRATCH_SCORES"),
    Op("attn_out",    <<"SCRATCH_SCORES">>,                   "SCRATCH_X"),
    Op("o_proj",      <<"SCRATCH_X">>,                        "SCRATCH_Q"),
    Op("attn_res",    <<"RESID_A", "SCRATCH_Q">>,             "RESID_B"),
    Op("post_norm",   <<"RESID_B">>,                          "SCRATCH_X"),
    Op("gate",        <<"SCRATCH_X">>,                        "SCRATCH_FFN_A"),
    Op("up",          <<"SCRATCH_X">>,                        "SCRATCH_FFN_B"),
    Op("silu_gate",   <<"SCRATCH_FFN_A">>,                    "SCRATCH_FFN_A"),
    Op("silu_mul",    <<"SCRATCH_FFN_A", "SCRATCH_FFN_B">>,   "SCRATCH_FFN_A"),
    Op("down",        <<"SCRATCH_FFN_A">>,                    "SCRATCH_X"),
    Op("resid",       <<"RESID_B", "SCRATCH_X">>,             "RESID_A") >>

\* The operands the architecture prescribes, as values of the same layer
\* and token.  "resid" of layer l - 1 (the embedding for layer 0) is "x".
Operands(val) ==
    CASE val = "input_norm" -> <<"x">>
      [] val \in {"q_gemm", "k_gemm", "v_gemm"} -> <<"input_norm">>
      [] val = "q_proj" -> <<"q_gemm">>
      [] val = "k_proj" -> <<"k_gemm">>
      [] val = "v_proj" -> <<"v_gemm">>
      [] val = "q_rope" -> <<"q_proj">>
      [] val = "k_rope" -> <<"k_proj">>
      [] val = "scores" -> <<"q_rope">>
      [] val = "softmax" -> <<"scores">>
      [] val = "attn_out" -> <<"softmax">>
      [] val = "o_proj" -> <<"attn_out">>
      [] val = "attn_res" -> <<"x", "o_proj">>
      [] val = "post_norm" -> <<"attn_res">>
      [] val \in {"gate", "up"} -> <<"post_norm">>
      [] val = "silu_gate" -> <<"gate">>
      [] val = "silu_mul" -> <<"silu_gate", "up">>
      [] val = "down" -> <<"silu_mul">>
      [] val = "resid" -> <<"attn_res", "down">>
      [] val = "final_norm" -> <<"x">>
      [] val = "logits" -> <<"final_norm">>

\* "resid" of one layer is the "x" of the next.
Named(val, l) == IF val = "resid" THEN <<"x", l + 1, pos>> ELSE <<val, l, pos>>

\* What qkt_decode and pv_decode read: every KV head of positions 0 .. pos of
\* the layer.  It is right when each row holds that position's own value.
History(mem, val) ==
    \A kh \in Heads, j \in 0 .. pos :
        mem[RowOf(layer, kh, j)] = <<val, layer, j, kh>>

\* The kernel behind an operation, started by launch_op.
Compute(o, l) ==
    LET right == /\ \A n \in DOMAIN o.in :
                        buf[o.in[n]] = Named(Operands(o.val)[n], l)
                 /\ o.val = "scores" => History(cache.K, "k_rope")
                 /\ o.val = "attn_out" => History(cache.V, "v_proj")
    IN  IF right THEN Named(o.val, l) ELSE Garbage

launch_op(o, l) == buf' = [buf EXCEPT ![o.out] = Compute(o, l)]

-----------------------------------------------------------------------------
Init ==
    /\ prompt \in Prompts /\ max_new \in MaxNew /\ eos_token \in Eos
    /\ faulty \in BOOLEAN
    /\ at = "check" /\ phase = "prefill" /\ i = 0 /\ ret = 0
    /\ next = NoToken /\ generated = <<>> /\ inputs = <<>>
    /\ pos = 0 /\ layer = 0 /\ op = 1
    /\ buf = [b \in Buffers |-> Unwritten]
    /\ token_id_buf = NoToken
    /\ cache = kv_cache_create

\* Fault: only the prompt is checked.
TooLong_PromptOnly == Len(prompt) > max_seq

\* A request that main refuses before it loads anything.
TooLong == Len(prompt) > max_seq \/ Len(prompt) + max_new - 1 > max_seq

Rejected == TooLong \/ \E n \in DOMAIN prompt : prompt[n] \notin Vocab

\* The error returns of main and its goto cleanup.
Exit(rc) ==
    /\ at' = "exit" /\ ret' = rc
    /\ UNCHANGED <<phase, i, next, generated>>

main_check ==
    /\ at = "check"
    /\ IF Rejected THEN Exit(1)
                   ELSE at' = "prefill" /\ UNCHANGED loopVars
    /\ UNCHANGED <<args, stepVars>>

\* gpuInit, weight_loader_load, kv_cache_create, transformer_init or calloc.
setup_fails ==
    /\ faulty /\ at = "check"
    /\ Exit(1)
    /\ UNCHANGED <<args, stepVars>>

\* The call transformer_step(ws, token, p, -1) up to the copy of the token.
EnterStep(token, p) ==
    /\ at' = "embed" /\ pos' = p /\ token_id_buf' = token
    /\ UNCHANGED <<args, loopVars, layer, op, buf, cache, inputs>>

prefill_step ==
    /\ at = "prefill" /\ i < Len(prompt)
    /\ EnterStep(prompt[i + 1], i)

prefill_done ==
    /\ at = "prefill" /\ i = Len(prompt)
    /\ at' = "decode" /\ phase' = "decode" /\ i' = 1
    /\ generated' = <<next>>
    /\ UNCHANGED <<args, next, ret, stepVars>>

\* Fault: the end-of-sequence token does not end the loop.
LoopEnds_NoEos == i >= max_new

\* The decode loop ends at its bound or at the end-of-sequence token.
LoopEnds == i >= max_new \/ (eos_token # NoToken /\ next = eos_token)

\* Fault: the first generated token is fed back again and again.
decode_step_First ==
    /\ at = "decode" /\ ~LoopEnds
    /\ EnterStep(generated[1], Len(prompt) + i - 1)

decode_step ==
    /\ at = "decode" /\ ~LoopEnds
    /\ EnterStep(next, Len(prompt) + i - 1)

decode_done ==
    /\ at = "decode" /\ LoopEnds
    /\ at' = "write"
    /\ UNCHANGED <<args, loopVars, stepVars>>

write_generated ==
    /\ at = "write"
    /\ \/ Exit(0)
       \/ faulty /\ Exit(1)
    /\ UNCHANGED <<args, stepVars>>

-----------------------------------------------------------------------------
op_embedding ==
    /\ at = "embed"
    /\ at' = "layer" /\ layer' = 0 /\ op' = 1
    /\ buf' = [buf EXCEPT !["RESID_A"] = <<"x", 0, pos>>]
    /\ inputs' = Append(inputs, token_id_buf)
    /\ UNCHANGED <<args, loopVars, pos, token_id_buf, cache>>

\* On to the next operation of the layer, the next layer or the final norm.
Advance ==
    IF op < Len(DecoderLayer)
    THEN op' = op + 1 /\ UNCHANGED <<layer, at>>
    ELSE /\ op' = 1 /\ layer' = layer + 1
         /\ at' = IF layer + 1 < num_layers THEN "layer" ELSE "final_norm"

transformer_decoder_layer ==
    /\ at = "layer" /\ DecoderLayer[op].val # "kv_append"
    /\ launch_op(DecoderLayer[op], layer)
    /\ Advance
    /\ UNCHANGED <<args, loopVars, pos, token_id_buf, cache, inputs>>

\* The value of a KV head inside a buffer of all of them.
HeadsOf(b) == [kh \in Heads |-> Append(buf[b], kh)]

\* The assertions on the position come first, then the copies to the host
\* and kv_cache_append_layer.
kv_append_from_device ==
    /\ at = "layer" /\ DecoderLayer[op].val = "kv_append"
    /\ IF ~HasRoom(cache) \/ pos # kv_cache_cur_pos(cache)
       THEN at' = "aborted" /\ UNCHANGED <<loopVars, layer, op, cache>>
       ELSE IF AppendRc(cache, layer) # 0
       THEN Exit(1) /\ UNCHANGED <<layer, op, cache>>
       ELSE /\ cache' = kv_cache_append_layer(cache, layer,
                             HeadsOf("SCRATCH_K"), HeadsOf("SCRATCH_V"))
            /\ Advance
            /\ UNCHANGED loopVars
    /\ UNCHANGED <<args, pos, buf, token_id_buf, inputs>>

final_norm ==
    /\ at = "final_norm"
    /\ at' = "lm_head"
    /\ launch_op(Op("final_norm", <<"RESID_A">>, "SCRATCH_X"), num_layers)
    /\ UNCHANGED <<args, loopVars, pos, layer, op, token_id_buf, cache, inputs>>

lm_head ==
    /\ at = "lm_head"
    /\ at' = "argmax"
    /\ launch_op(Op("logits", <<"SCRATCH_X">>, "LOGITS"), num_layers)
    /\ UNCHANGED <<args, loopVars, pos, layer, op, token_id_buf, cache, inputs>>

\* The largest of vocab_size logits may be any token.
op_argmax ==
    /\ at = "argmax"
    /\ at' = "commit"
    /\ token_id_buf' \in Vocab
    /\ UNCHANGED <<args, loopVars, pos, layer, op, buf, cache, inputs>>

\* Fault: the loop counter of main stands still.
transformer_step_returns_SameI ==
    /\ at = "commit"
    /\ CommitRc(cache) = 0 /\ HasRoom(cache)
    /\ cache' = kv_cache_commit_token(cache)
    /\ next' = token_id_buf
    /\ generated' = IF phase = "decode" THEN Append(generated, token_id_buf)
                    ELSE generated
    /\ at' = phase
    /\ UNCHANGED <<args, phase, ret, i, pos, layer, op, buf, token_id_buf, inputs>>

\* kv_cache_commit_token, the copy of the result, and the rest of the loop
\* body of main: in the decode loop the token is stored.
transformer_step_returns ==
    /\ at = "commit"
    /\ IF CommitRc(cache) # 0
       THEN Exit(1) /\ UNCHANGED cache
       ELSE IF ~HasRoom(cache)
       THEN at' = "aborted" /\ UNCHANGED <<loopVars, cache>>
       ELSE /\ cache' = kv_cache_commit_token(cache)
            /\ next' = token_id_buf
            /\ generated' = IF phase = "decode"
                            THEN Append(generated, token_id_buf)
                            ELSE generated
            /\ i' = i + 1 /\ at' = phase
            /\ UNCHANGED <<phase, ret>>
    /\ UNCHANGED <<args, pos, layer, op, buf, token_id_buf, inputs>>

\* A failed launch, or a failed malloc in kv_append_from_device: the error
\* goes up to main, which leaves its loop.  Nothing is rolled back.
step_fails ==
    /\ faulty
    /\ at \in {"embed", "layer", "final_norm", "lm_head", "argmax"}
    /\ Exit(1)
    /\ UNCHANGED <<args, stepVars>>

Main == \/ main_check \/ setup_fails \/ prefill_step \/ prefill_done
        \/ decode_step \/ decode_done \/ write_generated

Step == \/ op_embedding \/ transformer_decoder_layer \/ kv_append_from_device
        \/ final_norm \/ lm_head \/ op_argmax \/ transformer_step_returns
        \/ step_fails

Next == Main \/ Step

\* The program is one thread and every launch returns, see Driver.
Spec == Init /\ [][Next]_vars /\ WF_vars(Next)
-----------------------------------------------------------------------------
InStep == at \in {"embed", "layer", "final_norm", "lm_head", "argmax", "commit"}

\* Layers of the running token whose K and V are in the cache.
Appended ==
    CASE at = "embed" -> 0
      [] at = "layer" -> layer + (IF op > 10 THEN 1 ELSE 0)
      [] OTHER -> num_layers

\* During transformer_step the position that main counts is the index of the
\* token in the cache, there is a row for it, and exactly the layers already
\* passed are pending.  So neither assertion on the position can fire, and
\* kv_cache_append_layer and kv_cache_commit_token never refuse: main's check
\* of the length against max_seq is enough for both its loops.
CacheInStep ==
    InStep => /\ cache.filled = pos /\ pos < max_seq
              /\ cache.pending = Appended

\* The logits that argmax searches were computed from the embedding of this
\* token through every layer, each attending to its own K and V of all
\* positions up to this one: no scratch buffer of transformer_decoder_layer
\* is reused while its value is still needed, and the rows that
\* kv_cache_append_layer writes are the ones qkt_decode and pv_decode read.
LogitsAreThisTokens ==
    at = "argmax" => buf["LOGITS"] = <<"logits", num_layers, pos>>

\* No step overwrites K or V of a committed token (kv_cache_append_layer
\* writes only the rows of position filled).
CommittedKept ==
    [][\A l \in Layers, kh \in Heads, p \in 0 .. (cache.filled - 1) :
          LET r == RowOf(l, kh, p)
          IN  cache'.K[r] = cache.K[r] /\ cache'.V[r] = cache.V[r]]_vars

\* Generation is autoregressive: the tokens embedded so far are the prompt
\* followed by what was generated, in order, none skipped and none repeated,
\* one for each committed position and the current one.
Autoregressive ==
    /\ IsPrefix(inputs, prompt \o generated)
    /\ at # "exit" => Len(inputs) = cache.filled
                         + (IF InStep /\ at # "embed" THEN 1 ELSE 0)

\* When main returns 0 it wrote max_new_tokens tokens or stopped at the first
\* end-of-sequence token, and every token but the last generated one is in the
\* cache.  When nothing fails, it returns 0 exactly for the requests that fit.
Served ==
    at = "exit" =>
        /\ ret = 0 =>
             /\ Len(generated) = max_new \/ Last(generated) = eos_token
             /\ \A n \in 1 .. (Len(generated) - 1) : generated[n] # eos_token
             /\ cache.filled = Len(prompt) + Len(generated) - 1
        /\ ~faulty => (ret = 0 <=> ~Rejected)

\* The program ends, whatever fails.
Terminates == <>(at = "exit")
=============================================================================
