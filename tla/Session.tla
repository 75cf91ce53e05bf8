------------------------------- MODULE Session -------------------------------
(***************************************************************************)
(* The life of one inference session: main of lib/test/infer_tokens.c,     *)
(* with weight_loader_load, kv_cache_create, transformer_init and their    *)
(* destructors.  Every host or device allocation and every file read may   *)
(* fail, and each failure leaves through its own error path.  The          *)
(* allocator below is the one that Vram promises; what the steps compute   *)
(* is the subject of Transformer, here they only write their buffers.      *)
(***************************************************************************)
EXTENDS Integers, FiniteSets, Sequences, SequencesExt

CONSTANTS
    VramSize,             \* units of VRAM that gpuMalloc hands out
    Placements(_),        \* of the offsets that fit, those the allocator may take
    WL_NUM_LAYERS, LAYERS_PER_REGION,
    WL_TENSOR_COUNT,      \* tensors of a layer, one unit each
    WL_EMBEDDING_BYTES, WL_LM_HEAD_BYTES, WL_FINAL_NORM_BYTES,
    KV_BYTES,             \* total_bytes of kv_cache_create
    scratch, kbins, aoffs \* names of the workspace's buffers, in order

ASSUME SessionConstants ==
    /\ WL_NUM_LAYERS % LAYERS_PER_REGION = 0
    /\ {"RESID_A", "RESID_B", "sincos_off"} \subseteq ToSet(scratch)
    /\ IsInjective(scratch \o kbins \o aoffs)

OFF_INVALID == -1
Units       == 0 .. (VramSize - 1)
Offsets     == Units \cup {OFF_INVALID}

WL_LAYER_BYTES == WL_TENSOR_COUNT
NUM_REGIONS    == 2 + (WL_NUM_LAYERS \div LAYERS_PER_REGION)
Regions        == 0 .. (NUM_REGIONS - 1)
Layers         == 0 .. (WL_NUM_LAYERS - 1)

\* The weight files in the order they are loaded: embedding, lm_head,
\* final_norm, then one per layer.
Files    == 0 .. (WL_NUM_LAYERS + 2)
LayerFile(l) == l + 3
FileBytes(f) == CASE f = 0 -> WL_EMBEDDING_BYTES
                  [] f = 1 -> WL_LM_HEAD_BYTES
                  [] f = 2 -> WL_FINAL_NORM_BYTES
                  [] OTHER -> WL_LAYER_BYTES

plan_bytes(r) == CASE r = 0 -> WL_EMBEDDING_BYTES
                   [] r = 1 -> WL_LM_HEAD_BYTES
                   [] r = 2 -> WL_FINAL_NORM_BYTES
                                 + (LAYERS_PER_REGION * WL_LAYER_BYTES)
                   [] OTHER -> LAYERS_PER_REGION * WL_LAYER_BYTES

KvBufs == {"K_dev_off", "V_dev_off"}
WsBufs == ToSet(scratch \o kbins \o aoffs)

VARIABLES
    pc,           \* where main is
    i,            \* index of the loop main is in
    ret,          \* exit status
    host,         \* host allocations that are held
    device,       \* "closed" or "open": between gpuInit and gpuDestroy
    live,         \* device ranges held: offset |-> size
    mem,          \* contents of each unit of VRAM
    region_base,  \* of the weight_loader_t
    addr,         \* address of each file's tensor(s), of the weight_loader_t
    kv,           \* K_dev_off and V_dev_off of the kv_cache_t
    ws            \* offsets of the transformer_workspace_t

vars == <<pc, i, ret, host, device, live, mem, region_base, addr, kv, ws>>

heap == INSTANCE Vram WITH Sizes <- Units

\* Handles of an object that does not exist, or not yet filled in.
None(S) == [x \in S |-> OFF_INVALID]

\* Contents of a unit: part j of weight file f or of kernel f, or other data.
Weight(f, j) == <<"weight", f, j>>
Kernel(k, j) == <<"kernel", k, j>>
Unknown == <<"unknown", 0, 0>>
Work    == <<"work", 0, 0>>

Init ==
    /\ pc = "start" /\ i = 0 /\ ret = 0
    /\ host = {} /\ device = "closed"
    /\ live = [o \in {} |-> 0]
    /\ mem = [u \in Units |-> Unknown]
    /\ region_base = None(Regions) /\ addr = None(Files)
    /\ kv = None(KvBufs) /\ ws = None(WsBufs)

\* gpuMalloc returns off: a fresh range, or OFF_INVALID when it finds none.
\* Fragmentation and the slabs are below Vram, so it may fail at any time.
gpuMalloc(size, off) ==
    LET fits == {o \in Units : heap!Fresh(o, size)}
    IN  \/ /\ off = OFF_INVALID
           /\ UNCHANGED live
        \/ /\ off \in fits \cap Placements(fits)
           /\ live' = [o \in DOMAIN live \cup {off} |->
                           IF o = off THEN size ELSE live[o]]

\* gpuFree of each offset of offs: the ranges are the allocator's again,
\* which keeps its free lists in them.
gpuFree(offs) ==
    /\ live' = [o \in DOMAIN live \ offs |-> live[o]]
    /\ mem' = [u \in Units |->
                  IF \E o \in offs \cap DOMAIN live : u \in heap!Extent(o, live[o])
                  THEN Unknown ELSE mem[u]]

\* The offsets among handles that a destructor passes to gpuFree.
Valid(handles) == Range(handles) \ {OFF_INVALID}

\* gpuMemcpy H2D of size units to off.
Copied(off, size, part(_)) ==
    [u \in Units |-> IF u \in off .. (off + size - 1) THEN part(u - off)
                     ELSE mem[u]]

-----------------------------------------------------------------------------
(* main, before the first device allocation *)

Goto(label) == pc' = label /\ i' = 0

\* Bad arguments or no prompt: nothing has been allocated.
read_tokens_fails ==
    /\ pc = "start" /\ Goto("exit")
    /\ ret' \in {1, 2}
    /\ UNCHANGED <<host, device, live, mem, region_base, addr, kv, ws>>

read_tokens ==
    /\ pc = "start" /\ Goto("gpuInit")
    /\ host' = {"prompt"}
    /\ UNCHANGED <<ret, device, live, mem, region_base, addr, kv, ws>>

\* calloc of the context fails, or gpuInit does: the path frees what the host
\* holds.
gpuInit_fails ==
    /\ pc = "gpuInit" /\ Goto("exit")
    /\ host' = {} /\ ret' = 1
    /\ UNCHANGED <<device, live, mem, region_base, addr, kv, ws>>

gpuInit ==
    /\ pc = "gpuInit" /\ Goto("validate")
    /\ host' = host \cup {"ctx"} /\ device' = "open"
    /\ UNCHANGED <<ret, live, mem, region_base, addr, kv, ws>>

\* Too many tokens, or one outside the vocabulary.
prompt_rejected ==
    /\ pc = "validate" /\ Goto("gpuDestroy")
    /\ ret' = 1
    /\ UNCHANGED <<host, device, live, mem, region_base, addr, kv, ws>>

prompt_accepted ==
    /\ pc = "validate" /\ Goto("stat")
    /\ UNCHANGED <<ret, host, device, live, mem, region_base, addr, kv, ws>>

-----------------------------------------------------------------------------
(* weight_loader_load *)

\* A file is missing or has the wrong size, or there is no host memory for the
\* loader: NULL before anything is allocated on the device.
weight_loader_refuses ==
    /\ pc = "stat" /\ Goto("gpuDestroy")
    /\ ret' = 1
    /\ UNCHANGED <<host, device, live, mem, region_base, addr, kv, ws>>

weight_loader_begin ==
    /\ pc = "stat" /\ Goto("regions")
    /\ host' = host \cup {"wl"}
    /\ UNCHANGED <<ret, device, live, mem, region_base, addr, kv, ws>>

\* Fault: the first layer starts on top of final_norm.
TensorAddr_NoNorm(f, base) ==
    LET l == f - 3
        r == 2 + (l \div LAYERS_PER_REGION)
    IN  IF f <= 2 THEN base[f]
        ELSE base[r] + ((l % LAYERS_PER_REGION) * WL_LAYER_BYTES)

\* embedding_addr, lm_head_addr, final_norm_addr and layer_base: where the
\* cursor stands when it passes file f.
TensorAddr(f, base) ==
    LET l == f - 3
        r == 2 + (l \div LAYERS_PER_REGION)
    IN  IF f <= 2 THEN base[f]
        ELSE base[r] + (IF r = 2 THEN WL_FINAL_NORM_BYTES ELSE 0)
                     + ((l % LAYERS_PER_REGION) * WL_LAYER_BYTES)

\* One turn of the loop that allocates the regions; after the last one the
\* addresses of the tensors are computed.
weight_loader_region ==
    /\ pc = "regions"
    /\ \E off \in Units :
        /\ gpuMalloc(plan_bytes(i), off)
        /\ region_base' = [region_base EXCEPT ![i] = off]
    /\ IF i + 1 < NUM_REGIONS
       THEN pc' = pc /\ i' = i + 1 /\ addr' = addr
       ELSE /\ Goto("files")
            /\ addr' = [f \in Files |-> TensorAddr(f, region_base')]
    /\ UNCHANGED <<ret, host, device, mem, kv, ws>>

weight_loader_region_fails ==
    /\ pc = "regions" /\ gpuMalloc(plan_bytes(i), OFF_INVALID)
    /\ Goto("wl_fail")
    /\ UNCHANGED <<ret, host, device, mem, region_base, addr, kv, ws>>

\* One file is read and copied to its address.
load_file_to_vram ==
    /\ pc = "files"
    /\ mem' = Copied(addr[i], FileBytes(i), LAMBDA j : Weight(i, j))
    /\ IF i + 1 \in Files THEN pc' = pc /\ i' = i + 1 ELSE Goto("kv_K")
    /\ UNCHANGED <<ret, host, device, live, region_base, addr, kv, ws>>

\* The file is gone, or shorter than when its size was checked, or there is no
\* host memory for it.
load_file_to_vram_fails ==
    /\ pc = "files" /\ Goto("wl_fail")
    /\ UNCHANGED <<ret, host, device, live, mem, region_base, addr, kv, ws>>

\* The regions are given back and the loader is freed.
wl_released ==
    /\ gpuFree(Valid(region_base))
    /\ host' = host \ {"wl"}
    /\ region_base' = None(Regions) /\ addr' = None(Files)

weight_loader_fail ==
    /\ pc = "wl_fail" /\ Goto("gpuDestroy")
    /\ ret' = 1
    /\ wl_released
    /\ UNCHANGED <<device, kv, ws>>

\* weight_loader_layer: the address of a tensor.
weight_loader_layer(l, t) == addr[LayerFile(l)] + t

-----------------------------------------------------------------------------
(* kv_cache_create *)

\* Fault: main forgets the weights on this path.
kv_cache_create_fails_Leaks ==
    /\ pc = "kv_K" /\ gpuMalloc(KV_BYTES, OFF_INVALID)
    /\ Goto("gpuDestroy")
    /\ ret' = 1
    /\ UNCHANGED <<host, device, mem, region_base, addr, kv, ws>>

\* No host memory, or no room for K.
kv_cache_create_fails ==
    /\ pc = "kv_K" /\ gpuMalloc(KV_BYTES, OFF_INVALID)
    /\ Goto("weight_loader_destroy")
    /\ ret' = 1
    /\ UNCHANGED <<host, device, mem, region_base, addr, kv, ws>>

kv_cache_create_K ==
    /\ pc = "kv_K" /\ Goto("kv_V")
    /\ \E off \in Units :
        /\ gpuMalloc(KV_BYTES, off)
        /\ kv' = [kv EXCEPT !["K_dev_off"] = off]
    /\ host' = host \cup {"kv"}
    /\ UNCHANGED <<ret, device, mem, region_base, addr, ws>>

kv_cache_create_V ==
    /\ pc = "kv_V" /\ Goto("ws")
    /\ \E off \in Units :
        /\ gpuMalloc(KV_BYTES, off)
        /\ kv' = [kv EXCEPT !["V_dev_off"] = off]
    /\ UNCHANGED <<ret, host, device, mem, region_base, addr, ws>>

kv_released ==
    /\ gpuFree(Valid(kv))
    /\ host' = host \ {"kv"}
    /\ kv' = None(KvBufs)

\* No room for V: K goes back.
kv_cache_create_V_fails ==
    /\ pc = "kv_V" /\ Goto("weight_loader_destroy")
    /\ ret' = 1
    /\ kv_released
    /\ UNCHANGED <<device, region_base, addr, ws>>

-----------------------------------------------------------------------------
(* transformer_init; main passes a configuration that its checks accept *)

\* No host memory for the workspace.
transformer_init_refuses ==
    /\ pc = "ws" /\ Goto("kv_cache_destroy")
    /\ ret' = 1
    /\ UNCHANGED <<host, device, live, mem, region_base, addr, kv, ws>>

\* Fault: the offsets keep the 0 of calloc.
transformer_init_begin_Calloc ==
    /\ pc = "ws" /\ pc' = "scratch" /\ i' = 1
    /\ host' = host \cup {"ws"}
    /\ ws' = [x \in WsBufs |-> 0]
    /\ UNCHANGED <<ret, device, live, mem, region_base, addr, kv>>

transformer_init_begin ==
    /\ pc = "ws" /\ pc' = "scratch" /\ i' = 1
    /\ host' = host \cup {"ws"}
    /\ ws' = None(WsBufs)
    /\ UNCHANGED <<ret, device, live, mem, region_base, addr, kv>>

\* One gpuMalloc of a group of buffers; a failure does not stop the group.
init_buffer(group, names) ==
    /\ pc = group /\ i <= Len(names)
    /\ \E off \in Offsets :
        /\ gpuMalloc(1, off)
        /\ ws' = [ws EXCEPT ![names[i]] = off]
    /\ i' = i + 1
    /\ UNCHANGED <<pc, ret, host, device, mem, region_base, addr, kv>>

\* The loop behind a group: one failure fails the initialisation.
init_checked(group, names, next) ==
    /\ pc = group /\ i > Len(names)
    /\ IF \E n \in ToSet(names) : ws[n] = OFF_INVALID
       THEN Goto("transformer_destroy") /\ ret' = 1
       ELSE pc' = next /\ i' = 1 /\ ret' = ret
    /\ UNCHANGED <<host, device, live, mem, region_base, addr, kv, ws>>

init_scratch         == init_buffer("scratch", scratch)
init_scratch_checked == init_checked("scratch", scratch, "kbins")
init_kbins_checked   == init_checked("kbins", kbins, "aoffs")
init_aoffs           == init_buffer("aoffs", aoffs)
init_aoffs_checked   == init_checked("aoffs", aoffs, "sincos")

\* One kernel is read, given a buffer and copied there.  An unreadable or empty
\* file yields OFF_INVALID like a gpuMalloc that fails.
load_kernel_bin ==
    /\ pc = "kbins" /\ i <= Len(kbins)
    /\ \E off \in Offsets :
        /\ gpuMalloc(1, off)
        /\ ws' = [ws EXCEPT ![kbins[i]] = off]
        /\ mem' = IF off = OFF_INVALID THEN mem
                  ELSE Copied(off, 1, LAMBDA j : Kernel(i, j))
    /\ i' = i + 1
    /\ UNCHANGED <<pc, ret, host, device, region_base, addr, kv>>

compute_sincos_fails ==
    /\ pc = "sincos" /\ Goto("transformer_destroy")
    /\ ret' = 1
    /\ UNCHANGED <<host, device, live, mem, region_base, addr, kv, ws>>

compute_sincos ==
    /\ pc = "sincos" /\ Goto("zero")
    /\ mem' = Copied(ws["sincos_off"], 1, LAMBDA j : Work)
    /\ UNCHANGED <<ret, host, device, live, region_base, addr, kv, ws>>

\* The residual buffers are cleared if the host has memory for the zeros.
zero_residuals ==
    /\ pc = "zero" /\ Goto("generated")
    /\ mem' \in {mem, [u \in Units |-> IF u \in {ws["RESID_A"], ws["RESID_B"]}
                                       THEN Work ELSE mem[u]]}
    /\ UNCHANGED <<ret, host, device, live, region_base, addr, kv, ws>>

-----------------------------------------------------------------------------
(* The steps, and the way out *)

\* calloc of the generated tokens.
calloc_generated ==
    /\ pc = "generated"
    /\ \/ /\ Goto("run") /\ host' = host \cup {"generated"} /\ ret' = ret
       \/ /\ Goto("transformer_destroy") /\ ret' = 1 /\ host' = host
    /\ UNCHANGED <<device, live, mem, region_base, addr, kv, ws>>

\* The ranges that a step writes: scratch and argument buffers and the cache.
StepWrites ==
    UNION ({heap!Extent(ws[n], 1) : n \in ToSet(scratch \o aoffs)}
           \cup {heap!Extent(kv[n], KV_BYTES) : n \in KvBufs})

transformer_step ==
    /\ pc = "run"
    /\ mem' = [u \in Units |-> IF u \in StepWrites THEN Work ELSE mem[u]]
    /\ UNCHANGED <<pc, i, ret, host, device, live, region_base, addr, kv, ws>>

\* All tokens are written out, or a step or write_generated failed.
cleanup ==
    /\ pc = "run" /\ Goto("transformer_destroy")
    /\ ret' \in {0, 1}
    /\ host' = host \ {"generated"}
    /\ UNCHANGED <<device, live, mem, region_base, addr, kv, ws>>

transformer_destroy ==
    /\ pc = "transformer_destroy" /\ Goto("kv_cache_destroy")
    /\ gpuFree(Valid(ws))
    /\ host' = host \ {"ws"}
    /\ ws' = None(WsBufs)
    /\ UNCHANGED <<ret, device, region_base, addr, kv>>

kv_cache_destroy ==
    /\ pc = "kv_cache_destroy" /\ Goto("weight_loader_destroy")
    /\ kv_released
    /\ UNCHANGED <<ret, device, region_base, addr, ws>>

weight_loader_destroy ==
    /\ pc = "weight_loader_destroy" /\ Goto("gpuDestroy")
    /\ wl_released
    /\ UNCHANGED <<ret, device, kv, ws>>

\* gpuDestroy, then main frees the prompt and the context.
gpuDestroy ==
    /\ pc = "gpuDestroy" /\ Goto("exit")
    /\ device' = "closed"
    /\ host' = host \ {"prompt", "ctx"}
    /\ UNCHANGED <<ret, live, mem, region_base, addr, kv, ws>>

Next ==
    \/ read_tokens_fails \/ read_tokens \/ gpuInit_fails \/ gpuInit
    \/ prompt_rejected \/ prompt_accepted
    \/ weight_loader_refuses \/ weight_loader_begin
    \/ weight_loader_region \/ weight_loader_region_fails
    \/ load_file_to_vram \/ load_file_to_vram_fails \/ weight_loader_fail
    \/ kv_cache_create_K \/ kv_cache_create_fails
    \/ kv_cache_create_V \/ kv_cache_create_V_fails
    \/ transformer_init_refuses \/ transformer_init_begin
    \/ init_scratch \/ init_scratch_checked
    \/ load_kernel_bin \/ init_kbins_checked
    \/ init_aoffs \/ init_aoffs_checked
    \/ compute_sincos \/ compute_sincos_fails \/ zero_residuals
    \/ calloc_generated \/ transformer_step \/ cleanup
    \/ transformer_destroy \/ kv_cache_destroy \/ weight_loader_destroy
    \/ gpuDestroy

Spec == Init /\ [][Next]_vars

-----------------------------------------------------------------------------
\* Every device range in use has exactly one owner among the offsets of the
\* loader, the cache and the workspace, on every path and in the middle of
\* every initialisation: no offset that a destructor would free is stale or
\* held twice, no range is forgotten, and the device stays open as long as
\* there is one (the fail labels of weight_loader_load and transformer_init,
\* and the sentinels that transformer_init writes first).
HandlesOwnLive ==
    LET owners == {<<"wl", r>> : r \in {x \in Regions : region_base[x] # OFF_INVALID}}
             \cup {<<"kv", n>> : n \in {x \in KvBufs : kv[x] # OFF_INVALID}}
             \cup {<<"ws", n>> : n \in {x \in WsBufs : ws[x] # OFF_INVALID}}
    IN  /\ DOMAIN live = Valid(region_base) \cup Valid(kv) \cup Valid(ws)
        /\ Cardinality(owners) = Cardinality(DOMAIN live)
        /\ owners # {} => device = "open"

\* Whatever fails, main returns with the device closed and with nothing held
\* on the host or on the device.
ExitsClean ==
    pc = "exit" => /\ host = {} /\ device = "closed"
                   /\ DOMAIN live = {}

\* When the steps run, and after each of them, every tensor that the loader's
\* getters name and every kernel holds what was read from its file: no file was
\* loaded over another one, and no buffer that the steps write overlaps them.
ReadOnlyIntact ==
    pc \in {"generated", "run"} =>
        /\ \A f \in 0 .. 2 : \A j \in 0 .. (FileBytes(f) - 1) :
              mem[addr[f] + j] = Weight(f, j)
        /\ \A l \in Layers, t \in 0 .. (WL_TENSOR_COUNT - 1) :
              mem[weight_loader_layer(l, t)] = Weight(LayerFile(l), t)
        /\ \A k \in DOMAIN kbins : mem[ws[kbins[k]]] = Kernel(k, 0)
=============================================================================
