SPECIFICATION Spec
CONSTANTS
    VramSize = 21
    Placements <- Ends
    WL_NUM_LAYERS = 4
    LAYERS_PER_REGION = 2
    WL_TENSOR_COUNT = 2
    WL_EMBEDDING_BYTES = 1
    WL_LM_HEAD_BYTES = 1
    WL_FINAL_NORM_BYTES = 1
    KV_BYTES = 1
    scratch <- Scratch
    kbins <- Kbins
    aoffs <- Aoffs
INVARIANTS HandlesOwnLive  ReadOnlyIntact
\* main returns.
CHECK_DEADLOCK FALSE
