SPECIFICATION Spec
CONSTANTS
    num_layers = 2
    num_kv_heads = 2
    max_seq = 3
    a = a
    b = b
    OutOfVocab = OutOfVocab
    NoToken = NoToken
    Vocab = {a, b}
    Prompts <- MCPrompts
    MaxNew = {1, 2, 3}
    Eos = {NoToken, b}
INVARIANTS CacheInStep LogitsAreThisTokens Autoregressive Served
PROPERTIES CommittedKept Terminates
\* The program exits.
CHECK_DEADLOCK FALSE
