------------------------------ MODULE MCSession ------------------------------
(* Instance of Session: a loader of four regions, and a workspace that keeps  *)
(* the buffers the code names and one or two of each of the other groups.     *)
EXTENDS Session

\* The allocator takes the lowest or the highest offset that fits, so that
\* every object may lie before or behind every other one.
Ends(S) == IF S = {} THEN {} ELSE {Min(S), Max(S)}

Scratch == <<"RESID_A", "RESID_B", "sincos_off">>
Kbins   == <<"kbin_gemm", "kbin_rope">>
Aoffs   == <<"args_gemm", "args_rope">>
=============================================================================
