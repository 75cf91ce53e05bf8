---------------------------- MODULE MCTransformer ----------------------------
(***************************************************************************)
(* Two layers, two KV heads, three positions.  The prompts are one that    *)
(* leaves room to generate, one that fills the cache when it may generate  *)
(* twice, one that fills it by itself, one that is too long and one with a *)
(* token outside the vocabulary.                                           *)
(***************************************************************************)
EXTENDS Transformer

CONSTANTS a, b, OutOfVocab

MCPrompts == {<<a>>, <<a, b>>, <<b, b, a>>, <<a, a, a, a>>, <<a, OutOfVocab>>}
=============================================================================
