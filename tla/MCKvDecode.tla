----------------------------- MODULE MCKvDecode -----------------------------
(* Two layers, prompts of one to three tokens, one of them the padding token,
   graphs of one to four positions. *)
EXTENDS KvDecode

MCPrompts == UNION {[1 .. n -> {0, 1}] : n \in 1 .. 3}
MCLengths == 1 .. 4
=============================================================================
