------------------------- MODULE MCAttentionWeights -------------------------
(* Rows of scores for TLC: every row over two ordinary scores, the largest   *)
(* float and the infinities.                                                 *)
EXTENDS AttentionWeights

MCScoreRows(n) == [1..n -> {-Small, Small, Huge, -Infinity, Infinity}]
=============================================================================
