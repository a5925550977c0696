-------------------------- MODULE MCBytePairMerge --------------------------
(* Pieces of up to five bytes over two letters, and every vocabulary that    *)
(* has the single bytes and ranks some of four longer strings, whether or    *)
(* not the strings a token is made of are tokens themselves.                 *)
EXTENDS BytePairMerge, FiniteSets

CONSTANTS a, b

Longer == {<<a, a>>, <<a, b>>, <<a, b, a>>, <<a, a, b>>}

Ranked(S) ==
  LET n == Cardinality(S)
  IN  {r \in [S -> 2..(n + 1)] : \A s, t \in S : s # t => r[s] # r[t]}

Vocabulary(r) ==
  [s \in DOMAIN r \cup {<<a>>, <<b>>} |-> IF s = <<a>> THEN 0 ELSE IF s = <<b>> THEN 1 ELSE r[s]]

MCVocabularies == {Vocabulary(r) : r \in UNION {Ranked(S) : S \in SUBSET Longer}}

MCPieces == UNION {[1..n -> {a, b}] : n \in 1..5}
=============================================================================
