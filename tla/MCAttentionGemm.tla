-------------------------- MODULE MCAttentionGemm --------------------------
(* Two heads that share a B, tiles of 2 x 2, blocks of 6 x 3 x 4: shapes with *)
(* one and two blocks in every dimension, full and partial panels.           *)
EXTENDS AttentionGemm

RRR(ms, ns, ks) == {[layout |-> "rrr", m |-> m, n |-> n, k |-> k] : m \in ms, n \in ns, k \in ks}
RCR(ms, ns, ks) == {[layout |-> "rcr", m |-> m, n |-> n, k |-> k] : m \in ms, n \in ns, k \in ks}

MCShapes ==
  RRR({1, 5, 7}, {2, 3}, {2, 4}) \cup RRR({2, 4}, {5}, {1, 3}) \cup RCR({1, 6, 8}, {2, 5}, {2, 4})
=============================================================================
