--------------------------- MODULE MCForwardPass ---------------------------
(* Instances of ForwardPass for TLC: two tokens.                             *)
EXTENDS ForwardPass

CONSTANTS a, b

MCToken == {a, b}
=============================================================================
