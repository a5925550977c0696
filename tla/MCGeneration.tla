---------------------------- MODULE MCGeneration ----------------------------
(* Instances of Generation for TLC.  zero is id 0, a an ordinary token, u an *)
(* id the tokenizer cannot decode.                                           *)
EXTENDS Generation

CONSTANTS zero, a, u, eos, pad

MCToken == {zero, a, u, eos, pad}

\* One token, two tokens, and a prompt that encode truncates.
MCPrompts == {<<a>>, <<a, zero>>, [i \in 1..15 |-> IF i < 3 THEN zero ELSE a]}
ShortPrompts == {<<a>>, <<zero, a>>}
=============================================================================
