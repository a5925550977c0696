------------------------- MODULE MCQuantizedLinear -------------------------
(* Two layers of different shape that share both buffers; blocks of sixteen *)
(* weights in packs of four, and for the overflow blocks of thirty-two.     *)
EXTENDS QuantizedLinear

MCLayers == <<[n |-> 6, k |-> 32], [n |-> 2, k |-> 64]>>
MCLargestLayer == <<[n |-> 2, k |-> 64]>>
=============================================================================
