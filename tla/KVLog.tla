------------------------------- MODULE KVLog -------------------------------
(***************************************************************************)
(* What attention needs of the key/value cache, without addresses: for     *)
(* every layer and head a log of rows, extended at its end only, all heads *)
(* of a layer together, and no layer ahead of the one before it.           *)
(***************************************************************************)
EXTENDS Integers, Sequences

CONSTANTS
  Layers, Heads,
  MaxAppend       \* most rows one pass appends

VARIABLE log      \* log[<<l, h>>]: the rows of head h in layer l, oldest first

Depth(l, h) == Len(log[<<l, h>>])

Init == log = [lh \in Layers \X Heads |-> << >>]

\* Layer l appends the rows of n further positions to each of its heads.
Extend(l, n) ==
  log' = [lh \in Layers \X Heads |->
            IF lh[1] = l
            THEN log[lh] \o [i \in 1..n |-> <<l, lh[2], Len(log[lh]) + i - 1>>]
            ELSE log[lh]]

\* A layer starts a position only when the layers before it have it and the
\* layers after it do not.
InTurn(l) ==
  \A k \in Layers, h \in Heads :
    /\ k < l => Depth(k, h) > Depth(l, h)
    /\ k > l => Depth(k, h) = Depth(l, h)

Next == \E l \in Layers : InTurn(l) /\ \E n \in 1..MaxAppend : Extend(l, n)

Spec == Init /\ [][Next]_log
=============================================================================
