----------------------------- MODULE GreedyBPE -----------------------------
(***************************************************************************)
(* Byte-pair encoding as it is defined: of all neighbouring segments whose *)
(* concatenation is in the vocabulary, merge the pair of lowest rank, the  *)
(* leftmost where ranks are equal.  A text that is in the vocabulary as a  *)
(* whole may be taken at once.                                             *)
(***************************************************************************)
EXTENDS Integers, Sequences

VARIABLES
  text,
  vocabulary,  \* rank of every token
  split        \* the text as a sequence of tokens

Joined(k) == split[k] \o split[k + 1]

Candidates == {k \in 1..(Len(split) - 1) : Joined(k) \in DOMAIN vocabulary}

Best(k) ==
  /\ k \in Candidates
  /\ \A j \in Candidates :
       /\ vocabulary[Joined(k)] <= vocabulary[Joined(j)]
       /\ j < k => vocabulary[Joined(k)] < vocabulary[Joined(j)]

Init == split = [k \in 1..Len(text) |-> <<text[k]>>]

Merged(k) ==
  [j \in 1..(Len(split) - 1) |->
     IF j < k THEN split[j] ELSE IF j = k THEN Joined(k) ELSE split[j + 1]]

MergePair(k) == split' = Merged(k)

TakeWhole == text \in DOMAIN vocabulary /\ Len(split) = Len(text) /\ split' = <<text>>

Next ==
  /\ UNCHANGED <<text, vocabulary>>
  /\ TakeWhole \/ \E k \in 1..(Len(split) - 1) : Best(k) /\ MergePair(k)

Spec == Init /\ [][Next]_<<text, vocabulary, split>>
=============================================================================
