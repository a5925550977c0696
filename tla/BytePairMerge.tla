--------------------------- MODULE BytePairMerge ---------------------------
(***************************************************************************)
(* How tiktoken.h turns one piece of the text into tokens: a piece that is *)
(* a token by itself is looked up, any other is merged by _byte_pair_merge *)
(* over a vector `parts` of boundaries.  Every boundary caches the rank of *)
(* the token that the two parts to its right would form; a merge updates   *)
(* the two caches it outdates before it erases the boundary in between.    *)
(*                                                                         *)
(* Indices count from 0, as in the code; Part(i) is parts[i].              *)
(***************************************************************************)
EXTENDS Integers, Sequences

CONSTANTS
  Byte,
  Vocabularies,  \* encoders: functions from byte strings to ranks
  Pieces,        \* what the regular expression cuts the text into
  MaxInt         \* std::numeric_limits<int>::max()

\* Every rank is an int, and every single byte is a token.
ASSUME VocabularyAssumption ==
  /\ MaxInt \in Nat
  /\ \A v \in Vocabularies :
       /\ DOMAIN v \subseteq Seq(Byte)
       /\ \A b \in Byte : <<b>> \in DOMAIN v
       /\ \A s \in DOMAIN v : v[s] \in 0..(MaxInt - 1)

ASSUME PieceAssumption == Pieces \subseteq Seq(Byte) /\ \A p \in Pieces : Len(p) > 0

VARIABLES
  pc,      \* "lookup", "merge" or "done"
  ranks,   \* the encoder
  piece,
  parts,   \* boundaries: records of a start and the cached rank
  out      \* the tokens of the piece

vars == <<pc, ranks, piece, parts, out>>

-----------------------------------------------------------------------------
\* piece.substr(s, e - s)
Substr(s, e) == SubSeq(piece, s + 1, e)

RankOrMax(s, e) == IF Substr(s, e) \in DOMAIN ranks THEN ranks[Substr(s, e)] ELSE MaxInt

Part(i) == parts[i + 1]

\* get_rank, with MaxInt for nullopt.
GetRankOrMinusOne(i, skip) ==
  IF i + skip + 2 < Len(parts) /\ Substr(Part(i).first, Part(i + skip + 2).first) \in DOMAIN ranks
  THEN ranks[Substr(Part(i).first, Part(i + skip + 2).first)]
  ELSE -1
GetRank(i, skip) ==
  IF i + skip + 2 < Len(parts)
  THEN RankOrMax(Part(i).first, Part(i + skip + 2).first)
  ELSE MaxInt

\* The boundaries of single bytes, with the ranks of all adjacent pairs.
InitialParts(n) ==
  [k \in 1..(n + 1) |->
     [first |-> k - 1, second |-> IF k < n THEN RankOrMax(k - 1, k + 1) ELSE MaxInt]]

Mergeable == {i \in 0..(Len(parts) - 2) : Part(i).second # MaxInt}

IsLastMin(i) ==
  /\ i \in Mergeable
  /\ \A j \in Mergeable : Part(i).second <= Part(j).second
  /\ \A j \in Mergeable : j > i => Part(i).second < Part(j).second

\* The scan keeps the first of the lowest ranks.
IsMin(i) ==
  /\ i \in Mergeable
  /\ \A j \in Mergeable : Part(i).second <= Part(j).second
  /\ \A j \in Mergeable : j < i => Part(i).second < Part(j).second

\* The new caches of boundaries i and i-1, then the erasure of boundary i+1.
MergedOnlyRight(i) ==
  [k \in 1..(Len(parts) - 1) |->
     IF k = i + 1 THEN [parts[k] EXCEPT !.second = GetRank(i, 1)]
     ELSE IF k <= i THEN parts[k]
     ELSE parts[k + 1]]
MergedErasingNothing(i) == [parts EXCEPT ![i + 1].second = GetRank(i, 1)]
Merged(i) ==
  [k \in 1..(Len(parts) - 1) |->
     IF k = i + 1 THEN [parts[k] EXCEPT !.second = GetRank(i, 1)]
     ELSE IF k = i THEN [parts[k] EXCEPT !.second = GetRank(i - 1, 1)]
     ELSE IF k < i THEN parts[k]
     ELSE parts[k + 1]]

\* ranks.at of every part.
TokensButLast == [k \in 1..(Len(parts) - 2) |-> ranks[Substr(parts[k].first, parts[k + 1].first)]]
Tokens == [k \in 1..(Len(parts) - 1) |-> ranks[Substr(parts[k].first, parts[k + 1].first)]]

-----------------------------------------------------------------------------
Init ==
  /\ pc = "lookup"
  /\ ranks \in Vocabularies
  /\ piece \in Pieces
  /\ parts = << >>
  /\ out = << >>

\* encoder_.find(piece) succeeds, or byte_pair_encode is given one byte.
Lookup ==
  /\ pc = "lookup"
  /\ piece \in DOMAIN ranks
  /\ out' = <<ranks[piece]>>
  /\ pc' = "done"
  /\ UNCHANGED <<ranks, piece, parts>>

StartMerge ==
  /\ pc = "lookup"
  /\ piece \notin DOMAIN ranks
  /\ parts' = InitialParts(Len(piece))
  /\ pc' = "merge"
  /\ UNCHANGED <<ranks, piece, out>>

Merge ==
  /\ pc = "merge"
  /\ \E i \in 0..(Len(parts) - 2) : IsMin(i) /\ parts' = Merged(i)
  /\ UNCHANGED <<pc, ranks, piece, out>>

Emit ==
  /\ pc = "merge"
  /\ Mergeable = {}
  /\ out' = Tokens
  /\ pc' = "done"
  /\ UNCHANGED <<ranks, piece, parts>>

Next == Lookup \/ StartMerge \/ Merge \/ Emit

Spec == Init /\ [][Next]_vars

\* Straight-line code: it goes on as long as it can.
FairSpec == Spec /\ WF_vars(Next)

-----------------------------------------------------------------------------
TypeOK ==
  /\ pc \in {"lookup", "merge", "done"}
  /\ ranks \in Vocabularies
  /\ piece \in Pieces
  /\ parts \in Seq([first : Nat, second : 0..MaxInt])
  /\ out \in Seq(0..(MaxInt - 1))

Merging == parts # << >>

(* No cached rank is stale: after any sequence of merges each boundary      *)
(* holds the rank of the token its two parts form now, although a merge     *)
(* computes two of them on the vector it has not shortened yet              *)
(* (tiktoken.h:66-81).                                                      *)
CachedRanksFresh ==
  Merging =>
    \A k \in 1..Len(parts) :
      parts[k].second =
        IF k + 2 <= Len(parts) THEN RankOrMax(parts[k].first, parts[k + 2].first) ELSE MaxInt

\* What _decode_native makes of the tokens: for each the string of its rank.
Spelling(t) == CHOOSE s \in DOMAIN ranks : ranks[s] = t
Spelled[n \in 0..Len(out)] == IF n = 0 THEN << >> ELSE Spelled[n - 1] \o Spelling(out[n])

(* Decoding the tokens gives the piece back.                                *)
RoundTrip == pc = "done" => Spelled[Len(out)] = piece

(* The merge loop ends for every piece and vocabulary.                      *)
MergeEnds == <>(pc = "done")

-----------------------------------------------------------------------------
(* The loop implements greedy byte-pair encoding on the segments that the   *)
(* boundaries delimit.                                                      *)
Segments ==
  IF pc = "lookup" THEN [k \in 1..Len(piece) |-> <<piece[k]>>]
  ELSE IF parts = << >> THEN <<piece>>
  ELSE [k \in 1..(Len(parts) - 1) |-> Substr(parts[k].first, parts[k + 1].first)]

Greedy == INSTANCE GreedyBPE WITH split <- Segments, vocabulary <- ranks, text <- piece
GreedySpec == Greedy!Spec
=============================================================================
