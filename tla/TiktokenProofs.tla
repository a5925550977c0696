--------------------------- MODULE TiktokenProofs ---------------------------
(***************************************************************************)
(* Proofs about the tokenizer for every vocabulary and every text.  Of the *)
(* merge loop of tiktoken.h: the caches are never stale, the loop is       *)
(* greedy byte-pair encoding, and what it emits spells the piece.  Of the  *)
(* way from a typed line to ids and back: no text is lost, the cue for the *)
(* assistant is the end of what the model gets, and decode undoes encode.  *)
(***************************************************************************)
EXTENDS BytePairMerge, Tokenizer, Foundations, FiniteSetTheorems, SequenceTheorems, TLAPS


Boundary == [first : Nat, second : 0..MaxInt]

-----------------------------------------------------------------------------
(* The inductive invariant.                                                 *)

\* The boundaries go up from the start of the piece to its end.
BoundariesAscend ==
  /\ Len(parts) >= 2
  /\ parts[1].first = 0
  /\ parts[Len(parts)].first = Len(piece)
  /\ \A k \in 1..Len(parts) : parts[k].first <= Len(piece)
  /\ \A k \in 1..(Len(parts) - 1) : parts[k].first < parts[k + 1].first

\* ranks.at never throws: what two boundaries delimit is a token.
SegmentsAreTokens ==
  \A k \in 1..(Len(parts) - 1) :
    Substr(parts[k].first, parts[k + 1].first) \in DOMAIN ranks

\* What the control point says of the data.
Stage ==
  /\ pc = "lookup" => parts = << >>
  /\ pc = "merge" => Merging
  /\ pc = "done" =>
       IF Merging THEN out = Tokens ELSE piece \in DOMAIN ranks /\ out = <<ranks[piece]>>

IInv ==
  /\ TypeOK
  /\ Stage
  /\ Merging => BoundariesAscend /\ SegmentsAreTokens
  /\ CachedRanksFresh

-----------------------------------------------------------------------------
(* Lemmas about the operators.                                              *)

LEMMA FunctionIsSeq ==
  ASSUME NEW S, NEW n \in Nat, NEW f \in [1..n -> S]
  PROVE  f \in Seq(S) /\ Len(f) = n
  OBVIOUS

LEMMA PieceFacts ==
  ASSUME TypeOK
  PROVE  piece \in Seq(Byte) /\ Len(piece) \in Nat /\ Len(piece) > 0
  BY PieceAssumption DEF TypeOK

(* A rank, or MaxInt in its place, is an int.                               *)
LEMMA RanksAreInts ==
  ASSUME TypeOK, NEW s, NEW e
  PROVE  /\ RankOrMax(s, e) \in 0..MaxInt
         /\ RankOrMax(s, e) # MaxInt <=> Substr(s, e) \in DOMAIN ranks
  BY VocabularyAssumption DEF TypeOK, RankOrMax

(* Neighbouring pieces of the text join to the text between their ends.     *)
LEMMA SubstrJoin ==
  ASSUME TypeOK, NEW s \in Nat, NEW m \in Nat, NEW e \in Nat,
         s <= m, m <= e, e <= Len(piece)
  PROVE  Substr(s, m) \o Substr(m, e) = Substr(s, e)
<1>1. piece \in Seq(Byte) /\ Len(piece) \in Nat
  BY PieceFacts
<1>2. s + 1 \in 1..(Len(piece) + 1) /\ m \in (s + 1 - 1)..Len(piece) /\ e \in m..Len(piece)
  BY <1>1
<1> QED
  BY <1>1, <1>2, ConcatAdjacentSubSeq DEF Substr

LEMMA SubstrOfOne ==
  ASSUME TypeOK, NEW k \in 1..Len(piece)
  PROVE  Substr(k - 1, k) = <<piece[k]>> /\ <<piece[k]>> \in DOMAIN ranks
<1>1. piece \in Seq(Byte) /\ Len(piece) \in Nat /\ piece[k] \in Byte
  BY PieceFacts
<1>2. SubSeq(piece, k, k) = SubSeq(piece, k, k - 1) \o <<piece[k]>>
  BY <1>1, SubSeqRecursiveSecond
<1>3. SubSeq(piece, k, k - 1) = << >>
  BY <1>1, SubSeqEmpty
<1>4. << >> \o <<piece[k]>> = <<piece[k]>>
  BY <1>1, ConcatEmptySeq
<1>5. k - 1 + 1 = k
  OBVIOUS
<1> QED
  BY <1>1, <1>2, <1>3, <1>4, <1>5, VocabularyAssumption DEF TypeOK, Substr

(* The vector of a piece: one boundary before every byte and one behind.    *)
LEMMA InitialPartsFacts ==
  ASSUME TypeOK
  PROVE  LET n == Len(piece)
             p == InitialParts(n)
         IN  /\ p \in Seq(Boundary)
             /\ Len(p) = n + 1
             /\ \A k \in 1..(n + 1) :
                  /\ p[k].first = k - 1
                  /\ p[k].second = IF k < n THEN RankOrMax(k - 1, k + 1) ELSE MaxInt
<1> DEFINE n == Len(piece)
           p == InitialParts(n)
<1>1. n \in Nat
  BY PieceFacts
<1>2. \A k \in 1..(n + 1) :
        [first |-> k - 1, second |-> IF k < n THEN RankOrMax(k - 1, k + 1) ELSE MaxInt] \in Boundary
  BY <1>1, RanksAreInts, VocabularyAssumption DEF Boundary
<1>3. p \in [1..(n + 1) -> Boundary]
  BY <1>2 DEF InitialParts
<1>4. p \in Seq(Boundary) /\ Len(p) = n + 1
  BY <1>1, <1>3
<1> QED
  BY <1>1, <1>4 DEF InitialParts

-----------------------------------------------------------------------------
(* The scan picks a pair that is a token; in particular there is a boundary *)
(* behind it.                                                               *)
LEMMA MinIsPair ==
  ASSUME IInv, Merging, NEW i \in 0..(Len(parts) - 2), IsMin(i)
  PROVE  /\ i + 3 <= Len(parts)
         /\ parts[i + 1].second = RankOrMax(parts[i + 1].first, parts[i + 3].first)
         /\ Substr(parts[i + 1].first, parts[i + 3].first) \in DOMAIN ranks
<1>1. Len(parts) \in Nat /\ i + 1 \in 1..Len(parts) /\ i + 1 + 2 = i + 3
  BY DEF IInv, TypeOK
<1>2. parts[i + 1].second # MaxInt
  BY DEF IsMin, Mergeable, Part
<1>3. i + 3 <= Len(parts)
      /\ parts[i + 1].second = RankOrMax(parts[i + 1].first, parts[i + 3].first)
  BY <1>1, <1>2 DEF IInv, CachedRanksFresh
<1> QED
  BY <1>2, <1>3, RanksAreInts DEF IInv

(* A merge drops the boundary inside the pair, keeps the others in order    *)
(* and leaves every cache as if it had been computed on the new vector.     *)
LEMMA MergedFacts ==
  ASSUME IInv, Merging, NEW i \in 0..(Len(parts) - 2), IsMin(i)
  PROVE  LET m == Merged(i)
         IN  /\ m \in Seq(Boundary)
             /\ Len(m) = Len(parts) - 1
             /\ \A k \in 1..Len(m) :
                  /\ m[k].first = parts[IF k <= i + 1 THEN k ELSE k + 1].first
                  /\ m[k].second =
                       IF k + 2 <= Len(m) THEN RankOrMax(m[k].first, m[k + 2].first) ELSE MaxInt
<1> DEFINE m == Merged(i)
           L == Len(parts)
<1>1. TypeOK /\ parts \in Seq(Boundary) /\ L \in Nat /\ i + 3 <= L
  BY MinIsPair DEF IInv, TypeOK, Boundary
<1>2. \A k \in 1..L : parts[k] \in Boundary
  BY <1>1
<1>3. GetRank(i, 1) \in 0..MaxInt /\ GetRank(i - 1, 1) \in 0..MaxInt
  BY <1>1, RanksAreInts, VocabularyAssumption DEF GetRank
<1>4. \A k \in 1..(L - 1) : m[k] \in Boundary
  <2> TAKE k \in 1..(L - 1)
  <2>1. k \in 1..L /\ k + 1 \in 1..L /\ parts[k] \in Boundary /\ parts[k + 1] \in Boundary
    BY <1>1, <1>2
  <2> QED
    BY <1>3, <2>1 DEF Merged, Boundary
<1>5. m \in Seq(Boundary) /\ Len(m) = L - 1
  <2>1. L - 1 \in Nat
    BY <1>1
  <2>2. m = [k \in 1..(L - 1) |-> m[k]]
    BY DEF Merged
  <2>3. m \in [1..(L - 1) -> Boundary]
    BY <1>4, <2>2
  <2> QED
    BY <2>1, <2>3
<1>6. ASSUME NEW k \in 1..(L - 1)
      PROVE  m[k].first = parts[IF k <= i + 1 THEN k ELSE k + 1].first
  <2>1. k \in 1..L /\ k + 1 \in 1..L /\ parts[k] \in Boundary /\ parts[k + 1] \in Boundary
    BY <1>1, <1>2
  <2> QED
    BY <2>1, SMTT(30) DEF Merged, Boundary
<1>7. ASSUME NEW k \in 1..(L - 1)
      PROVE  m[k].second =
               IF k + 2 <= L - 1 THEN RankOrMax(m[k].first, m[k + 2].first) ELSE MaxInt
  <2>1. k \in 1..L /\ k + 1 \in 1..L /\ parts[k] \in Boundary /\ parts[k + 1] \in Boundary
    BY <1>1, <1>2
  <2>2. \A j \in 1..L : parts[j].second =
          IF j + 2 <= L THEN RankOrMax(parts[j].first, parts[j + 2].first) ELSE MaxInt
    BY DEF IInv, CachedRanksFresh
  <2>3. CASE k < i
    <3>1. m[k] = parts[k]
      BY <1>1, <2>1, <2>3 DEF Merged
    <3>2. k + 2 \in 1..(L - 1) /\ k + 2 <= i + 1 /\ k + 2 <= L
      BY <1>1, <2>3
    <3>3. m[k + 2].first = parts[k + 2].first
      BY <3>2, <1>6
    <3> QED
      BY <3>1, <3>2, <3>3, <2>1, <2>2
  <2>4. CASE k = i
    <3>1. m[k].second = GetRank(i - 1, 1) /\ m[k].first = parts[k].first
      BY <1>1, <2>1, <2>4 DEF Merged, Boundary
    <3>2. k + 2 \in 1..(L - 1) /\ ~(k + 2 <= i + 1) /\ k + 2 + 1 = k + 3
      BY <1>1, <2>4
    <3>3. m[k + 2].first = parts[k + 3].first
      BY <3>2, <1>6
    <3>4. i - 1 + 1 + 2 < L /\ i - 1 + 1 = k /\ (i - 1 + 1 + 2) + 1 = k + 3
      BY <1>1, <2>4
    <3>5. GetRank(i - 1, 1) = RankOrMax(parts[k].first, parts[k + 3].first)
      BY <1>1, <2>4, <3>4 DEF GetRank, Part
    <3> QED
      BY <3>1, <3>2, <3>3, <3>5
  <2>5. CASE k = i + 1
    <3>1. m[k].second = GetRank(i, 1) /\ m[k].first = parts[k].first
      BY <1>1, <2>1, <2>5 DEF Merged, Boundary
    <3>2. CASE k + 2 <= L - 1
      <4>1. k + 2 \in 1..(L - 1) /\ ~(k + 2 <= i + 1) /\ k + 2 + 1 = k + 3
        BY <1>1, <2>5, <3>2
      <4>2. m[k + 2].first = parts[k + 3].first
        BY <4>1, <1>6
      <4>3. i + 1 + 2 < L /\ (i + 1 + 2) + 1 = k + 3
        BY <1>1, <2>5, <3>2
      <4>4. GetRank(i, 1) = RankOrMax(parts[k].first, parts[k + 3].first)
        BY <1>1, <2>5, <4>3 DEF GetRank, Part
      <4> QED
        BY <3>1, <3>2, <4>2, <4>4
    <3>3. CASE ~(k + 2 <= L - 1)
      BY <1>1, <2>5, <3>1, <3>3 DEF GetRank
    <3> QED
      BY <3>2, <3>3
  <2>6. CASE k > i + 1
    <3>1. m[k] = parts[k + 1]
      BY <1>1, <2>1, <2>6 DEF Merged
    <3>2. CASE k + 2 <= L - 1
      <4>1. k + 2 \in 1..(L - 1) /\ ~(k + 2 <= i + 1) /\ k + 2 + 1 = k + 3 /\ k + 1 + 2 = k + 3
            /\ k + 3 <= L
        BY <1>1, <2>6, <3>2
      <4>2. m[k + 2].first = parts[k + 3].first
        BY <4>1, <1>6
      <4> QED
        BY <2>1, <2>2, <3>1, <3>2, <4>1, <4>2
    <3>3. CASE ~(k + 2 <= L - 1)
      BY <1>1, <2>1, <2>2, <3>1, <3>3
    <3> QED
      BY <3>2, <3>3
  <2> QED
    BY <1>1, <2>3, <2>4, <2>5, <2>6
<1> QED
  BY <1>5, <1>6, <1>7

-----------------------------------------------------------------------------
(* The invariant, action by action.                                         *)

LEMMA InitIInv == Init => IInv
<1> SUFFICES ASSUME Init PROVE IInv
  OBVIOUS
<1>1. TypeOK
  BY DEF Init, TypeOK
<1> QED
  BY <1>1 DEF Init, IInv, Stage, Merging, CachedRanksFresh

LEMMA LookupKeepsIInv == IInv /\ Lookup => IInv'
<1> SUFFICES ASSUME IInv, Lookup PROVE IInv'
  OBVIOUS
<1>1. parts = << >> /\ parts' = << >>
  BY DEF IInv, Stage, Lookup
<1>2. ranks[piece] \in 0..(MaxInt - 1)
  BY VocabularyAssumption DEF IInv, TypeOK, Lookup
<1>3. TypeOK'
  BY <1>2 DEF IInv, TypeOK, Lookup
<1>4. Stage'
  BY <1>1 DEF Stage, Lookup, Merging
<1> QED
  BY <1>1, <1>3, <1>4 DEF IInv, CachedRanksFresh, Merging

LEMMA StartMergeKeepsIInv == IInv /\ StartMerge => IInv'
<1> SUFFICES ASSUME IInv, StartMerge PROVE IInv'
  OBVIOUS
<1> DEFINE n == Len(piece)
<1>1. TypeOK /\ n \in Nat /\ n > 0 /\ UNCHANGED <<ranks, piece, out>> /\ pc' = "merge"
  BY PieceFacts DEF IInv, StartMerge
<1>2. /\ parts' \in Seq(Boundary)
      /\ Len(parts') = n + 1
      /\ \A k \in 1..(n + 1) :
           /\ parts'[k].first = k - 1
           /\ parts'[k].second = IF k < n THEN RankOrMax(k - 1, k + 1) ELSE MaxInt
  BY <1>1, InitialPartsFacts DEF StartMerge
<1>3. TypeOK'
  BY <1>1, <1>2 DEF TypeOK, Boundary
<1>4. Stage' /\ Merging'
  BY <1>1, <1>2 DEF Stage, Merging
<1>5. BoundariesAscend'
  BY <1>1, <1>2 DEF BoundariesAscend
<1>6. SegmentsAreTokens'
  <2> SUFFICES ASSUME NEW k \in 1..n
               PROVE  Substr(parts'[k].first, parts'[k + 1].first) \in DOMAIN ranks
    BY <1>1, <1>2 DEF SegmentsAreTokens, Substr
  <2>1. parts'[k].first = k - 1 /\ parts'[k + 1].first = k
    BY <1>1, <1>2
  <2> QED
    BY <1>1, <2>1, SubstrOfOne
<1>7. CachedRanksFresh'
  <2> SUFFICES ASSUME NEW k \in 1..(n + 1)
               PROVE  parts'[k].second =
                        IF k + 2 <= n + 1 THEN RankOrMax(parts'[k].first, parts'[k + 2].first)
                        ELSE MaxInt
    BY <1>1, <1>2 DEF CachedRanksFresh, RankOrMax, Substr
  <2>1. CASE k + 2 <= n + 1
    <3>1. k < n /\ k + 2 \in 1..(n + 1) /\ k + 2 - 1 = k + 1
      BY <1>1, <2>1
    <3> QED
      BY <1>2, <2>1, <3>1
  <2>2. CASE ~(k + 2 <= n + 1)
    BY <1>1, <1>2, <2>2
  <2> QED
    BY <2>1, <2>2
<1> QED
  BY <1>3, <1>4, <1>5, <1>6, <1>7 DEF IInv

LEMMA MergeKeepsIInv == IInv /\ Merge => IInv'
<1> SUFFICES ASSUME IInv, Merge PROVE IInv'
  OBVIOUS
<1>1. PICK i \in 0..(Len(parts) - 2) : IsMin(i) /\ parts' = Merged(i)
  BY DEF Merge
<1>2. TypeOK /\ Merging /\ UNCHANGED <<pc, ranks, piece, out>> /\ pc = "merge"
  BY DEF IInv, Stage, Merge
<1> DEFINE L == Len(parts)
<1>3. /\ parts' \in Seq(Boundary)
      /\ Len(parts') = L - 1
      /\ \A k \in 1..(L - 1) :
           /\ parts'[k].first = parts[IF k <= i + 1 THEN k ELSE k + 1].first
           /\ parts'[k].second =
                IF k + 2 <= L - 1 THEN RankOrMax(parts'[k].first, parts'[k + 2].first) ELSE MaxInt
  BY <1>1, <1>2, MergedFacts
<1>4. L \in Nat /\ i + 3 <= L /\ Substr(parts[i + 1].first, parts[i + 3].first) \in DOMAIN ranks
  BY <1>1, <1>2, MinIsPair DEF TypeOK
<1>kept. ASSUME NEW k \in 1..(L - 1), k <= i + 1 PROVE parts'[k].first = parts[k].first
  BY <1>3, <1>kept
<1>moved. ASSUME NEW k \in 1..(L - 1), k > i + 1 PROVE parts'[k].first = parts[k + 1].first
  <2>1. ~(k <= i + 1)
    BY <1>moved, <1>4
  <2> QED
    BY <1>3, <2>1
<1>5. TypeOK'
  BY <1>2, <1>3 DEF TypeOK, Boundary
<1>6. Stage' /\ Merging'
  BY <1>2, <1>3, <1>4 DEF Stage, Merging
<1>7. CachedRanksFresh'
  BY <1>2, <1>3 DEF CachedRanksFresh, RankOrMax, Substr
<1>8. BoundariesAscend /\ SegmentsAreTokens
  BY <1>2 DEF IInv
<1>9. \A k \in 1..L : parts[k].first \in Nat
  <2> TAKE k \in 1..L
  <2>1. parts[k] \in Boundary
    BY <1>2, ElementOfSeq DEF TypeOK, Boundary
  <2> QED
    BY <2>1 DEF Boundary
<1>10. BoundariesAscend'
  <2>1. parts'[1].first = 0
    <3>1. 1 \in 1..(L - 1) /\ 1 <= i + 1
      BY <1>4
    <3>2. parts'[1].first = parts[1].first
      BY <1>kept, <3>1
    <3> QED
      BY <1>8, <3>2 DEF BoundariesAscend
  <2>2. parts'[L - 1].first = Len(piece)
    <3>1. L - 1 \in 1..(L - 1) /\ ~(L - 1 <= i + 1) /\ L - 1 + 1 = L
      BY <1>4
    <3> QED
      BY <1>3, <3>1, <1>8 DEF BoundariesAscend
  <2>3. ASSUME NEW k \in 1..(L - 1) PROVE parts'[k].first <= Len(piece)
    <3>1. k \in 1..L /\ k + 1 \in 1..L /\ (k <= i + 1 \/ k > i + 1)
      BY <1>4
    <3> QED
      BY <1>kept, <1>moved, <1>8, <3>1 DEF BoundariesAscend
  <2>4. ASSUME NEW k \in 1..(L - 2) PROVE parts'[k].first < parts'[k + 1].first
    <3>1. k \in 1..(L - 1) /\ k + 1 \in 1..(L - 1)
      BY <1>4
    <3>2. CASE k <= i
      <4>1. parts'[k].first = parts[k].first /\ parts'[k + 1].first = parts[k + 1].first
        <5>1. k <= i + 1 /\ k + 1 <= i + 1
          BY <3>2
        <5> QED
          BY <1>kept, <3>1, <5>1
      <4> QED
        BY <1>8, <3>1, <4>1 DEF BoundariesAscend
    <3>3. CASE k = i + 1
      <4>1. parts'[k].first = parts[k].first /\ parts'[k + 1].first = parts[k + 1 + 1].first
        <5>1. k <= i + 1 /\ k + 1 > i + 1
          BY <3>3
        <5> QED
          BY <1>kept, <1>moved, <3>1, <5>1
      <4>2. /\ k \in 1..(L - 1) /\ k + 1 \in 1..(L - 1)
            /\ k \in 1..L /\ k + 1 \in 1..L /\ k + 1 + 1 \in 1..L
        BY <1>4, <3>3
      <4>3. parts[k].first < parts[k + 1].first /\ parts[k + 1].first < parts[k + 1 + 1].first
        BY <1>8, <4>2 DEF BoundariesAscend
      <4> QED
        BY <1>9, <4>1, <4>2, <4>3
    <3>4. CASE k > i + 1
      <4>1. parts'[k].first = parts[k + 1].first /\ parts'[k + 1].first = parts[k + 1 + 1].first
        <5>1. k > i + 1 /\ k + 1 > i + 1
          BY <3>4
        <5> QED
          BY <1>moved, <3>1, <5>1
      <4>2. k + 1 \in 1..(L - 1)
        BY <1>4
      <4> QED
        BY <1>8, <4>1, <4>2 DEF BoundariesAscend
    <3> QED
      BY <1>4, <3>2, <3>3, <3>4
  <2>5. Len(parts') = L - 1 /\ L - 1 >= 2 /\ L - 1 - 1 = L - 2 /\ piece' = piece
    BY <1>2, <1>3, <1>4
  <2> HIDE DEF L
  <2> QED
    BY <2>1, <2>2, <2>3, <2>4, <2>5 DEF BoundariesAscend
<1>11. SegmentsAreTokens'
  <2> SUFFICES ASSUME NEW k \in 1..(L - 2)
               PROVE  Substr(parts'[k].first, parts'[k + 1].first) \in DOMAIN ranks
    <3>1. Len(parts') - 1 = L - 2
      BY <1>3, <1>4
    <3> QED
      BY <1>2, <3>1 DEF SegmentsAreTokens, Substr
  <2>1. k \in 1..(L - 1) /\ k + 1 \in 1..(L - 1)
    BY <1>4
  <2>2. CASE k <= i
    <3>1. parts'[k].first = parts[k].first /\ parts'[k + 1].first = parts[k + 1].first
      <4>1. k <= i + 1 /\ k + 1 <= i + 1
        BY <2>2
      <4> QED
        BY <1>kept, <2>1, <4>1
    <3> QED
      BY <1>8, <2>1, <3>1 DEF SegmentsAreTokens
  <2>3. CASE k = i + 1
    <3>1. parts'[k].first = parts[i + 1].first /\ parts'[k + 1].first = parts[i + 3].first
      <4>1. k <= i + 1 /\ k + 1 > i + 1 /\ k + 1 + 1 = i + 3
        BY <2>3
      <4> QED
        BY <1>kept, <1>moved, <2>1, <2>3, <4>1
    <3> QED
      BY <1>4, <3>1
  <2>4. CASE k > i + 1
    <3>1. parts'[k].first = parts[k + 1].first /\ parts'[k + 1].first = parts[k + 1 + 1].first
      <4>1. k > i + 1 /\ k + 1 > i + 1
        BY <2>4
      <4> QED
        BY <1>moved, <2>1, <4>1
    <3> QED
      BY <1>8, <2>1, <3>1 DEF SegmentsAreTokens
  <2> QED
    BY <1>4, <2>2, <2>3, <2>4
<1> QED
  BY <1>5, <1>6, <1>7, <1>10, <1>11 DEF IInv

(* What the loop emits: one rank for each of the segments.                  *)
LEMMA TokensFacts ==
  ASSUME IInv, Merging
  PROVE  /\ Tokens \in Seq(0..(MaxInt - 1))
         /\ Len(Tokens) = Len(parts) - 1
         /\ Len(parts) - 1 \in Nat
<1>1. Len(parts) \in Nat /\ Len(parts) >= 2 /\ SegmentsAreTokens /\ ranks \in Vocabularies
  BY DEF IInv, TypeOK, BoundariesAscend
<1>2. \A k \in 1..(Len(parts) - 1) :
        ranks[Substr(parts[k].first, parts[k + 1].first)] \in 0..(MaxInt - 1)
  BY <1>1, VocabularyAssumption DEF SegmentsAreTokens
<1>3. Tokens \in [1..(Len(parts) - 1) -> 0..(MaxInt - 1)]
  BY <1>2 DEF Tokens
<1>4. Len(parts) - 1 \in Nat
  BY <1>1
<1> QED
  BY <1>3, <1>4, FunctionIsSeq

LEMMA EmitKeepsIInv == IInv /\ Emit => IInv'
<1> SUFFICES ASSUME IInv, Emit PROVE IInv'
  OBVIOUS
<1>1. TypeOK /\ Merging /\ UNCHANGED <<ranks, piece, parts>> /\ out' = Tokens /\ pc' = "done"
  BY DEF IInv, Stage, Emit
<1>2. TypeOK'
  BY <1>1, TokensFacts DEF TypeOK
<1>3. Stage' /\ Merging'
  BY <1>1 DEF Stage, Merging, Tokens, Substr
<1>4. BoundariesAscend' /\ SegmentsAreTokens' /\ CachedRanksFresh'
  BY <1>1 DEF IInv, BoundariesAscend, SegmentsAreTokens, CachedRanksFresh, RankOrMax, Substr, Merging
<1> QED
  BY <1>2, <1>3, <1>4 DEF IInv

LEMMA NextKeepsIInv == IInv /\ [Next]_vars => IInv'
<1> SUFFICES ASSUME IInv, [Next]_vars PROVE IInv'
  OBVIOUS
<1>1. CASE UNCHANGED vars
  BY <1>1 DEF vars, IInv, TypeOK, Stage, Merging, BoundariesAscend, SegmentsAreTokens,
              CachedRanksFresh, RankOrMax, Substr, Tokens
<1> QED
  BY <1>1, LookupKeepsIInv, StartMergeKeepsIInv, MergeKeepsIInv, EmitKeepsIInv DEF Next

LEMMA SpecKeepsIInv == Spec => []IInv
  BY InitIInv, NextKeepsIInv, PTL DEF Spec

(* The boundaries stay boundaries and every token emitted is a rank, for    *)
(* any vocabulary and any piece (tiktoken.h:44-99).                         *)
THEOREM TypeCorrect == Spec => []TypeOK
<1>1. IInv => TypeOK
  BY DEF IInv
<1> QED
  BY <1>1, SpecKeepsIInv, PTL

(* No merge leaves a stale rank behind, although it refreshes two caches on *)
(* a vector from which the inner boundary is not yet erased                 *)
(* (tiktoken.h:66-81).                                                      *)
THEOREM CachesStayFresh == Spec => []CachedRanksFresh
<1>1. IInv => CachedRanksFresh
  BY DEF IInv
<1> QED
  BY <1>1, SpecKeepsIInv, PTL

-----------------------------------------------------------------------------
(* The loop implements greedy byte-pair encoding.                           *)

LEMMA SegmentsOfParts ==
  ASSUME IInv, Merging
  PROVE  /\ Segments =
              [k \in 1..(Len(parts) - 1) |-> Substr(parts[k].first, parts[k + 1].first)]
         /\ Len(Segments) = Len(parts) - 1
         /\ Len(parts) - 1 \in Nat
<1>1. Len(parts) \in Nat /\ Len(parts) >= 2 /\ pc # "lookup"
  BY DEF IInv, TypeOK, BoundariesAscend, Stage, Merging
<1>2. Segments = [k \in 1..(Len(parts) - 1) |-> Substr(parts[k].first, parts[k + 1].first)]
  BY <1>1 DEF Segments, Merging
<1> QED
  BY <1>1, <1>2

(* Two neighbouring segments join to what the outer boundaries delimit, and *)
(* a cached rank is the rank of what they join to.                          *)
LEMMA PairsAreCached ==
  ASSUME IInv, Merging, NEW k \in 1..(Len(parts) - 2)
  PROVE  /\ Greedy!Joined(k) = Substr(parts[k].first, parts[k + 2].first)
         /\ parts[k].second = RankOrMax(parts[k].first, parts[k + 2].first)
<1>1. /\ TypeOK /\ BoundariesAscend /\ CachedRanksFresh /\ Len(parts) \in Nat
      /\ k \in 1..(Len(parts) - 1) /\ k + 1 \in 1..(Len(parts) - 1) /\ k + 1 + 1 = k + 2
      /\ k + 2 \in 1..Len(parts) /\ k + 1 \in 1..Len(parts) /\ k \in 1..Len(parts)
      /\ Len(piece) \in Nat
  BY PieceFacts DEF IInv, TypeOK
<1>2. parts[k].first \in Nat /\ parts[k + 1].first \in Nat /\ parts[k + 2].first \in Nat
  <2>1. parts[k] \in Boundary /\ parts[k + 1] \in Boundary /\ parts[k + 2] \in Boundary
    BY <1>1, ElementOfSeq DEF TypeOK, Boundary
  <2> QED
    BY <2>1 DEF Boundary
<1>3. parts[k].first < parts[k + 1].first /\ parts[k + 1].first < parts[k + 2].first
      /\ parts[k + 2].first <= Len(piece)
  BY <1>1 DEF BoundariesAscend
<1>4. Greedy!Joined(k) =
        Substr(parts[k].first, parts[k + 1].first) \o Substr(parts[k + 1].first, parts[k + 2].first)
  BY <1>1, SegmentsOfParts DEF Greedy!Joined
<1>5. Greedy!Joined(k) = Substr(parts[k].first, parts[k + 2].first)
  <2>1. parts[k].first <= parts[k + 1].first /\ parts[k + 1].first <= parts[k + 2].first
    BY <1>2, <1>3
  <2>2. TypeOK /\ parts[k + 2].first <= Len(piece)
    BY <1>1, <1>3
  <2> QED
    BY <1>2, <1>4, <2>1, <2>2, SubstrJoin
<1>6. k + 2 <= Len(parts)
  BY <1>1
<1> QED
  BY <1>1, <1>5, <1>6 DEF CachedRanksFresh, Merging

(* The pairs the scan looks at are the candidates of greedy encoding.       *)
LEMMA MergeableAreCandidates ==
  ASSUME IInv, Merging
  PROVE  /\ \A i \in Mergeable : i + 1 \in Greedy!Candidates
         /\ \A k \in Greedy!Candidates : k - 1 \in Mergeable
         /\ \A k \in Greedy!Candidates :
              k \in 1..(Len(parts) - 2) /\ parts[k].second = ranks[Greedy!Joined(k)]
<1>1. TypeOK /\ Len(parts) \in Nat /\ Len(Segments) = Len(parts) - 1
  BY SegmentsOfParts DEF IInv, TypeOK
<1>2. ASSUME NEW i \in Mergeable PROVE i + 1 \in Greedy!Candidates
  <2>1. i \in 0..(Len(parts) - 2) /\ i + 1 \in 1..Len(parts) /\ parts[i + 1].second # MaxInt
    BY <1>1 DEF Mergeable, Part
  <2>2. i + 1 \in 1..(Len(parts) - 2)
    BY <1>1, <2>1 DEF IInv, CachedRanksFresh
  <2>3. Greedy!Joined(i + 1) \in DOMAIN ranks
    BY <1>1, <2>1, <2>2, PairsAreCached, RanksAreInts
  <2> QED
    BY <1>1, <2>2, <2>3 DEF Greedy!Candidates
<1>3. ASSUME NEW k \in Greedy!Candidates
      PROVE  /\ k \in 1..(Len(parts) - 2)
             /\ parts[k].second = ranks[Greedy!Joined(k)]
             /\ k - 1 \in Mergeable
  <2>1. k \in 1..(Len(parts) - 2) /\ Greedy!Joined(k) \in DOMAIN ranks
    BY <1>1 DEF Greedy!Candidates
  <2>2. parts[k].second = ranks[Greedy!Joined(k)] /\ parts[k].second # MaxInt
    BY <1>1, <2>1, PairsAreCached, RanksAreInts DEF RankOrMax
  <2>3. k - 1 \in 0..(Len(parts) - 2) /\ k - 1 + 1 = k
    BY <1>1, <2>1
  <2> QED
    BY <2>1, <2>2, <2>3 DEF Mergeable, Part
<1> QED
  BY <1>2, <1>3

LEMMA InitIsGreedy == Init => Greedy!Init
  BY DEF Init, Greedy!Init, Segments

LEMMA LookupIsGreedy == IInv /\ Lookup => Greedy!Next
<1> SUFFICES ASSUME IInv, Lookup PROVE Greedy!Next
  OBVIOUS
<1>1. parts = << >> /\ Len(piece) \in Nat
  BY PieceFacts DEF IInv, Stage, Lookup
<1>2. Segments = [k \in 1..Len(piece) |-> <<piece[k]>>] /\ Len(Segments) = Len(piece)
  BY <1>1 DEF Segments, Lookup
<1>3. Segments' = <<piece>>
  BY <1>1 DEF Segments, Lookup
<1>4. Greedy!TakeWhole
  BY <1>2, <1>3 DEF Greedy!TakeWhole, Lookup
<1> QED
  BY <1>4 DEF Greedy!Next, Lookup

LEMMA StartMergeStutters == IInv /\ StartMerge => UNCHANGED <<piece, ranks, Segments>>
<1> SUFFICES ASSUME IInv, StartMerge PROVE UNCHANGED <<piece, ranks, Segments>>
  OBVIOUS
<1> DEFINE n == Len(piece)
<1>1. TypeOK /\ n \in Nat /\ n > 0 /\ UNCHANGED <<ranks, piece>>
  BY PieceFacts DEF IInv, StartMerge
<1>2. Len(parts') = n + 1 /\ \A k \in 1..(n + 1) : parts'[k].first = k - 1
  BY <1>1, InitialPartsFacts DEF StartMerge
<1>3. Segments = [k \in 1..n |-> <<piece[k]>>]
  BY DEF Segments, StartMerge
<1>4. parts' # << >> /\ Len(parts') - 1 = n
  BY <1>1, <1>2
<1>5. Segments' = [k \in 1..n |-> Substr(parts'[k].first, parts'[k + 1].first)]
  BY <1>1, <1>4 DEF Segments, StartMerge, Substr
<1>6. \A k \in 1..n : Substr(parts'[k].first, parts'[k + 1].first) = <<piece[k]>>
  <2> TAKE k \in 1..n
  <2>1. parts'[k].first = k - 1 /\ parts'[k + 1].first = k
    BY <1>1, <1>2
  <2> QED
    BY <1>1, <2>1, SubstrOfOne
<1> QED
  BY <1>1, <1>3, <1>5, <1>6

LEMMA MergeIsGreedy == IInv /\ IInv' /\ Merge => Greedy!Next
<1> SUFFICES ASSUME IInv, IInv', Merge PROVE Greedy!Next
  OBVIOUS
<1>1. PICK i \in 0..(Len(parts) - 2) : IsMin(i) /\ parts' = Merged(i)
  BY DEF Merge
<1> DEFINE L == Len(parts)
<1>2. TypeOK /\ Merging /\ Merging' /\ UNCHANGED <<ranks, piece>>
  BY DEF IInv, Stage, Merge
<1>3. L \in Nat /\ i + 3 <= L
  BY <1>1, <1>2, MinIsPair DEF TypeOK
<1>4. i \in Mergeable /\ i + 1 \in Greedy!Candidates /\ i + 1 \in 1..(L - 2)
  BY <1>1, <1>2, MergeableAreCandidates DEF IsMin
<1>5. Greedy!Best(i + 1)
  <2>1. parts[i + 1].second = ranks[Greedy!Joined(i + 1)]
    BY <1>2, <1>4, MergeableAreCandidates
  <2>2. ASSUME NEW j \in Greedy!Candidates
        PROVE  /\ ranks[Greedy!Joined(i + 1)] <= ranks[Greedy!Joined(j)]
               /\ j < i + 1 => ranks[Greedy!Joined(i + 1)] < ranks[Greedy!Joined(j)]
    <3>1. j - 1 \in Mergeable /\ parts[j].second = ranks[Greedy!Joined(j)] /\ j \in 1..(L - 2)
      BY <1>2, MergeableAreCandidates
    <3>2. j - 1 + 1 = j /\ (j < i + 1 => j - 1 < i)
      BY <3>1
    <3> QED
      BY <1>1, <2>1, <3>1, <3>2 DEF IsMin, Part
  <2> QED
    BY <1>4, <2>2 DEF Greedy!Best
<1>6. Segments' = Greedy!Merged(i + 1)
  <2>1. /\ Len(parts') = L - 1
        /\ \A k \in 1..(L - 1) : parts'[k].first = parts[IF k <= i + 1 THEN k ELSE k + 1].first
    BY <1>1, <1>2, MergedFacts
  <2>2. ASSUME NEW k \in 1..(L - 1), k <= i + 1 PROVE parts'[k].first = parts[k].first
    BY <2>1, <2>2
  <2>3. ASSUME NEW k \in 1..(L - 1), k > i + 1 PROVE parts'[k].first = parts[k + 1].first
    <3>1. ~(k <= i + 1)
      BY <2>3, <1>3
    <3> QED
      BY <2>1, <3>1
  <2>4. /\ Segments = [k \in 1..(L - 1) |-> Substr(parts[k].first, parts[k + 1].first)]
        /\ Len(Segments) = L - 1
    BY <1>2, SegmentsOfParts
  <2>5. Segments' = [k \in 1..(L - 2) |-> Substr(parts'[k].first, parts'[k + 1].first)]
    <3>1. Len(parts') - 1 = L - 2 /\ parts' # << >> /\ pc' # "lookup"
      BY <1>2, <1>3, <2>1 DEF Merging, Merge
    <3> QED
      BY <1>2, <3>1 DEF Segments, Substr
  <2>6. Greedy!Merged(i + 1) =
          [k \in 1..(L - 2) |->
             IF k < i + 1 THEN Segments[k]
             ELSE IF k = i + 1 THEN Greedy!Joined(i + 1) ELSE Segments[k + 1]]
    BY <1>3, <2>4 DEF Greedy!Merged
  <2>7. ASSUME NEW k \in 1..(L - 2)
        PROVE  Substr(parts'[k].first, parts'[k + 1].first) =
                 IF k < i + 1 THEN Segments[k]
                 ELSE IF k = i + 1 THEN Greedy!Joined(i + 1) ELSE Segments[k + 1]
    <3>1. k \in 1..(L - 1) /\ k + 1 \in 1..(L - 1)
      BY <1>3
    <3>2. CASE k < i + 1
      <4>1. k <= i + 1 /\ k + 1 <= i + 1
        BY <3>2
      <4>2. parts'[k].first = parts[k].first /\ parts'[k + 1].first = parts[k + 1].first
        BY <2>2, <3>1, <4>1
      <4> QED
        BY <2>4, <3>1, <3>2, <4>2
    <3>3. CASE k = i + 1
      <4>1. k <= i + 1 /\ k + 1 > i + 1 /\ k + 1 + 1 = k + 2
        BY <3>3
      <4>2. parts'[k].first = parts[k].first /\ parts'[k + 1].first = parts[k + 2].first
        BY <2>2, <2>3, <3>1, <4>1
      <4>3. Greedy!Joined(k) = Substr(parts[k].first, parts[k + 2].first)
        BY <1>2, PairsAreCached
      <4> QED
        BY <3>3, <4>2, <4>3
    <3>4. CASE k > i + 1
      <4>1. k > i + 1 /\ k + 1 > i + 1
        BY <3>4
      <4>2. parts'[k].first = parts[k + 1].first /\ parts'[k + 1].first = parts[k + 1 + 1].first
        BY <2>3, <3>1, <4>1
      <4> QED
        BY <2>4, <3>1, <3>4, <4>2
    <3> QED
      BY <3>2, <3>3, <3>4
  <2> HIDE DEF L
  <2> QED
    BY <2>5, <2>6, <2>7
<1>7. i + 1 \in 1..(Len(Segments) - 1)
  BY <1>2, <1>3, <1>4, SegmentsOfParts
<1> QED
  BY <1>2, <1>5, <1>6, <1>7 DEF Greedy!Next, Greedy!MergePair

LEMMA EmitStutters == IInv /\ Emit => UNCHANGED <<piece, ranks, Segments>>
  BY DEF IInv, Stage, Merging, Emit, Segments, Substr

(* Whatever the vocabulary and the piece, the loop with its cached ranks    *)
(* (tiktoken.h:44-99) merges exactly the pairs that greedy byte-pair        *)
(* encoding merges, in the same order.                                      *)
THEOREM ImplementsGreedy == Spec => GreedySpec
<1>1. Init => Greedy!Init
  BY InitIsGreedy
<1>2. IInv /\ IInv' /\ [Next]_vars => [Greedy!Next]_<<piece, ranks, Segments>>
  <2> SUFFICES ASSUME IInv, IInv', [Next]_vars
               PROVE  Greedy!Next \/ UNCHANGED <<piece, ranks, Segments>>
    OBVIOUS
  <2>1. CASE UNCHANGED vars
    BY <2>1 DEF vars, Segments, Substr
  <2> QED
    BY <2>1, LookupIsGreedy, StartMergeStutters, MergeIsGreedy, EmitStutters DEF Next
<1> QED
  BY <1>1, <1>2, SpecKeepsIInv, PTL DEF Spec, GreedySpec, Greedy!Spec

-----------------------------------------------------------------------------
(* Decoding gives the piece back.                                           *)

\* No two tokens share a rank: the vocabulary file lists every rank once.
RanksAreDistinct == \A v \in Vocabularies : \A s, t \in DOMAIN v : v[s] = v[t] => s = t

LEMMA SpellingFacts ==
  ASSUME TypeOK, RanksAreDistinct, NEW s \in DOMAIN ranks
  PROVE  Spelling(ranks[s]) = s
  BY DEF TypeOK, RanksAreDistinct, Spelling

LEMMA SpelledFacts ==
  ASSUME Len(out) \in Nat, \A n \in 1..Len(out) : Spelling(out[n]) \in Seq(Byte)
  PROVE  /\ Spelled[0] = << >>
         /\ \A n \in 0..(Len(out) - 1) : Spelled[n + 1] = Spelled[n] \o Spelling(out[n + 1])
<1> DEFINE step == [n \in 1..Len(out) |-> [s \in Seq(Byte) |-> s \o Spelling(out[n])]]
<1>1. PICK f : Recursion(f, << >>, step, Len(out))
  <2> HIDE DEF step
  <2> QED
    BY RecursionExists
<1>2. f \in [0..Len(out) -> Seq(Byte)]
  <2>1. step \in [1..Len(out) -> [Seq(Byte) -> Seq(Byte)]]
    <3> SUFFICES ASSUME NEW n \in 1..Len(out), NEW s \in Seq(Byte)
                 PROVE  s \o Spelling(out[n]) \in Seq(Byte)
      OBVIOUS
    <3> QED
      BY ConcatProperties
  <2>2. << >> \in Seq(Byte)
    OBVIOUS
  <2> HIDE DEF step
  <2> QED
    BY <1>1, <2>1, <2>2, RecursionIsTyped
<1>3. f = [n \in 0..Len(out) |-> IF n = 0 THEN << >> ELSE f[n - 1] \o Spelling(out[n])]
  <2>1. ASSUME NEW n \in 0..Len(out), n # 0 PROVE step[n][f[n - 1]] = f[n - 1] \o Spelling(out[n])
    <3>1. n \in 1..Len(out) /\ n - 1 \in 0..Len(out)
      BY <2>1
    <3>2. f[n - 1] \in Seq(Byte)
      BY <1>2, <3>1
    <3> QED
      BY <3>1, <3>2
  <2> HIDE DEF step
  <2> QED
    BY <1>1, <2>1 DEF Recursion
<1>4. Spelled = [n \in 0..Len(out) |-> IF n = 0 THEN << >> ELSE Spelled[n - 1] \o Spelling(out[n])]
  BY <1>3, Zenon DEF Spelled
<1> HIDE DEF step
<1>5. ASSUME NEW n \in 0..Len(out)
      PROVE  Spelled[n] = IF n = 0 THEN << >> ELSE Spelled[n - 1] \o Spelling(out[n])
  BY <1>4, Zenon
<1>6. Spelled[0] = << >>
  BY <1>5
<1>7. ASSUME NEW n \in 0..(Len(out) - 1)
      PROVE  Spelled[n + 1] = Spelled[n] \o Spelling(out[n + 1])
  <2>1. PICK m \in 0..Len(out) : m = n + 1 /\ m # 0 /\ m - 1 = n
    OBVIOUS
  <2>2. Spelled[m] = Spelled[m - 1] \o Spelling(out[m])
    BY <1>5, <2>1, Zenon
  <2> QED
    BY <2>1, <2>2, Zenon
<1> QED
  BY <1>6, <1>7

LEMMA DoneSpellsPiece ==
  ASSUME IInv, RanksAreDistinct
  PROVE  RoundTrip
<1> SUFFICES ASSUME pc = "done" PROVE Spelled[Len(out)] = piece
  BY DEF RoundTrip
<1>1. TypeOK /\ piece \in Seq(Byte) /\ Len(piece) \in Nat
  BY PieceFacts DEF IInv
<1>2. CASE ~Merging
  <2>1. piece \in DOMAIN ranks /\ Len(out) = 1 /\ out[1] = ranks[piece]
    BY <1>2 DEF IInv, Stage
  <2>a. Spelling(out[1]) = piece
    BY <1>1, <2>1, SpellingFacts
  <2>2. Spelled[1] = Spelled[0] \o Spelling(out[1]) /\ Spelled[0] = << >>
    <3>1. 0 \in 0..(Len(out) - 1) /\ 0 + 1 = 1 /\ Len(out) \in Nat
      BY <2>1
    <3>2. \A n \in 1..Len(out) : Spelling(out[n]) \in Seq(Byte)
      BY <1>1, <2>1, <2>a
    <3>3. Spelled[0 + 1] = Spelled[0] \o Spelling(out[0 + 1]) /\ Spelled[0] = << >>
      BY <3>1, <3>2, SpelledFacts
    <3> QED
      BY <3>1, <3>3
  <2>3. Spelled[1] = << >> \o piece
    BY <2>2, <2>a
  <2> QED
    BY <1>1, <2>1, <2>3, ConcatEmptySeq
<1>3. CASE Merging
  <2> DEFINE L == Len(parts)
  <2>1. /\ L \in Nat /\ L >= 2 /\ Len(out) = L - 1
        /\ \A k \in 1..(L - 1) : out[k] = ranks[Substr(parts[k].first, parts[k + 1].first)]
    <3>1. L \in Nat /\ L >= 2
      BY <1>1, <1>3 DEF IInv, TypeOK, BoundariesAscend
    <3>2. out = Tokens
      BY <1>1, <1>3 DEF IInv, Stage
    <3>3. Len(out) = L - 1
      BY <1>3, <3>2, TokensFacts
    <3>4. \A k \in 1..(L - 1) : Tokens[k] = ranks[Substr(parts[k].first, parts[k + 1].first)]
      BY DEF Tokens
    <3> QED
      BY <3>1, <3>2, <3>3, <3>4
  <2>2. BoundariesAscend /\ SegmentsAreTokens
    BY <1>3 DEF IInv
  <2>3. ASSUME NEW k \in 1..L PROVE parts[k].first \in Nat /\ parts[k].first <= Len(piece)
    <3>1. parts[k] \in Boundary
      BY <1>1, ElementOfSeq DEF TypeOK, Boundary
    <3> QED
      BY <2>2, <3>1 DEF BoundariesAscend, Boundary
  <2>b. /\ Spelled[0] = << >>
              /\ \A n \in 0..(Len(out) - 1) :
                   Spelled[n + 1] = Spelled[n] \o Spelling(out[n + 1])
    <3>1. Len(out) \in Nat
      BY <2>1
    <3>2. ASSUME NEW n \in 1..Len(out) PROVE Spelling(out[n]) \in Seq(Byte)
      <4>1. n \in 1..(L - 1)
        BY <2>1
      <4>2. Substr(parts[n].first, parts[n + 1].first) \in DOMAIN ranks
        BY <2>2, <4>1 DEF SegmentsAreTokens
      <4>3. DOMAIN ranks \subseteq Seq(Byte)
        BY <1>1, VocabularyAssumption DEF TypeOK
      <4> QED
        BY <1>1, <2>1, <4>1, <4>2, <4>3, SpellingFacts
    <3> QED
      BY <3>1, <3>2, SpelledFacts
  <2> DEFINE S == {n \in Nat : n <= L - 1 => Spelled[n] = Substr(0, parts[n + 1].first)}
  <2>4. 0 \in S
    <3>1. Spelled[0] = << >> /\ parts[1].first = 0
      BY <2>2, <2>b DEF BoundariesAscend
    <3>2. Substr(0, 0) = << >>
      BY <1>1, SubSeqEmpty DEF Substr
    <3> QED
      BY <3>1, <3>2
  <2>5. ASSUME NEW n \in Nat, n \in S PROVE n + 1 \in S
    <3> SUFFICES ASSUME n + 1 <= L - 1
                 PROVE  Spelled[n + 1] = Substr(0, parts[n + 1 + 1].first)
      OBVIOUS
    <3>1. n + 1 \in 1..(L - 1) /\ n + 1 \in 1..L /\ n + 1 + 1 \in 1..L
      BY <2>1
    <3>2. Spelled[n] = Substr(0, parts[n + 1].first)
      BY <2>1, <2>5
    <3>3. Spelling(out[n + 1]) = Substr(parts[n + 1].first, parts[n + 1 + 1].first)
      BY <1>1, <2>1, <2>2, <3>1, SpellingFacts DEF SegmentsAreTokens
    <3>4. Spelled[n + 1] =
            Substr(0, parts[n + 1].first) \o Substr(parts[n + 1].first, parts[n + 1 + 1].first)
      <4>1. n \in 0..(Len(out) - 1)
        BY <2>1, <3>1
      <4>2. Spelled[n + 1] = Spelled[n] \o Spelling(out[n + 1])
        BY <4>1, <2>b
      <4> QED
        BY <3>2, <3>3, <4>2
    <3>5. /\ parts[n + 1].first \in Nat /\ parts[n + 1 + 1].first \in Nat
          /\ parts[n + 1].first < parts[n + 1 + 1].first
          /\ parts[n + 1 + 1].first <= Len(piece)
      BY <2>2, <2>3, <3>1 DEF BoundariesAscend
    <3>6. 0 \in Nat /\ 0 <= parts[n + 1].first /\ parts[n + 1].first <= parts[n + 1 + 1].first
      BY <3>5
    <3>7. TypeOK
      BY <1>1
    <3> QED
      BY <3>4, <3>5, <3>6, <3>7, SubstrJoin
  <2>6. Nat \subseteq S
    <3> HIDE DEF S
    <3> QED
      BY <2>4, <2>5, SetInduction
  <2>7. L - 1 \in Nat /\ L - 1 + 1 = L
    BY <2>1
  <2>8. Spelled[L - 1] = Substr(0, parts[L].first)
    BY <2>6, <2>7
  <2>9. Substr(0, Len(piece)) = piece
    BY <1>1, SubSeqFull DEF Substr
  <2> QED
    BY <2>1, <2>2, <2>8, <2>9 DEF BoundariesAscend
<1> QED
  BY <1>2, <1>3

(* As long as no two tokens share a rank, what is emitted for a piece       *)
(* decodes to that piece (tiktoken.h:104-127).                              *)
THEOREM DecodesToPiece ==
  ASSUME RanksAreDistinct
  PROVE  Spec => []RoundTrip
<1>1. IInv => RoundTrip
  BY DoneSpellsPiece
<1> QED
  BY <1>1, SpecKeepsIInv, PTL

-----------------------------------------------------------------------------
(* The tokenizer around the merge loop                                      *)

-----------------------------------------------------------------------------
(* Concatenation of a sequence of sequences                                 *)

\* f[k] is the concatenation of the first k elements of s.
Folded(f, s, T) ==
  /\ f \in [0..Len(s) -> Seq(T)] /\ f[0] = << >>
  /\ \A k \in 1..Len(s) : f[k] = f[k - 1] \o s[k]

LEMMA FoldedExists ==
  ASSUME NEW T, NEW s \in Seq(Seq(T))
  PROVE  \E f : Folded(f, s, T)
<1> DEFINE n == Len(s)
<1> DEFINE step == [k \in 1..n |-> [u \in Seq(T) |-> u \o s[k]]]
<1>1. n \in Nat /\ \A k \in 1..n : s[k] \in Seq(T)
  BY ElementOfSeq, LenProperties
<1>2. step \in [1..n -> [Seq(T) -> Seq(T)]]
  <2> SUFFICES ASSUME NEW k \in 1..n, NEW u \in Seq(T) PROVE u \o s[k] \in Seq(T)
    OBVIOUS
  <2> QED
    BY <1>1, ConcatProperties
<1>3. << >> \in Seq(T)
  OBVIOUS
<1>4. PICK f : Recursion(f, << >>, step, n)
  <2> HIDE DEF step, n
  <2> QED
    BY <1>1, RecursionExists
<1>5. f \in [0..n -> Seq(T)]
  <2> HIDE DEF step, n
  <2> QED
    BY <1>1, <1>2, <1>3, <1>4, RecursionIsTyped
<1>6. f[0] = << >>
  <2> HIDE DEF step, n
  <2> QED
    BY <1>1, <1>4, RecursionStarts
<1>7. ASSUME NEW k \in 1..n PROVE f[k] = f[k - 1] \o s[k]
  <2>1. k \in 0..n /\ k # 0 /\ k - 1 \in 0..n
    BY <1>1
  <2>2. f[k] = step[k][f[k - 1]]
    <3> HIDE DEF step, n
    <3> QED
      BY <1>4, <2>1 DEF Recursion
  <2>3. f[k - 1] \in Seq(T)
    BY <1>5, <2>1
  <2> QED
    BY <2>2, <2>3
<1> QED
  BY <1>5, <1>6, <1>7 DEF Folded

LEMMA FlattenIsFold ==
  ASSUME NEW T, NEW s \in Seq(Seq(T)), NEW f, Folded(f, s, T)
  PROVE  FlattenSeq(s) = f[Len(s)] /\ FlattenSeq(s) \in Seq(T)
<1> DEFINE n == Len(s)
<1>1. n \in Nat
  BY LenProperties
<1>2. f[n] \in Seq(T)
  BY <1>1 DEF Folded
<1>3. CASE n = 0
  <2>1. s = << >>
    BY <1>3, EmptySeq
  <2>2. FlattenSeq(s) = << >>
    BY <1>3, <2>1 DEF FlattenSeq
  <2> QED
    BY <1>2, <1>3, <2>2 DEF Folded
<1>4. CASE n # 0
  <2> DEFINE Flat(g) == g = [i \in 1..n |-> IF i = 1 THEN s[i] ELSE g[i - 1] \o s[i]]
  <2> DEFINE flatten == CHOOSE g : Flat(g)
  <2>1. FlattenSeq(s) = flatten[n]
    BY <1>4 DEF FlattenSeq
  <2>2. Flat([i \in 1..n |-> f[i]])
    <3>1. ASSUME NEW i \in 1..n
          PROVE  f[i] = IF i = 1 THEN s[i] ELSE [j \in 1..n |-> f[j]][i - 1] \o s[i]
      <4>1. f[i] = f[i - 1] \o s[i] /\ s[i] \in Seq(T)
        BY ElementOfSeq DEF Folded
      <4>2. CASE i = 1
        <5>1. f[0] = << >> /\ i - 1 = 0
          BY <4>2 DEF Folded
        <5> QED
          BY <4>1, <4>2, <5>1, ConcatEmptySeq
      <4>3. CASE i # 1
        <5>1. i - 1 \in 1..n
          BY <1>1, <4>3
        <5> QED
          BY <4>1, <4>3, <5>1
      <4> QED
        BY <4>2, <4>3
    <3> QED
      BY <3>1
  <2>3. Flat(flatten)
    <3> HIDE DEF Flat
    <3> QED
      BY <2>2
  <2> HIDE DEF flatten
  <2> DEFINE S == {k \in Nat : k + 1 <= n => flatten[k + 1] = f[k + 1]}
  <2>4. ASSUME NEW i \in 1..n PROVE flatten[i] = IF i = 1 THEN s[i] ELSE flatten[i - 1] \o s[i]
    BY <2>3
  <2>5. 0 \in S
    <3>1. 1 \in 1..n /\ 1 - 1 = 0
      BY <1>1, <1>4
    <3>2. flatten[1] = s[1]
      BY <2>4, <3>1
    <3>3. f[1] = f[0] \o s[1] /\ f[0] = << >> /\ s[1] \in Seq(T)
      BY <3>1, ElementOfSeq DEF Folded
    <3>4. f[1] = s[1]
      BY <3>3, ConcatEmptySeq
    <3> QED
      BY <3>2, <3>4
  <2>6. ASSUME NEW k \in Nat, k \in S PROVE k + 1 \in S
    <3> SUFFICES ASSUME k + 1 + 1 <= n PROVE flatten[k + 1 + 1] = f[k + 1 + 1]
      OBVIOUS
    <3>1. PICK i \in 1..n : i = k + 1 + 1 /\ i # 1 /\ i - 1 = k + 1
      BY <1>1
    <3>2. flatten[i] = flatten[i - 1] \o s[i] /\ f[i] = f[i - 1] \o s[i]
      BY <2>4, <3>1 DEF Folded
    <3>3. flatten[k + 1] = f[k + 1]
      BY <1>1, <2>6
    <3> QED
      BY <3>1, <3>2, <3>3
  <2>7. Nat \subseteq S
    <3> HIDE DEF S
    <3> QED
      BY <2>5, <2>6, SetInduction
  <2>8. n - 1 \in Nat /\ n - 1 + 1 = n
    BY <1>1, <1>4
  <2>9. flatten[n] = f[n]
    <3>1. n - 1 \in S
      <4> HIDE DEF S
      <4> QED
        BY <2>7, <2>8
    <3>2. n - 1 + 1 <= n => flatten[n - 1 + 1] = f[n - 1 + 1]
      BY <3>1
    <3> HIDE DEF S
    <3> QED
      BY <1>1, <2>8, <3>2
  <2> QED
    BY <1>2, <2>1, <2>9
<1> QED
  BY <1>3, <1>4

LEMMA FlattenTyped ==
  ASSUME NEW T, NEW s \in Seq(Seq(T))
  PROVE  FlattenSeq(s) \in Seq(T)
  BY FoldedExists, FlattenIsFold

LEMMA FlattenEmpty == FlattenSeq(<< >>) = << >>
  BY DEF FlattenSeq

LEMMA FlattenAppend ==
  ASSUME NEW T, NEW s \in Seq(Seq(T)), NEW e \in Seq(T)
  PROVE  FlattenSeq(Append(s, e)) = FlattenSeq(s) \o e
<1> DEFINE t == Append(s, e)
<1> DEFINE n == Len(s)
<1>1. /\ n \in Nat /\ t \in Seq(Seq(T)) /\ Len(t) = n + 1
      /\ t[n + 1] = e /\ \A k \in 1..n : t[k] = s[k]
  BY AppendProperties, LenProperties
<1> HIDE DEF t
<1>2. PICK f : Folded(f, t, T)
  BY <1>1, FoldedExists
<1> DEFINE g == [k \in 0..n |-> f[k]]
<1>3. Folded(g, s, T)
  <2>1. g \in [0..n -> Seq(T)] /\ g[0] = << >>
    BY <1>1, <1>2 DEF Folded
  <2>2. ASSUME NEW k \in 1..n PROVE g[k] = g[k - 1] \o s[k]
    <3>1. k \in 1..(n + 1) /\ k \in 0..n /\ k - 1 \in 0..n
      BY <1>1
    <3> QED
      BY <1>1, <1>2, <3>1 DEF Folded
  <2> QED
    BY <2>1, <2>2 DEF Folded
<1>4. FlattenSeq(s) = g[n] /\ g[n] = f[n]
  <2>1. g[n] = f[n]
    BY <1>1
  <2> HIDE DEF g
  <2> QED
    BY <1>3, <2>1, FlattenIsFold
<1>5. FlattenSeq(t) = f[n + 1]
  BY <1>1, <1>2, FlattenIsFold
<1>6. f[n + 1] = f[n] \o e
  <2>1. PICK m \in 1..Len(t) : m = n + 1 /\ m - 1 = n
    BY <1>1
  <2>2. f[m] = f[m - 1] \o t[m]
    BY <1>2 DEF Folded
  <2> QED
    BY <1>1, <2>1, <2>2
<1> QED
  BY <1>4, <1>5, <1>6 DEF t

LEMMA FlattenOne ==
  ASSUME NEW T, NEW e \in Seq(T)
  PROVE  FlattenSeq(<<e>>) = e
<1>1. << >> \in Seq(Seq(T)) /\ <<e>> = Append(<< >>, e)
  OBVIOUS
<1>2. FlattenSeq(<<e>>) = << >> \o e
  BY <1>1, FlattenAppend, FlattenEmpty
<1> QED
  BY <1>2, ConcatEmptySeq

(* What a sequence is when every element is replaced by a sequence.         *)
Expand(s, m) == FlattenSeq([k \in DOMAIN s |-> m[s[k]]])

LEMMA ExpandTyped ==
  ASSUME NEW T, NEW U, NEW m \in [T -> Seq(U)], NEW s \in Seq(T)
  PROVE  Expand(s, m) \in Seq(U)
<1>1. Len(s) \in Nat /\ DOMAIN s = 1..Len(s) /\ \A k \in 1..Len(s) : s[k] \in T
  BY LenProperties, ElementOfSeq
<1>2. [k \in DOMAIN s |-> m[s[k]]] \in Seq(Seq(U))
  BY <1>1, IsASeq
<1> QED
  BY <1>2, FlattenTyped DEF Expand

LEMMA ExpandEmpty ==
  ASSUME NEW m
  PROVE  Expand(<< >>, m) = << >>
<1>1. [k \in DOMAIN << >> |-> m[<< >>[k]]] = << >>
  OBVIOUS
<1> QED
  BY <1>1, FlattenEmpty DEF Expand

LEMMA ExpandAppend ==
  ASSUME NEW T, NEW U, NEW m \in [T -> Seq(U)], NEW s \in Seq(T), NEW e \in T
  PROVE  Expand(Append(s, e), m) = Expand(s, m) \o m[e]
<1> DEFINE t == Append(s, e)
<1> DEFINE n == Len(s)
<1> DEFINE all == [k \in DOMAIN s |-> m[s[k]]]
<1>1. n \in Nat /\ DOMAIN s = 1..n /\ \A k \in 1..n : s[k] \in T
  BY LenProperties, ElementOfSeq
<1>2. /\ t \in Seq(T) /\ Len(t) = n + 1 /\ DOMAIN t = 1..(n + 1)
      /\ t[n + 1] = e /\ \A k \in 1..n : t[k] = s[k]
  BY <1>1, AppendProperties, LenProperties
<1>3. all \in Seq(Seq(U)) /\ Len(all) = n /\ m[e] \in Seq(U)
  BY <1>1, IsASeq
<1>4. [k \in DOMAIN t |-> m[t[k]]] = Append(all, m[e])
  <2> DEFINE l == [k \in 1..(n + 1) |-> m[t[k]]]
  <2> DEFINE r == Append(all, m[e])
  <2>1. /\ r \in Seq(Seq(U)) /\ Len(r) = n + 1 /\ r[n + 1] = m[e]
        /\ \A k \in 1..n : r[k] = all[k]
    BY <1>3, AppendProperties
  <2>2. l \in Seq(Seq(U)) /\ Len(l) = n + 1
    <3>1. \A k \in 1..(n + 1) : t[k] \in T
      BY <1>2, ElementOfSeq
    <3>2. l \in [1..(n + 1) -> Seq(U)] /\ n + 1 \in Nat
      BY <1>1, <3>1
    <3> HIDE DEF l, t, n
    <3> QED
      BY <3>2
  <2>3. ASSUME NEW k \in 1..(n + 1) PROVE l[k] = r[k]
    <3>1. CASE k = n + 1
      BY <1>2, <2>1, <3>1
    <3>2. CASE k # n + 1
      <4>1. k \in 1..n
        BY <1>1, <3>2
      <4> QED
        BY <1>1, <1>2, <2>1, <4>1
    <3> QED
      BY <3>1, <3>2
  <2> HIDE DEF l, r, t, n
  <2>4. l = r
    BY <2>1, <2>2, <2>3, SeqEqual
  <2> QED
    BY <1>2, <2>4 DEF l, r
<1> QED
  BY <1>3, <1>4, FlattenAppend DEF Expand

LEMMA ExpandOne ==
  ASSUME NEW T, NEW U, NEW m \in [T -> Seq(U)], NEW e \in T
  PROVE  Expand(<<e>>, m) = m[e]
<1>1. << >> \in Seq(T) /\ <<e>> = Append(<< >>, e) /\ m[e] \in Seq(U)
  OBVIOUS
<1>2. Expand(<<e>>, m) = << >> \o m[e]
  BY <1>1, ExpandAppend, ExpandEmpty
<1> QED
  BY <1>1, <1>2, ConcatEmptySeq

(* A property of sequences that the empty one has and that appending keeps: *)
(* induction over the length, for sets.                                     *)
LEMMA SeqInduction ==
  ASSUME NEW T, NEW P,
         << >> \in P, \A s \in Seq(T) : \A e \in T : s \in P => Append(s, e) \in P
  PROVE  Seq(T) \subseteq P
<1> DEFINE S == {n \in Nat : \A s \in Seq(T) : Len(s) = n => s \in P}
<1>1. 0 \in S
  BY EmptySeq
<1>2. ASSUME NEW n \in Nat, n \in S PROVE n + 1 \in S
  <2> SUFFICES ASSUME NEW s \in Seq(T), Len(s) = n + 1 PROVE s \in P
    OBVIOUS
  <2>1. s # << >>
    BY EmptySeq
  <2>2. PICK r \in Seq(T), e \in T : s = Append(r, e)
    BY <2>1, SequenceEmptyOrAppend
  <2>3. Len(r) = n
    <3>1. Len(s) = Len(r) + 1 /\ Len(r) \in Nat
      BY <2>2, AppendProperties, LenProperties
    <3> QED
      BY <3>1
  <2> QED
    BY <1>2, <2>2, <2>3
<1>3. Nat \subseteq S
  <2> HIDE DEF S
  <2> QED
    BY <1>1, <1>2, SetInduction
<1> QED
  BY <1>3, LenProperties

\* \o under a name of its own, which the provers leave as it is.
Cat(x, y) == x \o y

LEMMA CatTyped ==
  ASSUME NEW T, NEW x \in Seq(T), NEW y \in Seq(T)
  PROVE  Cat(x, y) \in Seq(T)
  BY ConcatProperties DEF Cat

LEMMA CatAssociative ==
  ASSUME NEW T, NEW x \in Seq(T), NEW y \in Seq(T), NEW z \in Seq(T)
  PROVE  Cat(Cat(x, y), z) = Cat(x, Cat(y, z))
  BY ConcatAssociative DEF Cat

LEMMA ExpandConcat ==
  ASSUME NEW T, NEW U, NEW m \in [T -> Seq(U)], NEW s \in Seq(T), NEW t \in Seq(T)
  PROVE  Expand(s \o t, m) = Expand(s, m) \o Expand(t, m)
<1> DEFINE P == {r \in Seq(T) : Expand(s \o r, m) = Expand(s, m) \o Expand(r, m)}
<1>1. << >> \in P
  <2>1. s \o << >> = s /\ << >> \in Seq(T)
    BY ConcatEmptySeq
  <2>2. Expand(s, m) \in Seq(U)
    BY ExpandTyped
  <2>3. Expand(s, m) \o << >> = Expand(s, m)
    BY <2>2, ConcatEmptySeq
  <2> QED
    BY <2>1, <2>3, ExpandEmpty
<1>2. ASSUME NEW r \in Seq(T), NEW e \in T, r \in P PROVE Append(r, e) \in P
  <2>1. Append(r, e) \in Seq(T) /\ s \o r \in Seq(T)
    BY AppendProperties, ConcatProperties
  <2>2. s \o Append(r, e) = Append(s \o r, e)
    BY AppendIsConcat, ConcatAssociative, <2>1
  <2>3. Expand(s \o Append(r, e), m) = Expand(s \o r, m) \o m[e]
    BY <2>1, <2>2, ExpandAppend
  <2>4. Expand(Append(r, e), m) = Expand(r, m) \o m[e]
    BY ExpandAppend
  <2>5. Expand(s, m) \in Seq(U) /\ Expand(r, m) \in Seq(U) /\ m[e] \in Seq(U)
    BY ExpandTyped
  <2>6. Expand(s \o r, m) = Expand(s, m) \o Expand(r, m)
    BY <1>2
  <2>7. Cat(Cat(Expand(s, m), Expand(r, m)), m[e]) = Cat(Expand(s, m), Cat(Expand(r, m), m[e]))
    BY <2>5, CatAssociative
  <2>8. (Expand(s, m) \o Expand(r, m)) \o m[e] = Expand(s, m) \o (Expand(r, m) \o m[e])
    BY <2>7 DEF Cat
  <2> QED
    BY <2>1, <2>3, <2>4, <2>6, <2>8
<1>3. Seq(T) \subseteq P
  <2> HIDE DEF P
  <2> QED
    BY <1>1, <1>2, SeqInduction
<1> QED
  BY <1>3

-----------------------------------------------------------------------------
(* Leaving elements out                                                     *)

Keeping(T, S) == [x \in T |-> IF x \in S THEN << >> ELSE <<x>>]

LEMMA WithoutExpands ==
  ASSUME NEW T, NEW S, NEW s \in Seq(T)
  PROVE  Keeping(T, S) \in [T -> Seq(T)] /\ Without(s, S) = Expand(s, Keeping(T, S))
<1>1. DOMAIN s = 1..Len(s) /\ \A k \in 1..Len(s) : s[k] \in T
  BY LenProperties, ElementOfSeq
<1>2. [k \in DOMAIN s |-> IF s[k] \in S THEN << >> ELSE <<s[k]>>]
        = [k \in DOMAIN s |-> Keeping(T, S)[s[k]]]
  BY <1>1 DEF Keeping
<1>3. Keeping(T, S) \in [T -> Seq(T)]
  BY DEF Keeping
<1> QED
  BY <1>2, <1>3 DEF Without, Expand

LEMMA WithoutTyped ==
  ASSUME NEW T, NEW S, NEW s \in Seq(T)
  PROVE  Without(s, S) \in Seq(T)
<1> DEFINE m == Keeping(T, S)
<1>1. m \in [T -> Seq(T)] /\ Without(s, S) = Expand(s, m)
  BY WithoutExpands
<1> HIDE DEF m
<1>2. Expand(s, m) \in Seq(T)
  BY <1>1, ExpandTyped
<1> QED
  BY <1>1, <1>2

LEMMA WithoutEmpty ==
  ASSUME NEW S
  PROVE  Without(<< >>, S) = << >>
<1>1. << >> \in Seq(S)
  OBVIOUS
<1>2. Without(<< >>, S) = Expand(<< >>, Keeping(S, S))
  BY <1>1, WithoutExpands
<1> QED
  BY <1>2, ExpandEmpty

LEMMA WithoutConcat ==
  ASSUME NEW T, NEW S, NEW s \in Seq(T), NEW t \in Seq(T)
  PROVE  Without(s \o t, S) = Without(s, S) \o Without(t, S)
<1> DEFINE m == Keeping(T, S)
<1>1. s \o t \in Seq(T)
  BY ConcatProperties
<1>2. /\ m \in [T -> Seq(T)] /\ Without(s, S) = Expand(s, m) /\ Without(t, S) = Expand(t, m)
      /\ Without(s \o t, S) = Expand(s \o t, m)
  BY <1>1, WithoutExpands
<1> HIDE DEF m
<1>3. Expand(s \o t, m) = Expand(s, m) \o Expand(t, m)
  BY <1>2, ExpandConcat
<1> QED
  BY <1>2, <1>3

LEMMA WithoutOne ==
  ASSUME NEW T, NEW S, NEW e \in T
  PROVE  Without(<<e>>, S) = IF e \in S THEN << >> ELSE <<e>>
<1>1. <<e>> \in Seq(T)
  OBVIOUS
<1> DEFINE m == Keeping(T, S)
<1>2. m \in [T -> Seq(T)] /\ Without(<<e>>, S) = Expand(<<e>>, m)
  BY <1>1, WithoutExpands
<1>3. m[e] = IF e \in S THEN << >> ELSE <<e>>
  BY DEF Keeping
<1> HIDE DEF m
<1>4. Expand(<<e>>, m) = m[e]
  BY <1>2, ExpandOne
<1> QED
  BY <1>2, <1>3, <1>4

LEMMA WithoutAppend ==
  ASSUME NEW T, NEW S, NEW s \in Seq(T), NEW e \in T
  PROVE  Without(Append(s, e), S) = Without(s, S) \o (IF e \in S THEN << >> ELSE <<e>>)
<1>1. <<e>> \in Seq(T) /\ Append(s, e) = s \o <<e>>
  BY AppendIsConcat
<1>2. Without(s \o <<e>>, S) = Without(s, S) \o Without(<<e>>, S)
  BY <1>1, WithoutConcat
<1>3. Without(<<e>>, S) = IF e \in S THEN << >> ELSE <<e>>
  BY WithoutOne
<1> QED
  BY <1>1, <1>2, <1>3

LEMMA WithoutAll ==
  ASSUME NEW S, NEW s \in Seq(S)
  PROVE  Without(s, S) = << >>
<1> DEFINE P == {r \in Seq(S) : Without(r, S) = << >>}
<1>1. << >> \in P
  BY WithoutEmpty
<1>2. ASSUME NEW r \in Seq(S), NEW e \in S, r \in P PROVE Append(r, e) \in P
  <2>1. Without(Append(r, e), S) = << >> \o << >>
    <3>1. Without(r, S) = << >>
      BY <1>2
    <3>2. Without(Append(r, e), S) = Without(r, S) \o (IF e \in S THEN << >> ELSE <<e>>)
      BY WithoutAppend
    <3> QED
      BY <3>1, <3>2
  <2>2. << >> \o << >> = << >>
    OBVIOUS
  <2> QED
    BY <2>1, <2>2, AppendProperties
<1>3. Seq(S) \subseteq P
  <2> HIDE DEF P
  <2> QED
    BY <1>1, <1>2, SeqInduction
<1> QED
  BY <1>3

LEMMA WithoutNone ==
  ASSUME NEW T, NEW S, S \cap T = {}, NEW s \in Seq(T)
  PROVE  Without(s, S) = s
<1> DEFINE P == {r \in Seq(T) : Without(r, S) = r}
<1>1. << >> \in P
  BY WithoutEmpty
<1>2. ASSUME NEW r \in Seq(T), NEW e \in T, r \in P PROVE Append(r, e) \in P
  <2>1. Without(Append(r, e), S) = r \o <<e>>
    BY <1>2, WithoutAppend
  <2> QED
    BY <2>1, AppendIsConcat, AppendProperties
<1>3. Seq(T) \subseteq P
  <2> HIDE DEF P
  <2> QED
    BY <1>1, <1>2, SeqInduction
<1> QED
  BY <1>3

-----------------------------------------------------------------------------
(* The merges of a piece                                                    *)

Segmentation == Seq(Seq(Char))

NextMerge(s) == Bpe(s)!Merged(CHOOSE k \in Bpe(s)!Candidates : Bpe(s)!Best(k))

(* Where a pair can be merged one is the best.                              *)
LEMMA BestExists ==
  ASSUME encoder_ \in [DOMAIN encoder_ -> Nat], NEW s, Bpe(s)!Candidates # {}, Len(s) \in Nat
  PROVE  \E k \in Bpe(s)!Candidates : Bpe(s)!Best(k)
<1> DEFINE C == Bpe(s)!Candidates
<1> DEFINE rank == [k \in C |-> encoder_[Bpe(s)!Joined(k)]]
<1>1. rank \in [C -> Nat] /\ C \subseteq Nat
  BY DEF Bpe!Candidates
<1>a. \A k \in C : rank[k] = encoder_[Bpe(s)!Joined(k)]
  OBVIOUS
<1> HIDE DEF rank
<1> DEFINE R == {rank[k] : k \in C}
<1>2. PICK r \in R : \A q \in R : r <= q
  <2>1. R \in SUBSET Nat /\ R # {}
    BY <1>1
  <2> HIDE DEF R
  <2> QED
    BY <2>1, LeastElement
<1> DEFINE L == {k \in C : rank[k] = r}
<1>3. PICK k \in L : \A j \in L : k <= j
  <2>1. L \in SUBSET Nat /\ L # {}
    BY <1>1, <1>2
  <2> HIDE DEF L
  <2> QED
    BY <2>1, LeastElement
<1>4. ASSUME NEW j \in C PROVE rank[k] <= rank[j] /\ (j < k => rank[k] < rank[j])
  <2>1. rank[j] \in R /\ r <= rank[j] /\ rank[k] = r /\ r \in Nat /\ rank[j] \in Nat
    BY <1>1, <1>2, <1>3
  <2>2. rank[j] = r => k <= j
    BY <1>3
  <2> QED
    BY <1>1, <1>3, <2>1, <2>2
<1>5. Bpe(s)!Best(k)
  <2>1. k \in C
    BY <1>3
  <2> HIDE DEF C
  <2> QED
    BY <1>4, <1>a, <2>1 DEF Bpe!Best, C
<1> QED
  BY <1>3, <1>5

(* A merge shortens the segmentation by one and keeps the text.             *)
LEMMA MergeFacts ==
  ASSUME NEW s \in Segmentation, NEW k \in Bpe(s)!Candidates
  PROVE  /\ Bpe(s)!Merged(k) \in Segmentation
         /\ Len(Bpe(s)!Merged(k)) = Len(s) - 1
         /\ FlattenSeq(Bpe(s)!Merged(k)) = FlattenSeq(s)
<1> DEFINE n == Len(s)
<1> DEFINE r == Bpe(s)!Merged(k)
<1>1. n \in Nat /\ \A j \in 1..n : s[j] \in Seq(Char)
  BY ElementOfSeq, LenProperties DEF Segmentation
<1>2. k \in 1..(n - 1)
  BY DEF Bpe!Candidates
<1>3. r = [j \in 1..(n - 1) |-> IF j < k THEN s[j] ELSE IF j = k THEN s[k] \o s[k + 1] ELSE s[j + 1]]
  BY DEF Bpe!Merged, Bpe!Joined
<1>4. s[k] \in Seq(Char) /\ s[k + 1] \in Seq(Char) /\ s[k] \o s[k + 1] \in Seq(Char)
  <2>1. k \in 1..n /\ k + 1 \in 1..n
    BY <1>1, <1>2
  <2>2. s[k] \in Seq(Char) /\ s[k + 1] \in Seq(Char)
    BY <1>1, <2>1
  <2> QED
    BY <2>2, ConcatProperties
<1>5. r \in Segmentation /\ Len(r) = n - 1
  <2>1. ASSUME NEW j \in 1..(n - 1) PROVE r[j] \in Seq(Char)
    <3>1. j \in 1..n /\ j + 1 \in 1..n
      BY <1>1
    <3>2. s[j] \in Seq(Char) /\ s[j + 1] \in Seq(Char)
      BY <1>1, <3>1
    <3> HIDE DEF r, n
    <3> QED
      BY <1>3, <1>4, <3>2
  <2>2. n - 1 \in Nat
    BY <1>1, <1>2
  <2> HIDE DEF r, n
  <2>3. r \in [1..(n - 1) -> Seq(Char)]
    BY <1>3, <2>1
  <2> QED
    BY <2>2, <2>3 DEF Segmentation
<1>6. PICK f : Folded(f, s, Char)
  BY FoldedExists DEF Segmentation
<1> HIDE DEF r
<1> DEFINE g == [j \in 0..(n - 1) |-> IF j < k THEN f[j] ELSE f[j + 1]]
<1>7. /\ f \in [0..n -> Seq(Char)] /\ f[0] = << >>
      /\ \A j \in 1..n : f[j] = f[j - 1] \o s[j]
  BY <1>6 DEF Folded
<1>8. Folded(g, r, Char)
  <2>1. g \in [0..(n - 1) -> Seq(Char)]
    <3> SUFFICES ASSUME NEW j \in 0..(n - 1) PROVE (IF j < k THEN f[j] ELSE f[j + 1]) \in Seq(Char)
      OBVIOUS
    <3>1. j \in 0..n /\ j + 1 \in 0..n
      BY <1>1
    <3> QED
      BY <1>7, <3>1
  <2>2. g[0] = << >>
    BY <1>1, <1>2, <1>7
  <2>3. ASSUME NEW j \in 1..(n - 1) PROVE g[j] = g[j - 1] \o r[j]
    <3>1. /\ j \in 1..n /\ j + 1 \in 1..n /\ j - 1 \in 0..(n - 1) /\ j \in 0..(n - 1)
          /\ j + 1 - 1 = j /\ j - 1 + 1 = j
      BY <1>1
    <3>a. f[j] = f[j - 1] \o s[j]
      BY <1>7, <3>1
    <3>b. f[j + 1] = f[j] \o s[j + 1]
      <4>1. PICK i \in 1..n : i = j + 1 /\ i - 1 = j
        BY <3>1
      <4>2. f[i] = f[i - 1] \o s[i]
        BY <1>7
      <4> QED
        BY <4>1, <4>2
    <3>2. f[j] = f[j - 1] \o s[j] /\ f[j + 1] = f[j] \o s[j + 1]
      BY <3>a, <3>b
    <3>3. CASE j < k
      <4>1. j - 1 < k /\ g[j] = f[j] /\ g[j - 1] = f[j - 1] /\ r[j] = s[j]
        BY <1>2, <1>3, <3>1, <3>3
      <4> QED
        BY <3>2, <4>1
    <3>4. CASE j = k
      <4>a. r[j] = s[j] \o s[j + 1]
        <5>1. ~(j < k)
          BY <1>2, <3>4
        <5> QED
          BY <1>3, <3>4, <5>1
      <4>b. g[j] = f[j + 1] /\ g[j - 1] = f[j - 1]
        BY <1>2, <3>1, <3>4
      <4>1. g[j] = f[j + 1] /\ g[j - 1] = f[j - 1] /\ r[j] = s[j] \o s[j + 1]
        BY <4>a, <4>b
      <4>2. f[j - 1] \in Seq(Char) /\ s[j] \in Seq(Char) /\ s[j + 1] \in Seq(Char)
        <5>1. j - 1 \in 0..n
          BY <3>1
        <5> QED
          BY <1>1, <1>7, <3>1, <5>1
      <4>3. (f[j - 1] \o s[j]) \o s[j + 1] = f[j - 1] \o (s[j] \o s[j + 1])
        <5>1. Cat(Cat(f[j - 1], s[j]), s[j + 1]) = Cat(f[j - 1], Cat(s[j], s[j + 1]))
          BY <4>2, CatAssociative
        <5> QED
          BY <5>1 DEF Cat
      <4> QED
        BY <3>2, <4>1, <4>3
    <3>5. CASE j > k
      <4>1. ~(j < k) /\ ~(j - 1 < k) /\ j # k
        BY <1>2, <3>5
      <4>2. g[j] = f[j + 1] /\ g[j - 1] = f[j] /\ r[j] = s[j + 1]
        BY <1>3, <3>1, <4>1
      <4> QED
        BY <3>2, <4>2
    <3>6. j < k \/ j = k \/ j > k
      BY <1>1, <1>2
    <3> QED
      BY <3>3, <3>4, <3>5, <3>6
  <2> HIDE DEF g
  <2> QED
    BY <1>5, <2>1, <2>2, <2>3 DEF Folded
<1>9. FlattenSeq(s) = f[n]
  BY <1>6, FlattenIsFold DEF Segmentation
<1>10. FlattenSeq(r) = g[n - 1]
  <2> HIDE DEF g
  <2> QED
    BY <1>5, <1>8, FlattenIsFold DEF Segmentation
<1>11. g[n - 1] = f[n]
  <2>1. n - 1 \in 0..(n - 1) /\ ~(n - 1 < k) /\ n - 1 + 1 = n
    BY <1>1, <1>2
  <2> QED
    BY <2>1
<1> QED
  BY <1>5, <1>9, <1>10, <1>11 DEF r

OneMerge == [s \in Segmentation |-> IF Bpe(s)!Candidates = {} THEN s ELSE NextMerge(s)]

LEMMA NextMergeFacts ==
  ASSUME encoder_ \in [DOMAIN encoder_ -> Nat], NEW s \in Segmentation, Bpe(s)!Candidates # {}
  PROVE  /\ NextMerge(s) \in Segmentation
         /\ Len(NextMerge(s)) = Len(s) - 1 /\ Len(s) \in Nat \ {0}
         /\ FlattenSeq(NextMerge(s)) = FlattenSeq(s)
<1>1. Len(s) \in Nat
  BY LenProperties DEF Segmentation
<1>2. \E k \in Bpe(s)!Candidates : Bpe(s)!Best(k)
  BY <1>1, BestExists
<1> DEFINE k == CHOOSE k \in Bpe(s)!Candidates : Bpe(s)!Best(k)
<1>3. k \in Bpe(s)!Candidates /\ NextMerge(s) = Bpe(s)!Merged(k)
  BY <1>2 DEF NextMerge
<1>4. Len(s) # 0
  BY DEF Bpe!Candidates
<1> HIDE DEF k
<1> QED
  BY <1>1, <1>3, <1>4, MergeFacts

Merges(s) == [k \in 1..Len(s) |-> OneMerge]
Orbit(s) == CHOOSE f : Recursion(f, s, Merges(s), Len(s))

LEMMA OrbitFacts ==
  ASSUME NEW s \in Segmentation
  PROVE  /\ Recursion(Orbit(s), s, Merges(s), Len(s))
         /\ Orbit(s)[0] = s
         /\ \A k \in 1..Len(s) : Orbit(s)[k] = OneMerge[Orbit(s)[k - 1]]
<1>1. Len(s) \in Nat
  BY LenProperties DEF Segmentation
<1>2. \E f : Recursion(f, s, Merges(s), Len(s))
  BY <1>1, RecursionExists
<1>3. Recursion(Orbit(s), s, Merges(s), Len(s))
  BY <1>2, Zenon DEF Orbit
<1> DEFINE f == Orbit(s)
<1> HIDE DEF f
<1>4. f = [k \in 0..Len(s) |-> IF k = 0 THEN s ELSE Merges(s)[k][f[k - 1]]]
  BY <1>3 DEF Recursion, f
<1>5. f[0] = s
  BY <1>1, <1>4
<1>6. ASSUME NEW k \in 1..Len(s) PROVE f[k] = OneMerge[f[k - 1]]
  <2>1. k \in 0..Len(s) /\ k # 0
    BY <1>1
  <2>2. f[k] = Merges(s)[k][f[k - 1]]
    BY <1>4, <2>1
  <2> QED
    BY <2>2 DEF Merges
<1> QED
  BY <1>3, <1>5, <1>6 DEF f

LEMMA OrbitOfDone ==
  ASSUME NEW s \in Segmentation, Bpe(s)!Candidates = {}
  PROVE  Orbit(s)[Len(s)] = s
<1> DEFINE S == {k \in Nat : k <= Len(s) => Orbit(s)[k] = s}
<1>1. 0 \in S
  BY OrbitFacts
<1>2. ASSUME NEW k \in Nat, k \in S PROVE k + 1 \in S
  <2> SUFFICES ASSUME k + 1 <= Len(s) PROVE Orbit(s)[k + 1] = s
    OBVIOUS
  <2>1. Len(s) \in Nat /\ k + 1 \in 1..Len(s) /\ k + 1 - 1 = k /\ k <= Len(s)
    BY LenProperties DEF Segmentation
  <2>2. Orbit(s)[k + 1] = OneMerge[Orbit(s)[k]]
    BY <2>1, OrbitFacts
  <2>3. Orbit(s)[k] = s
    BY <1>2, <2>1
  <2> QED
    BY <2>2, <2>3 DEF OneMerge
<1>3. Nat \subseteq S
  <2> HIDE DEF S
  <2> QED
    BY <1>1, <1>2, SetInduction
<1>4. Len(s) \in Nat
  BY LenProperties DEF Segmentation
<1> QED
  BY <1>3, <1>4

LEMMA OrbitOfNext ==
  ASSUME encoder_ \in [DOMAIN encoder_ -> Nat], NEW s \in Segmentation, Bpe(s)!Candidates # {}
  PROVE  Orbit(s)[Len(s)] = Orbit(NextMerge(s))[Len(NextMerge(s))]
<1> DEFINE n == Len(s)
<1> DEFINE f == Orbit(s)
<1> DEFINE r == NextMerge(s)
<1> DEFINE g == [k \in 0..(n - 1) |-> f[k + 1]]
<1>1. r \in Segmentation /\ Len(r) = n - 1 /\ n \in Nat \ {0}
  BY NextMergeFacts
<1>2. f[0] = s /\ \A k \in 1..n : f[k] = OneMerge[f[k - 1]]
  BY OrbitFacts
<1>3. OneMerge[s] = r
  BY DEF OneMerge
<1> HIDE DEF f, r
<1>4. ASSUME NEW k \in 0..(n - 1) PROVE g[k] = IF k = 0 THEN r ELSE Merges(r)[k][g[k - 1]]
  <2>1. k + 1 \in 1..n /\ k + 1 - 1 = k
    BY <1>1
  <2>2. f[k + 1] = OneMerge[f[k]]
    BY <1>2, <2>1
  <2>3. CASE k = 0
    BY <1>2, <1>3, <2>2, <2>3
  <2>4. CASE k # 0
    <3>1. k \in 1..Len(r) /\ k - 1 \in 0..(n - 1) /\ k - 1 + 1 = k
      BY <1>1, <2>4
    <3>2. g[k - 1] = f[k] /\ g[k] = f[k + 1] /\ Merges(r)[k] = OneMerge
      BY <3>1 DEF Merges
    <3> QED
      BY <2>2, <2>4, <3>2
  <2> QED
    BY <2>3, <2>4
<1>5. Recursion(g, r, Merges(r), n - 1)
  <2>1. g = [k \in 0..(n - 1) |-> g[k]]
    OBVIOUS
  <2> HIDE DEF g
  <2> QED
    BY <1>4, <2>1, Zenon DEF Recursion
<1>6. Recursion(Orbit(r), r, Merges(r), n - 1)
  BY <1>1, OrbitFacts
<1>7. AgreeOn(0..(n - 1), g, Orbit(r))
  <2>1. AgreeOn(1..(n - 1), Merges(r), Merges(r)) /\ n - 1 \in Nat /\ n - 1 <= n - 1
    BY <1>1 DEF AgreeOn
  <2> HIDE DEF g, n
  <2> QED
    BY <1>5, <1>6, <2>1, RecursionAgrees
<1>8. n - 1 \in 0..(n - 1) /\ n - 1 + 1 = n
  BY <1>1
<1>9. g[n - 1] = f[n]
  BY <1>8
<1>10. g[n - 1] = Orbit(r)[n - 1]
  <2> HIDE DEF g, n
  <2> QED
    BY <1>7, <1>8 DEF AgreeOn
<1> QED
  BY <1>1, <1>9, <1>10 DEF f, r

(* The recursion over merges has a solution: it ends for every text.        *)
LEMMA AllMergedStep ==
  ASSUME encoder_ \in [DOMAIN encoder_ -> Nat], NEW s \in Segmentation
  PROVE  AllMerged[s] = IF Bpe(s)!Candidates = {} THEN s ELSE AllMerged[NextMerge(s)]
<1> DEFINE F == [t \in Segmentation |-> Orbit(t)[Len(t)]]
<1>1. ASSUME NEW t \in Segmentation
      PROVE  F[t] = IF Bpe(t)!Candidates = {} THEN t ELSE F[NextMerge(t)]
  <2>1. CASE Bpe(t)!Candidates = {}
    BY <2>1, OrbitOfDone
  <2>2. CASE Bpe(t)!Candidates # {}
    <3>1. NextMerge(t) \in Segmentation
      BY <2>2, NextMergeFacts
    <3>2. F[NextMerge(t)] = Orbit(NextMerge(t))[Len(NextMerge(t))]
      BY <3>1
    <3> QED
      BY <2>2, <3>2, OrbitOfNext
  <2> QED
    BY <2>1, <2>2
<1>2. F = [t \in Segmentation |-> F[t]]
  OBVIOUS
<1> HIDE DEF F
<1>3. F = [t \in Segmentation |-> IF Bpe(t)!Candidates = {} THEN t ELSE F[NextMerge(t)]]
  BY <1>1, <1>2, Zenon
<1>4. AllMerged =
        [t \in Segmentation |->
           IF Bpe(t)!Candidates = {} THEN t ELSE AllMerged[NextMerge(t)]]
  BY <1>3, Zenon DEF AllMerged, NextMerge, Segmentation
<1> QED
  BY <1>4, Zenon

(* Merging keeps the text.                                                  *)
LEMMA AllMergedFacts ==
  ASSUME encoder_ \in [DOMAIN encoder_ -> Nat], NEW s \in Segmentation
  PROVE  AllMerged[s] \in Segmentation /\ FlattenSeq(AllMerged[s]) = FlattenSeq(s)
<1> DEFINE Good(t) == AllMerged[t] \in Segmentation /\ FlattenSeq(AllMerged[t]) = FlattenSeq(t)
<1> DEFINE S == {n \in Nat : \A t \in Segmentation : Len(t) = n => Good(t)}
<1>1. ASSUME NEW t \in Segmentation, Bpe(t)!Candidates = {} PROVE Good(t)
  BY <1>1, AllMergedStep
<1>2. ASSUME NEW t \in Segmentation, Bpe(t)!Candidates # {}, Good(NextMerge(t)) PROVE Good(t)
  BY <1>2, AllMergedStep, NextMergeFacts
<1> HIDE DEF Good
<1>3. 0 \in S
  <2> SUFFICES ASSUME NEW t \in Segmentation, Len(t) = 0 PROVE Good(t)
    OBVIOUS
  <2>1. Bpe(t)!Candidates = {}
    BY DEF Bpe!Candidates
  <2> QED
    BY <1>1, <2>1
<1>4. ASSUME NEW n \in Nat, n \in S PROVE n + 1 \in S
  <2> SUFFICES ASSUME NEW t \in Segmentation, Len(t) = n + 1 PROVE Good(t)
    OBVIOUS
  <2>1. CASE Bpe(t)!Candidates # {}
    <3>1. NextMerge(t) \in Segmentation /\ Len(NextMerge(t)) = Len(t) - 1
      BY <2>1, NextMergeFacts
    <3>2. Len(NextMerge(t)) = n
      BY <3>1
    <3> QED
      BY <1>2, <1>4, <2>1, <3>1, <3>2
  <2> QED
    BY <1>1, <2>1
<1>5. Nat \subseteq S
  <2> HIDE DEF S
  <2> QED
    BY <1>3, <1>4, SetInduction
<1>6. Len(s) \in Nat
  BY LenProperties DEF Segmentation
<1>7. Good(s)
  BY <1>5, <1>6
<1> QED
  BY <1>7 DEF Good

-----------------------------------------------------------------------------
(* Ids and what they spell                                                  *)

Symbol == Char \cup {Invalid} \cup Special

\* The files read so far; once the last has been, the specials have their ids.
FileOK ==
  /\ encoder_ \in [DOMAIN encoder_ -> Nat]
  /\ DOMAIN encoder_ \subseteq Seq(Char) \ {<< >>} /\ IsFiniteSet(DOMAIN encoder_)
  /\ phase \notin {"load", "threw"} =>
       special_tokens_encoder = SpecialIds(Cardinality(DOMAIN encoder_))

\* A vocabulary as qwen.tiktoken is, completely read.
Loaded == FileOK /\ DenseRanks /\ phase \notin {"load", "threw"}

Ids == {id \in Nat : Known(id) \/ KnownSpecial(id)}

(* Dense ranks are distinct.                                                *)
LEMMA RanksAreDense ==
  ASSUME FileOK, DenseRanks
  PROVE  /\ Cardinality(DOMAIN encoder_) \in Nat
         /\ \A s \in DOMAIN encoder_ : encoder_[s] \in 0..(Cardinality(DOMAIN encoder_) - 1)
         /\ \A s, t \in DOMAIN encoder_ : encoder_[s] = encoder_[t] => s = t
<1> DEFINE D == DOMAIN encoder_
<1> DEFINE n == Cardinality(D)
<1> DEFINE R == 0..(n - 1)
<1>1. encoder_ \in [D -> Nat] /\ IsFiniteSet(D) /\ {encoder_[s] : s \in D} = R
  BY DEF FileOK, DenseRanks
<1>2. n \in Nat
  BY <1>1, FS_CardinalityType
<1>3. Cardinality(R) = n
  BY <1>2, FS_Interval
<1>4. encoder_ \in Surjection(D, R)
  BY <1>1 DEF Surjection
<1>5. encoder_ \in Injection(D, R)
  <2> HIDE DEF D, n, R
  <2>1. Cardinality(D) = Cardinality(R)
    BY <1>3 DEF n
  <2> QED
    BY <1>1, <1>4, <2>1, FS_SurjSameCardinalityImpliesInj
<1>6. \A s, t \in D : encoder_[s] = encoder_[t] => s = t
  BY <1>5 DEF Injection, IsInjective
<1>7. \A s \in D : encoder_[s] \in R
  BY <1>1
<1> QED
  BY <1>2, <1>6, <1>7

Place(s) == CHOOSE i \in DOMAIN Specials : Specials[i] = s

(* The special tokens get distinct ids behind those of the file.            *)
LEMMA SpecialIdFacts ==
  ASSUME NEW n \in Nat
  PROVE  /\ \A s \in Special : SpecialIds(n)[s] \in Nat /\ SpecialIds(n)[s] >= n
         /\ \A s, t \in Special : SpecialIds(n)[s] = SpecialIds(n)[t] => s = t
         /\ SpecialIds(n)[ImStart] = n + 1 /\ SpecialIds(n)[ImEnd] = n + 2
<1>1. Specials \in Seq(Special) /\ DOMAIN Specials = 1..Len(Specials) /\ Len(Specials) \in Nat
  BY SymbolAssumption, LenProperties
<1>2. ASSUME NEW s \in Special PROVE Place(s) \in 1..Len(Specials) /\ Specials[Place(s)] = s
  <2>1. \E i \in DOMAIN Specials : Specials[i] = s
    BY DEF Special, ToSet
  <2> QED
    BY <1>1, <2>1, Zenon DEF Place
<1>3. ASSUME NEW s \in Special PROVE SpecialIds(n)[s] = n + Place(s) - 1
  BY DEF SpecialIds, Place
<1>4. ASSUME NEW s \in Special PROVE SpecialIds(n)[s] \in Nat /\ SpecialIds(n)[s] >= n
  BY <1>1, <1>2, <1>3
<1>5. ASSUME NEW s \in Special, NEW t \in Special, SpecialIds(n)[s] = SpecialIds(n)[t] PROVE s = t
  <2>1. Place(s) = Place(t)
    BY <1>1, <1>2, <1>3, <1>5
  <2> QED
    BY <1>2, <2>1
<1>6. ImStart \in Special /\ ImEnd \in Special
  BY SymbolAssumption
<1>7. Place(ImStart) = 2 /\ Place(ImEnd) = 3
  <2>1. 2 \in 1..Len(Specials) /\ 3 \in 1..Len(Specials)
    BY <1>1, ConfigAssumption
  <2> QED
    BY <1>2, <1>6, <2>1, ConfigAssumption
<1>8. SpecialIds(n)[ImStart] = n + 1 /\ SpecialIds(n)[ImEnd] = n + 2
  BY <1>3, <1>6, <1>7
<1> QED
  BY <1>4, <1>5, <1>8

LEMMA TextOfToken ==
  ASSUME FileOK, DenseRanks, NEW s \in DOMAIN encoder_
  PROVE  encoder_[s] \in Ids /\ TextOf(encoder_[s]) = s
<1>1. Known(encoder_[s]) /\ encoder_[s] \in Nat
  BY DEF Known, FileOK
<1>2. TextOf(encoder_[s]) = CHOOSE t \in DOMAIN encoder_ : encoder_[t] = encoder_[s]
  BY <1>1 DEF TextOf
<1>3. \A t \in DOMAIN encoder_ : encoder_[t] = encoder_[s] => t = s
  BY RanksAreDense
<1> QED
  BY <1>1, <1>2, <1>3 DEF Ids

LEMMA TextOfSpecial ==
  ASSUME Loaded, NEW s \in Special
  PROVE  /\ special_tokens_encoder[s] \in Ids
         /\ TextOf(special_tokens_encoder[s]) = <<s>>
<1> DEFINE n == Cardinality(DOMAIN encoder_)
<1> DEFINE id == special_tokens_encoder[s]
<1>1. /\ n \in Nat /\ special_tokens_encoder = SpecialIds(n)
      /\ \A t \in DOMAIN encoder_ : encoder_[t] \in 0..(n - 1)
  BY RanksAreDense DEF Loaded, FileOK
<1>2. id \in Nat /\ id >= n /\ \A t \in Special : special_tokens_encoder[t] = id => t = s
  <2> HIDE DEF n
  <2> QED
    BY <1>1, SpecialIdFacts
<1>3. ~Known(id)
  BY <1>1, <1>2 DEF Known
<1>4. TextOf(id) = <<CHOOSE t \in Special : special_tokens_encoder[t] = id>>
  BY <1>3 DEF TextOf
<1>5. (CHOOSE t \in Special : special_tokens_encoder[t] = id) = s
  BY <1>2
<1> QED
  BY <1>2, <1>4, <1>5 DEF Ids, KnownSpecial

(* An id is that of a token or of a special token.                          *)
LEMMA IdCases ==
  ASSUME NEW id \in Ids
  PROVE  \/ \E s \in DOMAIN encoder_ : id = encoder_[s]
         \/ \E s \in Special : id = special_tokens_encoder[s]
  BY DEF Ids, Known, KnownSpecial

LEMMA TextOfTyped ==
  ASSUME Loaded, NEW id \in Ids
  PROVE  TextOf(id) \in Seq(Symbol) /\ Len(TextOf(id)) >= 1
<1>1. ASSUME NEW s \in DOMAIN encoder_, id = encoder_[s]
      PROVE  TextOf(id) \in Seq(Symbol) /\ Len(TextOf(id)) >= 1
  <2>1. TextOf(id) = s /\ s \in Seq(Char) /\ s # << >>
    BY <1>1, TextOfToken DEF Loaded, FileOK
  <2>2. Len(s) # 0 /\ Len(s) \in Nat
    BY <2>1, EmptySeq, LenProperties
  <2>3. s \in Seq(Symbol)
    <3>1. Char \subseteq Symbol
      BY DEF Symbol
    <3> QED
      BY <2>1, <3>1, SeqMonotonic
  <2> QED
    BY <2>1, <2>2, <2>3
<1>2. ASSUME NEW s \in Special, id = special_tokens_encoder[s]
      PROVE  TextOf(id) \in Seq(Symbol) /\ Len(TextOf(id)) >= 1
  <2>1. TextOf(id) = <<s>> /\ s \in Symbol
    BY <1>2, TextOfSpecial DEF Symbol
  <2> QED
    BY <2>1
<1> QED
  BY <1>1, <1>2, IdCases

Texts == [id \in Ids |-> TextOf(id)]

LEMMA DecodedExpands ==
  ASSUME Loaded, NEW s \in Seq(Ids)
  PROVE  Texts \in [Ids -> Seq(Symbol)] /\ Decoded(s) = Expand(s, Texts)
<1>1. Texts \in [Ids -> Seq(Symbol)]
  BY TextOfTyped DEF Texts
<1>2. DOMAIN s = 1..Len(s) /\ \A k \in 1..Len(s) : s[k] \in Ids
  BY LenProperties, ElementOfSeq
<1>3. [k \in DOMAIN s |-> TextOf(s[k])] = [k \in DOMAIN s |-> Texts[s[k]]]
  BY <1>2 DEF Texts
<1> QED
  BY <1>1, <1>3 DEF Decoded, Expand

LEMMA DecodedTyped ==
  ASSUME Loaded, NEW s \in Seq(Ids)
  PROVE  Decoded(s) \in Seq(Symbol)
<1>1. Texts \in [Ids -> Seq(Symbol)] /\ Decoded(s) = Expand(s, Texts)
  BY DecodedExpands
<1>2. Expand(s, Texts) \in Seq(Symbol)
  BY <1>1, ExpandTyped
<1> QED
  BY <1>1, <1>2

LEMMA DecodedConcat ==
  ASSUME Loaded, NEW s \in Seq(Ids), NEW t \in Seq(Ids)
  PROVE  Decoded(s \o t) = Decoded(s) \o Decoded(t)
<1>1. s \o t \in Seq(Ids)
  BY ConcatProperties
<1>2. /\ Texts \in [Ids -> Seq(Symbol)] /\ Decoded(s) = Expand(s, Texts)
      /\ Decoded(t) = Expand(t, Texts) /\ Decoded(s \o t) = Expand(s \o t, Texts)
  BY <1>1, DecodedExpands
<1>3. Expand(s \o t, Texts) = Expand(s, Texts) \o Expand(t, Texts)
  BY <1>2, ExpandConcat
<1> QED
  BY <1>2, <1>3

LEMMA DecodedOne ==
  ASSUME Loaded, NEW id \in Ids
  PROVE  Decoded(<<id>>) = TextOf(id)
<1>1. <<id>> \in Seq(Ids)
  OBVIOUS
<1>2. Texts \in [Ids -> Seq(Symbol)] /\ Decoded(<<id>>) = Expand(<<id>>, Texts)
  BY <1>1, DecodedExpands
<1>3. Expand(<<id>>, Texts) = Texts[id]
  BY <1>2, ExpandOne
<1> QED
  BY <1>2, <1>3 DEF Texts

LEMMA DecodedEmpty == Decoded(<< >>) = << >>
<1>1. [k \in DOMAIN << >> |-> TextOf(<< >>[k])] = << >>
  OBVIOUS
<1> QED
  BY <1>1, FlattenEmpty DEF Decoded

LEMMA DecodedAppend ==
  ASSUME Loaded, NEW s \in Seq(Ids), NEW id \in Ids
  PROVE  Decoded(Append(s, id)) = Decoded(s) \o TextOf(id)
<1>1. <<id>> \in Seq(Ids) /\ Append(s, id) = s \o <<id>>
  BY AppendIsConcat
<1>2. Decoded(s \o <<id>>) = Decoded(s) \o Decoded(<<id>>)
  BY <1>1, DecodedConcat
<1> QED
  BY <1>1, <1>2, DecodedOne

(* Every id spells at least one symbol.                                     *)
LEMMA DecodedIsLong ==
  ASSUME Loaded, NEW s \in Seq(Ids)
  PROVE  Len(Decoded(s)) >= Len(s)
<1> DEFINE P == {r \in Seq(Ids) : Len(Decoded(r)) >= Len(r)}
<1>1. << >> \in P
  BY DecodedEmpty
<1>2. ASSUME NEW r \in Seq(Ids), NEW e \in Ids, r \in P PROVE Append(r, e) \in P
  <2>1. Append(r, e) \in Seq(Ids) /\ Len(Append(r, e)) = Len(r) + 1 /\ Len(r) \in Nat
    BY AppendProperties, LenProperties
  <2>2. Decoded(Append(r, e)) = Decoded(r) \o TextOf(e)
    BY DecodedAppend
  <2>3. Decoded(r) \in Seq(Symbol) /\ TextOf(e) \in Seq(Symbol) /\ Len(TextOf(e)) >= 1
    BY DecodedTyped, TextOfTyped
  <2>4. /\ Len(Decoded(r) \o TextOf(e)) = Len(Decoded(r)) + Len(TextOf(e))
        /\ Len(Decoded(r)) \in Nat /\ Len(TextOf(e)) \in Nat
    BY <2>3, ConcatProperties, LenProperties
  <2>5. Len(Decoded(r)) >= Len(r)
    BY <1>2
  <2>6. Len(Decoded(Append(r, e))) >= Len(Append(r, e))
    BY <2>1, <2>2, <2>3, <2>4, <2>5
  <2> QED
    BY <2>1, <2>6
<1>3. Seq(Ids) \subseteq P
  <2> HIDE DEF P
  <2> QED
    BY <1>1, <1>2, SeqInduction
<1> QED
  BY <1>3

(* The ranks of tokens spell these tokens.                                  *)
LEMMA DecodedTokens ==
  ASSUME Loaded, NEW tokens \in Segmentation, ToSet(tokens) \subseteq DOMAIN encoder_
  PROVE  /\ [k \in DOMAIN tokens |-> encoder_[tokens[k]]] \in Seq(Ids)
         /\ Decoded([k \in DOMAIN tokens |-> encoder_[tokens[k]]]) = FlattenSeq(tokens)
<1> DEFINE n == Len(tokens)
<1> DEFINE r == [k \in DOMAIN tokens |-> encoder_[tokens[k]]]
<1>1. n \in Nat /\ DOMAIN tokens = 1..n /\ tokens = [k \in DOMAIN tokens |-> tokens[k]]
  BY LenProperties DEF Segmentation
<1>2. ASSUME NEW k \in 1..n
      PROVE  r[k] = encoder_[tokens[k]] /\ encoder_[tokens[k]] \in Ids /\ TextOf(r[k]) = tokens[k]
  <2>1. tokens[k] \in DOMAIN encoder_
    BY <1>1 DEF ToSet
  <2>2. encoder_[tokens[k]] \in Ids /\ TextOf(encoder_[tokens[k]]) = tokens[k]
    BY <2>1, TextOfToken DEF Loaded
  <2> QED
    BY <1>1, <2>2
<1>3. r \in [1..n -> Ids] /\ DOMAIN r = 1..n
  BY <1>1, <1>2
<1> HIDE DEF r, n
<1>4. r \in Seq(Ids)
  BY <1>1, <1>3
<1>5. [k \in DOMAIN r |-> TextOf(r[k])] = tokens
  BY <1>1, <1>2, <1>3
<1> QED
  BY <1>4, <1>5 DEF Decoded, r

(* Leaving out the ids of im_start and im_end leaves out what they spell.   *)
LEMMA DecodedWithoutOne ==
  ASSUME Loaded, Cardinality(DOMAIN encoder_) + 1 = ImStartId, NEW id \in Ids
  PROVE  Without(TextOf(id), {ImStart, ImEnd}) =
           IF id \in SpecialIdsOfConfig THEN << >> ELSE TextOf(id)
<1> DEFINE n == Cardinality(DOMAIN encoder_)
<1> DEFINE S == {ImStart, ImEnd}
<1>1. /\ n \in Nat /\ special_tokens_encoder = SpecialIds(n)
      /\ \A s \in DOMAIN encoder_ : encoder_[s] \in 0..(n - 1)
      /\ DOMAIN encoder_ \subseteq Seq(Char)
  BY RanksAreDense DEF Loaded, FileOK
<1>2. n + 1 = ImStartId /\ n + 2 = ImEndId
  BY <1>1, ConfigAssumption
<1>3. S \subseteq Special /\ S \cap Char = {}
  BY SymbolAssumption
<1> HIDE DEF n
<1>4. ASSUME NEW s \in DOMAIN encoder_, id = encoder_[s]
      PROVE  Without(TextOf(id), S) = IF id \in SpecialIdsOfConfig THEN << >> ELSE TextOf(id)
  <2>1. id \notin SpecialIdsOfConfig
    BY <1>1, <1>2, <1>4 DEF SpecialIdsOfConfig
  <2>2. TextOf(id) = s /\ s \in Seq(Char)
    BY <1>1, <1>4, TextOfToken DEF Loaded
  <2>3. Without(s, S) = s
    BY <1>3, <2>2, WithoutNone
  <2> QED
    BY <2>1, <2>2, <2>3
<1>5. ASSUME NEW s \in Special, id = special_tokens_encoder[s]
      PROVE  Without(TextOf(id), S) = IF id \in SpecialIdsOfConfig THEN << >> ELSE TextOf(id)
  <2>1. TextOf(id) = <<s>>
    BY <1>5, TextOfSpecial
  <2>2. Without(<<s>>, S) = IF s \in S THEN << >> ELSE <<s>>
    BY WithoutOne
  <2>3. id \in SpecialIdsOfConfig <=> s \in S
    <3>1. id = SpecialIds(n)[s]
      BY <1>1, <1>5
    <3>2. SpecialIds(n)[ImStart] = ImStartId /\ SpecialIds(n)[ImEnd] = ImEndId
      BY <1>1, <1>2, SpecialIdFacts
    <3>3. \A t \in Special : SpecialIds(n)[s] = SpecialIds(n)[t] => s = t
      BY <1>1, SpecialIdFacts
    <3> QED
      BY <1>3, <3>1, <3>2, <3>3 DEF SpecialIdsOfConfig
  <2> QED
    BY <2>1, <2>2, <2>3
<1> QED
  BY <1>4, <1>5, IdCases

LEMMA DecodedWithout ==
  ASSUME Loaded, Cardinality(DOMAIN encoder_) + 1 = ImStartId, NEW s \in Seq(Ids)
  PROVE  Decoded(Without(s, SpecialIdsOfConfig)) = Without(Decoded(s), {ImStart, ImEnd})
<1> DEFINE C == SpecialIdsOfConfig
<1> DEFINE S == {ImStart, ImEnd}
<1> DEFINE P == {r \in Seq(Ids) : Decoded(Without(r, C)) = Without(Decoded(r), S)}
<1> HIDE DEF C, S
<1>1. << >> \in P
  BY DecodedEmpty, WithoutEmpty
<1>2. ASSUME NEW r \in Seq(Ids), NEW e \in Ids, r \in P PROVE Append(r, e) \in P
  <2> DEFINE x == IF e \in C THEN << >> ELSE <<e>>
  <2>1. Append(r, e) \in Seq(Ids)
    BY AppendProperties
  <2>2. Without(Append(r, e), C) = Without(r, C) \o x
    BY WithoutAppend
  <2>3. Without(r, C) \in Seq(Ids) /\ x \in Seq(Ids)
    <3>1. << >> \in Seq(Ids) /\ <<e>> \in Seq(Ids)
      OBVIOUS
    <3> QED
      BY <3>1, WithoutTyped
  <2>4. Decoded(x) = Without(TextOf(e), S)
    <3>1. Without(TextOf(e), S) = IF e \in C THEN << >> ELSE TextOf(e)
      BY DecodedWithoutOne DEF C, S
    <3>2. Decoded(<<e>>) = TextOf(e) /\ Decoded(<< >>) = << >>
      BY DecodedOne, DecodedEmpty
    <3> QED
      BY <3>1, <3>2
  <2> HIDE DEF x
  <2>5. Decoded(Without(r, C) \o x) = Decoded(Without(r, C)) \o Decoded(x)
    BY <2>3, DecodedConcat
  <2>6. Decoded(Append(r, e)) = Decoded(r) \o TextOf(e)
    BY DecodedAppend
  <2>7. Decoded(r) \in Seq(Symbol) /\ TextOf(e) \in Seq(Symbol)
    BY DecodedTyped, TextOfTyped
  <2>8. Without(Decoded(r) \o TextOf(e), S) = Without(Decoded(r), S) \o Without(TextOf(e), S)
    BY <2>7, WithoutConcat
  <2>9. Decoded(Without(r, C)) = Without(Decoded(r), S)
    BY <1>2
  <2> QED
    BY <2>1, <2>2, <2>4, <2>5, <2>6, <2>8, <2>9
<1>3. Seq(Ids) \subseteq P
  <2> HIDE DEF P
  <2> QED
    BY <1>1, <1>2, SeqInduction
<1> QED
  BY <1>3 DEF C, S

(* The parts of a piece are the piece.                                      *)
LEMMA PartsFacts ==
  ASSUME FileOK, NEW chars \in Seq(Char)
  PROVE  Parts(chars) \in Segmentation /\ FlattenSeq(Parts(chars)) = chars
<1>1. CASE chars \in DOMAIN encoder_
  <2>1. <<chars>> \in Segmentation /\ Parts(chars) = <<chars>>
    BY <1>1 DEF Segmentation, Parts
  <2>2. FlattenSeq(<<chars>>) = chars
    BY FlattenOne
  <2> QED
    BY <2>1, <2>2
<1>2. CASE chars \notin DOMAIN encoder_
  <2> DEFINE s == [k \in 1..Len(chars) |-> <<chars[k]>>]
  <2>1. /\ Len(chars) \in Nat /\ DOMAIN chars = 1..Len(chars)
        /\ \A k \in 1..Len(chars) : chars[k] \in Char
    BY LenProperties, ElementOfSeq
  <2>2. s \in Segmentation
    <3>1. s \in [1..Len(chars) -> Seq(Char)]
      BY <2>1
    <3> HIDE DEF s
    <3> QED
      BY <2>1, <3>1 DEF Segmentation
  <2>3. FlattenSeq(s) = chars
    <3>1. s = [k \in DOMAIN chars |-> IF chars[k] \in {} THEN << >> ELSE <<chars[k]>>]
      BY <2>1
    <3>2. Without(chars, {}) = chars
      BY WithoutNone
    <3> QED
      BY <3>1, <3>2 DEF Without
  <2>4. Parts(chars) = AllMerged[s]
    BY <1>2 DEF Parts
  <2> HIDE DEF s
  <2> QED
    BY <2>2, <2>3, <2>4, AllMergedFacts DEF FileOK
<1> QED
  BY <1>1, <1>2

-----------------------------------------------------------------------------
(* Where a text is cut                                                      *)

Within(t, S) == {i \in 1..Len(t) : t[i] \in S}
First(t, S) == IF Within(t, S) # {} THEN Min(Within(t, S)) ELSE 0

LEMMA FirstFacts ==
  ASSUME NEW T, NEW t \in Seq(T), NEW S
  PROVE  /\ First(t, S) = 0 => t \in Seq(T \ S)
         /\ First(t, S) # 0 =>
              /\ First(t, S) \in 1..Len(t) /\ t[First(t, S)] \in S
              /\ SubSeq(t, 1, First(t, S) - 1) \in Seq(T \ S)
         /\ First(t, S) \in 0..Len(t)
<1> DEFINE I == Within(t, S)
<1> DEFINE f == First(t, S)
<1>1. Len(t) \in Nat /\ \A i \in 1..Len(t) : t[i] \in T
  BY LenProperties, ElementOfSeq
<1>2. CASE I = {}
  <2>1. f = 0
    BY <1>2 DEF First
  <2>2. \A i \in 1..Len(t) : t[i] \in T \ S
    BY <1>1, <1>2 DEF Within
  <2>3. t \in [1..Len(t) -> T \ S]
    <3>1. t \in [1..Len(t) -> T]
      BY LenProperties
    <3> QED
      BY <2>2, <3>1
  <2>4. t \in Seq(T \ S)
    BY <1>1, <2>3
  <2> HIDE DEF f
  <2> QED
    BY <1>1, <2>1, <2>4 DEF f
<1>3. CASE I # {}
  <2>1. I \in SUBSET Nat
    BY <1>1 DEF Within
  <2>2. \E m \in I : \A k \in I : m <= k
    <3> HIDE DEF I
    <3> QED
      BY <1>3, <2>1, LeastElement
  <2>3. f = CHOOSE m \in I : \A k \in I : m =< k
    BY <1>3 DEF First, Min
  <2>4. f \in I /\ \A k \in I : f <= k
    <3> HIDE DEF I, f
    <3> QED
      BY <2>2, <2>3
  <2> HIDE DEF f
  <2>5. f \in 1..Len(t) /\ t[f] \in S
    BY <2>4 DEF Within
  <2>6. ASSUME NEW i \in 1..(f - 1) PROVE t[i] \in T \ S
    <3>1. i \in 1..Len(t) /\ ~(f <= i)
      BY <1>1, <2>5
    <3> QED
      BY <1>1, <2>4, <3>1 DEF Within
  <2>7. SubSeq(t, 1, f - 1) \in Seq(T \ S)
    BY <2>5, <2>6, SubSeqProperties
  <2>8. f # 0 /\ f \in 0..Len(t)
    BY <1>1, <2>5
  <2> QED
    BY <2>5, <2>7, <2>8 DEF f
<1> QED
  BY <1>2, <1>3

LEMMA FirstSpecialIsFirst ==
  ASSUME NEW t
  PROVE  FirstSpecial(t) = First(t, Special)
  BY DEF FirstSpecial, SelectInSeq, First, Within

LEMMA SkippedIsFirst ==
  ASSUME NEW t
  PROVE  Skipped(t) = First(t, Char) - 1
  BY DEF Skipped, SelectInSeq, First, Within

Plain == Char \cup {Invalid}

LEMMA SymbolFacts ==
  /\ Symbol \ Special = Plain /\ Plain \ Char = {Invalid}
  /\ Char \subseteq Plain /\ Plain \subseteq Symbol /\ Char \subseteq Symbol
  /\ Char \cap {Invalid} = {} /\ Special \cap {Invalid} = {} /\ Special \subseteq Symbol
  BY SymbolAssumption DEF Symbol, Plain

LEMMA PlainIsText ==
  ASSUME NEW t \in Seq(Plain)
  PROVE  t \in Seq(Symbol)
  BY SymbolFacts, SeqMonotonic

LEMMA CharsArePlain ==
  ASSUME NEW t \in Seq(Char)
  PROVE  t \in Seq(Plain) /\ t \in Seq(Symbol)
  BY SymbolFacts, SeqMonotonic

(* A text is what is in front of the first special token, that token, and   *)
(* what is behind it.                                                       *)
LEMMA SplitFacts ==
  ASSUME NEW t \in Seq(Symbol)
  PROVE  /\ FirstSpecial(t) \in Nat
         /\ ~(FirstSpecial(t) > 0) => t \in Seq(Plain)
         /\ FirstSpecial(t) > 0 =>
              /\ t[FirstSpecial(t)] \in Special
              /\ SubSeq(t, 1, FirstSpecial(t) - 1) \in Seq(Plain)
              /\ InputAfter(t) \in Seq(Symbol)
              /\ t = SubSeq(t, 1, FirstSpecial(t) - 1) \o (<<t[FirstSpecial(t)]>> \o InputAfter(t))
<1> DEFINE f == FirstSpecial(t)
<1>1. Len(t) \in Nat /\ \A i \in 1..Len(t) : t[i] \in Symbol
  BY LenProperties, ElementOfSeq
<1>2. /\ f = 0 => t \in Seq(Plain)
      /\ f # 0 => f \in 1..Len(t) /\ t[f] \in Special /\ SubSeq(t, 1, f - 1) \in Seq(Plain)
      /\ f \in 0..Len(t)
  <2>1. f = First(t, Special) /\ Symbol \ Special = Plain
    BY FirstSpecialIsFirst, SymbolFacts
  <2> HIDE DEF f
  <2> QED
    BY <2>1, FirstFacts
<1>3. ASSUME f # 0
      PROVE  /\ InputAfter(t) \in Seq(Symbol)
             /\ t = SubSeq(t, 1, f - 1) \o (<<t[f]>> \o InputAfter(t))
  <2>1. f \in 1..Len(t) /\ InputAfter(t) = SubSeq(t, f + 1, Len(t))
    BY <1>2, <1>3 DEF InputAfter
  <2> HIDE DEF f
  <2>2. ASSUME NEW i \in (f + 1)..Len(t) PROVE t[i] \in Symbol
    BY <1>1, <2>1
  <2>3. SubSeq(t, f + 1, Len(t)) \in Seq(Symbol)
    BY <1>1, <2>1, <2>2, SubSeqProperties
  <2>4. SubSeq(t, f, Len(t)) = <<t[f]>> \o SubSeq(t, f + 1, Len(t))
    BY <1>1, <2>1, SubSeqRecursiveFirst
  <2>5. SubSeq(t, 1, f - 1) \o SubSeq(t, f, Len(t)) = t
    <3>1. /\ 1 \in 1..(Len(t) + 1) /\ f - 1 \in (1 - 1)..Len(t)
          /\ Len(t) \in (f - 1)..Len(t) /\ f - 1 + 1 = f
      BY <1>1, <2>1
    <3>2. SubSeq(t, 1, f - 1) \o SubSeq(t, f - 1 + 1, Len(t)) = SubSeq(t, 1, Len(t))
      BY <3>1, ConcatAdjacentSubSeq
    <3> QED
      BY <3>1, <3>2, SubSeqFull
  <2> QED
    BY <2>1, <2>3, <2>4, <2>5
<1>4. f \in Nat /\ (f > 0 <=> f # 0)
  BY <1>1, <1>2
<1> HIDE DEF f
<1> QED
  BY <1>2, <1>3, <1>4 DEF f

LEMMA ValidConcat ==
  ASSUME NEW s \in Seq(Symbol), NEW t \in Seq(Symbol)
  PROVE  Valid(s \o t) = Valid(s) \o Valid(t)
  BY WithoutConcat DEF Valid

LEMMA ValidTyped ==
  ASSUME NEW s \in Seq(Symbol)
  PROVE  Valid(s) \in Seq(Symbol)
  BY WithoutTyped DEF Valid

LEMMA ValidEmpty == Valid(<< >>) = << >>
  BY WithoutEmpty DEF Valid

(* A match cuts the plain text into invalid bytes, a piece and a rest.      *)
LEMMA MatchFacts ==
  ASSUME NEW t \in Seq(Plain), NEW n \in Matches(t), NEW k, k = Skipped(t)
  PROVE  /\ k \in Nat /\ n \in Nat
         /\ SubSeq(t, k + 1, k + n) \in Seq(Char)
         /\ SubSeq(t, k + n + 1, Len(t)) \in Seq(Plain)
         /\ Valid(t) = SubSeq(t, k + 1, k + n) \o Valid(SubSeq(t, k + n + 1, Len(t)))
<1> DEFINE a == SubSeq(t, 1, k)
<1> DEFINE b == SubSeq(t, k + 1, k + n)
<1> DEFINE c == SubSeq(t, k + n + 1, Len(t))
<1>1. Len(t) \in Nat /\ \A i \in 1..Len(t) : t[i] \in Plain
  BY LenProperties, ElementOfSeq
<1>2. First(t, Char) \in 0..Len(t) /\ k = First(t, Char) - 1
  BY FirstFacts, SkippedIsFirst
<1>3. ~(k < 0) /\ n \in 1..(Len(t) - k) /\ \A i \in 1..n : t[k + i] \in Char
  BY DEF Matches
<1>4. First(t, Char) # 0 /\ k \in Nat /\ n \in Nat /\ n > 0 /\ k + n <= Len(t)
  BY <1>1, <1>2, <1>3
<1>5. a \in Seq({Invalid})
  <2>1. SubSeq(t, 1, First(t, Char) - 1) \in Seq(Plain \ Char)
    BY <1>4, FirstFacts
  <2> QED
    BY <1>2, <2>1, SymbolFacts
<1>6. b \in Seq(Char)
  <2>1. ASSUME NEW i \in (k + 1)..(k + n) PROVE t[i] \in Char
    <3>1. i - k \in 1..n /\ k + (i - k) = i
      BY <1>4
    <3> QED
      BY <1>3, <3>1
  <2> QED
    BY <1>4, <2>1, SubSeqProperties
<1>7. c \in Seq(Plain)
  <2>1. ASSUME NEW i \in (k + n + 1)..Len(t) PROVE t[i] \in Plain
    <3>1. i \in 1..Len(t)
      BY <1>4
    <3> QED
      BY <1>1, <3>1
  <2> QED
    BY <1>1, <1>4, <2>1, SubSeqProperties
<1>8. t = a \o (b \o c)
  <2>1. /\ 1 \in 1..(Len(t) + 1) /\ k \in (1 - 1)..Len(t) /\ Len(t) \in k..Len(t)
        /\ k + 1 \in 1..(Len(t) + 1) /\ k + n \in (k + 1 - 1)..Len(t) /\ Len(t) \in (k + n)..Len(t)
    BY <1>1, <1>4
  <2>2. SubSeq(t, 1, k) \o SubSeq(t, k + 1, Len(t)) = SubSeq(t, 1, Len(t))
    BY <2>1, ConcatAdjacentSubSeq
  <2>3. SubSeq(t, k + 1, k + n) \o SubSeq(t, k + n + 1, Len(t)) = SubSeq(t, k + 1, Len(t))
    <3>a. PICK m \in 1..(Len(t) + 1) : m = k + 1
      BY <2>1
    <3>1. PICK j \in (m - 1)..Len(t) : j = k + n /\ Len(t) \in j..Len(t)
      BY <2>1, <3>a
    <3>b. SubSeq(t, m, j) \o SubSeq(t, j + 1, Len(t)) = SubSeq(t, m, Len(t))
      BY <3>1, ConcatAdjacentSubSeq
    <3>2. SubSeq(t, k + 1, j) \o SubSeq(t, j + 1, Len(t)) = SubSeq(t, k + 1, Len(t))
      BY <3>a, <3>b
    <3> QED
      BY <3>1, <3>2
  <2>4. SubSeq(t, 1, Len(t)) = t
    BY SubSeqFull
  <2> QED
    BY <2>2, <2>3, <2>4
<1> HIDE DEF a, b, c
<1>9. a \in Seq(Symbol) /\ b \in Seq(Symbol) /\ c \in Seq(Symbol) /\ b \o c \in Seq(Symbol)
  <2>1. {Invalid} \subseteq Symbol
    BY DEF Symbol
  <2>2. a \in Seq(Symbol)
    BY <1>5, <2>1, SeqMonotonic
  <2>3. b \in Seq(Symbol) /\ c \in Seq(Symbol)
    BY <1>6, <1>7, CharsArePlain, PlainIsText
  <2> QED
    BY <2>2, <2>3, ConcatProperties
<1>10. Valid(a) = << >> /\ Valid(b) = b
  <2>1. Valid(a) = << >>
    BY <1>5, WithoutAll DEF Valid
  <2>2. Char \cap {Invalid} = {}
    BY SymbolFacts
  <2>3. Valid(b) = b
    BY <1>6, <2>2, WithoutNone DEF Valid
  <2> QED
    BY <2>1, <2>3
<1>11. Valid(t) = << >> \o (b \o Valid(c))
  <2>1. Valid(a \o (b \o c)) = Valid(a) \o Valid(b \o c)
    BY <1>9, ValidConcat
  <2>2. Valid(b \o c) = Valid(b) \o Valid(c)
    BY <1>9, ValidConcat
  <2> QED
    BY <1>8, <1>10, <2>1, <2>2
<1>12. b \o Valid(c) \in Seq(Symbol)
  BY <1>9, ValidTyped, ConcatProperties
<1>13. Valid(t) = b \o Valid(c)
  BY <1>11, <1>12, ConcatEmptySeq
<1> QED
  BY <1>4, <1>6, <1>7, <1>13 DEF b, c

(* Without a match nothing valid is left.                                   *)
LEMMA NoMatchFacts ==
  ASSUME NEW t \in Seq(Plain), Matches(t) = {}
  PROVE  Valid(t) = << >>
<1> DEFINE f == First(t, Char)
<1>1. Len(t) \in Nat /\ f \in 0..Len(t) /\ Skipped(t) = f - 1
  BY LenProperties, FirstFacts, SkippedIsFirst
<1>2. f = 0
  <2> SUFFICES ASSUME f # 0 PROVE FALSE
    OBVIOUS
  <2>1. f \in 1..Len(t) /\ t[f] \in Char
    BY FirstFacts
  <2> HIDE DEF f
  <2>2. /\ ~(Skipped(t) < 0) /\ 1 \in 1..(Len(t) - Skipped(t))
        /\ \A i \in 1..1 : t[Skipped(t) + i] \in Char
    BY <1>1, <2>1
  <2>3. 1 \in Matches(t)
    BY <2>2 DEF Matches
  <2> QED
    BY <2>3
<1>3. t \in Seq({Invalid})
  <2>1. t \in Seq(Plain \ Char)
    BY <1>2, FirstFacts
  <2> QED
    BY <2>1, SymbolFacts
<1> QED
  BY <1>3, WithoutAll DEF Valid

-----------------------------------------------------------------------------
(* Ends of texts                                                            *)

LEMMA SuffixMeans ==
  ASSUME NEW T, NEW s \in Seq(T), NEW t \in Seq(T)
  PROVE  IsSuffix(s, t) <=>
           /\ Len(s) <= Len(t)
           /\ \A i \in 1..Len(s) : s[i] = t[Len(t) - Len(s) + i]
<1> DEFINE m == Len(s)
<1> DEFINE n == Len(t)
<1> DEFINE u == Reverse(s)
<1> DEFINE v == Reverse(t)
<1>1. /\ m \in Nat /\ n \in Nat
      /\ \A i \in 1..m : s[i] \in T
      /\ \A i \in 1..n : t[i] \in T
  BY LenProperties, ElementOfSeq
<1>2. u = [i \in 1..m |-> s[(m - i) + 1]] /\ v = [i \in 1..n |-> t[(n - i) + 1]]
  BY DEF Reverse
<1>3. /\ u \in Seq(T) /\ Len(u) = m /\ v \in Seq(T) /\ Len(v) = n
      /\ \A i \in 1..m : u[i] = s[(m - i) + 1] /\ u[i] \in T
      /\ \A i \in 1..n : v[i] = t[(n - i) + 1] /\ v[i] \in T
  <2>1. ASSUME NEW i \in 1..m PROVE u[i] = s[(m - i) + 1] /\ u[i] \in T
    <3>1. (m - i) + 1 \in 1..m
      BY <1>1
    <3> QED
      BY <1>1, <1>2, <3>1
  <2>2. ASSUME NEW i \in 1..n PROVE v[i] = t[(n - i) + 1] /\ v[i] \in T
    <3>1. (n - i) + 1 \in 1..n
      BY <1>1
    <3> QED
      BY <1>1, <1>2, <3>1
  <2> HIDE DEF m, n, u, v
  <2>3. u \in [1..m -> T] /\ v \in [1..n -> T]
    BY <1>2, <2>1, <2>2
  <2> QED
    BY <1>1, <2>1, <2>2, <2>3
<1>4. IsSuffix(s, t) <=> m <= n /\ SubSeq(u, 1, m) = SubSeq(v, 1, m)
  BY <1>3 DEF IsSuffix, IsPrefix
<1> HIDE DEF m, n, u, v
<1>5. ASSUME m <= n
      PROVE  SubSeq(u, 1, m) = SubSeq(v, 1, m) <=> \A i \in 1..m : s[i] = t[n - m + i]
  <2>1. SubSeq(u, 1, m) = u
    BY <1>3, SubSeqFull
  <2>2. /\ SubSeq(v, 1, m) \in Seq(T) /\ Len(SubSeq(v, 1, m)) = m
        /\ \A i \in 1..m : SubSeq(v, 1, m)[i] = v[i]
    <3>1. \A i \in 1..m : v[i] \in T
      BY <1>1, <1>3, <1>5
    <3>2. /\ SubSeq(v, 1, m) \in Seq(T)
          /\ Len(SubSeq(v, 1, m)) = IF 1 <= m THEN m - 1 + 1 ELSE 0
          /\ \A i \in 1..(m - 1 + 1) : SubSeq(v, 1, m)[i] = v[1 + i - 1]
      BY <1>1, <3>1, SubSeqProperties
    <3> QED
      BY <1>1, <3>2
  <2>3. SubSeq(u, 1, m) = SubSeq(v, 1, m) <=> \A i \in 1..m : u[i] = v[i]
    <3>1. ASSUME \A i \in 1..m : u[i] = v[i] PROVE u = SubSeq(v, 1, m)
      BY <1>3, <2>2, <3>1, SeqEqual
    <3> QED
      BY <2>1, <2>2, <3>1
  <2>4. ASSUME NEW i \in 1..m, \A j \in 1..m : s[j] = t[n - m + j] PROVE u[i] = v[i]
    <3>1. (m - i) + 1 \in 1..m /\ n - m + ((m - i) + 1) = (n - i) + 1 /\ i \in 1..n
      BY <1>1, <1>5
    <3>2. s[(m - i) + 1] = t[n - m + ((m - i) + 1)]
      BY <2>4, <3>1
    <3> QED
      BY <1>3, <3>1, <3>2
  <2>5. ASSUME NEW i \in 1..m, \A j \in 1..m : u[j] = v[j] PROVE s[i] = t[n - m + i]
    <3>1. PICK j \in 1..m : j = (m - i) + 1
      BY <1>1
    <3>2. j \in 1..n /\ (m - j) + 1 = i /\ (n - j) + 1 = n - m + i
      BY <1>1, <1>5, <3>1
    <3>3. u[j] = v[j]
      BY <2>5
    <3> QED
      BY <1>3, <3>2, <3>3
  <2> QED
    BY <2>3, <2>4, <2>5
<1> QED
  BY <1>4, <1>5 DEF m, n

LEMMA SuffixOfConcat ==
  ASSUME NEW T, NEW p \in Seq(T), NEW s \in Seq(T)
  PROVE  IsSuffix(s, p \o s)
<1>1. p \o s \in Seq(T) /\ Len(p \o s) = Len(p) + Len(s) /\ Len(p) \in Nat /\ Len(s) \in Nat
  BY ConcatProperties, LenProperties
<1>2. ASSUME NEW i \in 1..Len(s) PROVE s[i] = (p \o s)[Len(p \o s) - Len(s) + i]
  <2>1. /\ Len(p \o s) - Len(s) + i = Len(p) + i /\ Len(p) + i \in 1..(Len(p) + Len(s))
        /\ ~(Len(p) + i <= Len(p)) /\ Len(p) + i - Len(p) = i
    BY <1>1
  <2>2. (p \o s)[Len(p) + i] = s[Len(p) + i - Len(p)]
    BY <2>1, ConcatProperties
  <2> QED
    BY <2>1, <2>2
<1>3. Len(s) <= Len(p \o s)
  BY <1>1
<1> QED
  BY <1>1, <1>2, <1>3, SuffixMeans

(* Of two ends of a text the shorter is an end of the longer.               *)
LEMMA SuffixOfSuffix ==
  ASSUME NEW T, NEW a \in Seq(T), NEW b \in Seq(T), NEW c \in Seq(T),
         IsSuffix(a, c), IsSuffix(b, c), Len(a) <= Len(b)
  PROVE  IsSuffix(a, b)
<1>1. Len(a) \in Nat /\ Len(b) \in Nat /\ Len(c) \in Nat
  BY LenProperties
<1>2. /\ \A i \in 1..Len(a) : a[i] = c[Len(c) - Len(a) + i]
      /\ \A i \in 1..Len(b) : b[i] = c[Len(c) - Len(b) + i]
  BY SuffixMeans
<1>3. ASSUME NEW i \in 1..Len(a) PROVE a[i] = b[Len(b) - Len(a) + i]
  <2>a. Len(b) - Len(a) + i \in 1..Len(b)
    BY <1>1
  <2>1. PICK j \in 1..Len(b) : j = Len(b) - Len(a) + i
    BY <2>a
  <2>2. Len(c) - Len(b) + j = Len(c) - Len(a) + i
    BY <1>1, <2>1
  <2> QED
    BY <1>2, <2>1, <2>2
<1> QED
  BY <1>1, <1>3, SuffixMeans

LEMMA SuffixOfItself ==
  ASSUME NEW T, NEW s \in Seq(T)
  PROVE  IsSuffix(s, s)
<1>1. << >> \in Seq(T) /\ << >> \o s = s
  BY ConcatEmptySeq
<1>2. IsSuffix(s, << >> \o s)
  BY <1>1, SuffixOfConcat
<1> QED
  BY <1>1, <1>2

(* Truncation keeps the end, and everything if there is room.               *)
LEMMA KeepLastFacts ==
  ASSUME Loaded, NEW s \in Seq(Ids), max_length \in Nat \ {0}
  PROVE  /\ KeepLast(s) \in Seq(Ids) /\ Len(KeepLast(s)) <= max_length
         /\ Len(KeepLast(s)) < max_length => KeepLast(s) = s
         /\ IsSuffix(Decoded(KeepLast(s)), Decoded(s))
<1> DEFINE n == Len(s)
<1>1. n \in Nat /\ \A i \in 1..n : s[i] \in Ids
  BY LenProperties, ElementOfSeq
<1>2. CASE n > max_length
  <2> DEFINE k == n - max_length
  <2> DEFINE p == SubSeq(s, 1, k)
  <2> DEFINE r == SubSeq(s, k + 1, n)
  <2>1. k \in 1..n /\ k + 1 \in 1..n /\ KeepLast(s) = r
    BY <1>1, <1>2 DEF KeepLast
  <2> HIDE DEF k
  <2>2. p \in Seq(Ids) /\ r \in Seq(Ids) /\ Len(r) = n - (k + 1) + 1
    <3>1. (\A i \in 1..k : s[i] \in Ids) /\ (\A i \in (k + 1)..n : s[i] \in Ids) /\ k + 1 <= n
      BY <1>1, <2>1
    <3> QED
      BY <1>1, <2>1, <3>1, SubSeqProperties
  <2>3. Len(r) = max_length
    BY <1>1, <2>1, <2>2 DEF k
  <2>4. p \o r = s
    <3>1. 1 \in 1..(n + 1) /\ k \in (1 - 1)..n /\ n \in k..n
      BY <1>1, <2>1
    <3>2. SubSeq(s, 1, k) \o SubSeq(s, k + 1, n) = SubSeq(s, 1, n)
      BY <3>1, ConcatAdjacentSubSeq
    <3> QED
      BY <3>2, SubSeqFull
  <2> HIDE DEF p, r
  <2>5. Decoded(s) = Decoded(p) \o Decoded(r)
    BY <2>2, <2>4, DecodedConcat
  <2>6. Decoded(p) \in Seq(Symbol) /\ Decoded(r) \in Seq(Symbol)
    BY <2>2, DecodedTyped
  <2>7. IsSuffix(Decoded(r), Decoded(s))
    BY <2>5, <2>6, SuffixOfConcat
  <2> QED
    BY <2>1, <2>2, <2>3, <2>7
<1>3. CASE ~(n > max_length)
  <2>1. KeepLast(s) = s /\ n <= max_length
    BY <1>1, <1>3 DEF KeepLast
  <2>2. IsSuffix(Decoded(s), Decoded(s))
    BY DecodedTyped, SuffixOfItself
  <2> QED
    BY <2>1, <2>2
<1> QED
  BY <1>2, <1>3

-----------------------------------------------------------------------------
(* The inductive invariant                                                  *)

TextOK ==
  /\ phase \in {"load", "threw", "ready", "split", "pieces", "encoded", "decoded"}
  /\ max_length \in MaxLengths
  /\ prompt \in Seq(Symbol) /\ input \in Seq(Symbol) /\ sub_input \in Seq(Plain)
  /\ special \in Special \cup {NoSpecial}
  /\ ids \in Seq(Nat)
  /\ phase \in {"load", "ready"} => ids = << >>
  /\ phase \in {"load", "ready", "split"} => special = NoSpecial /\ sub_input = << >>

InputOK ==
  phase \in {"split", "pieces", "encoded", "decoded"} =>
    /\ \E line \in Lines : prompt = BuildPrompt(line)
    /\ \A k \in 1..Len(ids) : Known(ids[k]) \/ KnownSpecial(ids[k])

\* What truncation leaves of the prompt.
EncodedOK ==
  phase \in {"encoded", "decoded"} /\ DenseRanks =>
    /\ Len(ids) <= max_length
    /\ IsSuffix(Decoded(ids), Valid(prompt))
    /\ Len(ids) < max_length => Decoded(ids) = Valid(prompt)

TokenizerInv == FileOK /\ TextOK /\ InputOK /\ LosesNothing /\ EncodedOK /\ DecodesBack

\* What a step leaves of the files determines what ids spell after it.
DecodedBy(e, x, s) ==
  FlattenSeq([k \in DOMAIN s |->
    IF \E t \in DOMAIN e : e[t] = s[k] THEN CHOOSE t \in DOMAIN e : e[t] = s[k]
    ELSE <<CHOOSE t \in Special : x[t] = s[k]>>])

LEMMA DecodedNext ==
  ASSUME UNCHANGED fileVars
  PROVE  Decoded(ids)' = Decoded(ids')
<1>1. Decoded(ids)' = DecodedBy(encoder_', special_tokens_encoder', ids')
  BY DEF Decoded, DecodedBy, TextOf, Known
<1>2. ASSUME NEW s PROVE Decoded(s) = DecodedBy(encoder_, special_tokens_encoder, s)
  BY DEF Decoded, DecodedBy, TextOf, Known
<1> QED
  BY <1>1, <1>2 DEF fileVars

LEMMA IdsFacts ==
  ASSUME TextOK, InputOK, phase \in {"split", "pieces", "encoded", "decoded"}
  PROVE  ids \in Seq(Ids)
<1>1. ids \in Seq(Nat) /\ Len(ids) \in Nat /\ ids \in [1..Len(ids) -> Nat]
  BY LenProperties DEF TextOK
<1>2. \A k \in 1..Len(ids) : ids[k] \in Ids
  BY <1>1 DEF InputOK, Ids
<1>3. ids \in [1..Len(ids) -> Ids]
  BY <1>1, <1>2
<1> QED
  BY <1>1, <1>3

LEMMA IdsNext ==
  ASSUME UNCHANGED fileVars, ids' \in Seq(Ids), \E line \in Lines : prompt' = BuildPrompt(line)
  PROVE  InputOK'
<1>1. ASSUME NEW k \in 1..Len(ids') PROVE ids'[k] \in Ids
  BY ElementOfSeq
<1>2. ASSUME NEW k \in 1..Len(ids') PROVE Known(ids[k])' \/ KnownSpecial(ids[k])'
  BY <1>1 DEF Ids, Known, KnownSpecial, fileVars
<1> QED
  BY <1>2 DEF InputOK

\* The sum that LosesNothing speaks of.
Balance(d, sub, sp, inp, ph) ==
  d \o Valid(sub) \o (IF sp = NoSpecial THEN << >> ELSE <<sp>>)
    \o (IF ph = "pieces" /\ sp = NoSpecial THEN << >> ELSE Valid(inp))

LEMMA BalanceInPieces ==
  ASSUME NEW d \in Seq(Symbol), NEW sub \in Seq(Symbol), NEW inp \in Seq(Symbol)
  PROVE  Balance(d, sub, NoSpecial, inp, "pieces") = d \o Valid(sub)
<1>1. Balance(d, sub, NoSpecial, inp, "pieces") = ((d \o Valid(sub)) \o << >>) \o << >>
  BY DEF Balance
<1>2. d \o Valid(sub) \in Seq(Symbol)
  BY ValidTyped, ConcatProperties
<1> QED
  BY <1>1, <1>2, ConcatEmptySeq

LEMMA BalanceInSplit ==
  ASSUME NEW d \in Seq(Symbol), NEW sub \in Seq(Symbol), NEW inp \in Seq(Symbol)
  PROVE  Balance(d, sub, NoSpecial, inp, "split") = Cat(d, Cat(Valid(sub), Valid(inp)))
<1>1. Balance(d, sub, NoSpecial, inp, "split") = ((d \o Valid(sub)) \o << >>) \o Valid(inp)
  BY DEF Balance
<1>2. Valid(sub) \in Seq(Symbol) /\ Valid(inp) \in Seq(Symbol) /\ d \o Valid(sub) \in Seq(Symbol)
  BY ValidTyped, ConcatProperties
<1>3. (d \o Valid(sub)) \o << >> = d \o Valid(sub)
  BY <1>2, ConcatEmptySeq
<1>4. Cat(Cat(d, Valid(sub)), Valid(inp)) = Cat(d, Cat(Valid(sub), Valid(inp)))
  BY <1>2, CatAssociative
<1>5. Balance(d, sub, NoSpecial, inp, "split") = Cat(Cat(d, Valid(sub)), Valid(inp))
  BY <1>1, <1>3 DEF Cat
<1> QED
  BY <1>4, <1>5

LEMMA BalanceWithSpecial ==
  ASSUME NEW d \in Seq(Symbol), NEW sub \in Seq(Symbol), NEW sp \in Special,
         NEW inp \in Seq(Symbol), NEW ph
  PROVE  Balance(d, sub, sp, inp, ph) = Cat(d, Cat(Valid(sub), Cat(<<sp>>, Valid(inp))))
<1> DEFINE v == Valid(sub)
<1> DEFINE w == Valid(inp)
<1> DEFINE q == <<sp>>
<1>1. v \in Seq(Symbol) /\ w \in Seq(Symbol) /\ q \in Seq(Symbol)
  <2>1. sp \in Symbol
    BY DEF Symbol
  <2> QED
    BY <2>1, ValidTyped
<1>2. sp # NoSpecial
  BY SymbolAssumption
<1>3. Balance(d, sub, sp, inp, ph) = Cat(Cat(Cat(d, v), q), w)
  BY <1>2 DEF Balance, Cat
<1> HIDE DEF v, w, q
<1>4. Cat(d, v) \in Seq(Symbol) /\ Cat(q, w) \in Seq(Symbol)
  BY <1>1, CatTyped
<1>5. Cat(Cat(Cat(d, v), q), w) = Cat(Cat(d, v), Cat(q, w))
  BY <1>1, <1>4, CatAssociative
<1>6. Cat(Cat(d, v), Cat(q, w)) = Cat(d, Cat(v, Cat(q, w)))
  BY <1>1, <1>4, CatAssociative
<1> QED
  BY <1>3, <1>5, <1>6 DEF v, w, q

LEMMA BalanceIs ==
  ASSUME LosesNothing, phase \in {"split", "pieces"}, DenseRanks
  PROVE  Balance(Decoded(ids), sub_input, special, input, phase) = Valid(prompt)
  BY DEF LosesNothing, Balance

LEMMA BalanceNext ==
  ASSUME UNCHANGED fileVars,
         DenseRanks => Balance(Decoded(ids'), sub_input', special', input', phase') = Valid(prompt')
  PROVE  LosesNothing'
<1>1. LosesNothing' <=>
        (phase' \in {"split", "pieces"} /\ DenseRanks' =>
           Balance(Decoded(ids)', sub_input', special', input', phase') = Valid(prompt'))
  BY DEF LosesNothing, Balance
<1>2. DenseRanks' <=> DenseRanks
  BY DEF DenseRanks, fileVars
<1> QED
  BY <1>1, <1>2, DecodedNext

-----------------------------------------------------------------------------
(* Reading the file                                                         *)

LEMMA InitKeepsInv == TokenizerInit => TokenizerInv
<1> SUFFICES ASSUME TokenizerInit PROVE TokenizerInv
  OBVIOUS
<1>1. encoder_ = << >> /\ DOMAIN encoder_ = {} /\ phase = "load"
  BY DEF TokenizerInit
<1>2. FileOK
  <2>1. IsFiniteSet({}) /\ encoder_ \in [{} -> Nat]
    BY <1>1, FS_EmptySet
  <2> QED
    BY <1>1, <2>1 DEF FileOK
<1>3. TextOK
  BY DEF TokenizerInit, TextOK
<1> QED
  BY <1>1, <1>2, <1>3 DEF TokenizerInv, InputOK, LosesNothing, EncodedOK, DecodesBack

LEMMA ReadLineKeepsInv ==
  ASSUME TokenizerInv, NEW token \in FileTokens, NEW rank \in FileRanks, ReadLine(token, rank)
  PROVE  TokenizerInv'
<1> DEFINE D == DOMAIN encoder_
<1>1. /\ phase = "load" /\ phase' = "load"
      /\ UNCHANGED <<special_tokens_encoder, callVars, loopVars, text>>
  BY DEF ReadLine
<1>2. /\ encoder_ \in [D -> Nat] /\ D \subseteq Seq(Char) \ {<< >>} /\ IsFiniteSet(D)
      /\ token \in Seq(Char) \ {<< >>} /\ rank \in Nat
  BY SymbolAssumption DEF TokenizerInv, FileOK
<1>3. encoder_' \in [D \cup {token} -> Nat] /\ DOMAIN encoder_' = D \cup {token}
  <2>1. encoder_' = [s \in D \cup {token} |-> IF s = token THEN rank ELSE encoder_[s]]
    BY DEF ReadLine
  <2>2. \A s \in D \cup {token} : (IF s = token THEN rank ELSE encoder_[s]) \in Nat
    BY <1>2
  <2> HIDE DEF D
  <2> QED
    BY <2>1, <2>2
<1>4. IsFiniteSet(D \cup {token})
  BY <1>2, FS_AddElement
<1>5. FileOK'
  <2> HIDE DEF D
  <2> QED
    BY <1>1, <1>2, <1>3, <1>4 DEF FileOK
<1>6. TextOK'
  BY <1>1 DEF TokenizerInv, TextOK, callVars, loopVars
<1> QED
  BY <1>1, <1>5, <1>6 DEF TokenizerInv, InputOK, LosesNothing, EncodedOK, DecodesBack

LEMMA BadLineKeepsInv == TokenizerInv /\ BadLine => TokenizerInv'
<1> SUFFICES ASSUME TokenizerInv, BadLine PROVE TokenizerInv'
  OBVIOUS
<1>1. phase = "load" /\ phase' = "threw" /\ UNCHANGED <<fileVars, callVars, loopVars, text>>
  BY DEF BadLine
<1>2. FileOK'
  BY <1>1 DEF TokenizerInv, FileOK, fileVars
<1>3. TextOK'
  BY <1>1 DEF TokenizerInv, TextOK, callVars, loopVars
<1> QED
  BY <1>1, <1>2, <1>3 DEF TokenizerInv, InputOK, LosesNothing, EncodedOK, DecodesBack

LEMMA EndOfFileKeepsInv == TokenizerInv /\ EndOfFile => TokenizerInv'
<1> SUFFICES ASSUME TokenizerInv, EndOfFile PROVE TokenizerInv'
  OBVIOUS
<1>1. /\ phase = "load" /\ phase' = "ready" /\ UNCHANGED <<encoder_, callVars, loopVars, text>>
      /\ special_tokens_encoder' = SpecialIds(Cardinality(DOMAIN encoder_))
  BY DEF EndOfFile
<1>2. FileOK'
  BY <1>1 DEF TokenizerInv, FileOK
<1>3. TextOK'
  BY <1>1 DEF TokenizerInv, TextOK, callVars, loopVars
<1> QED
  BY <1>1, <1>2, <1>3 DEF TokenizerInv, InputOK, LosesNothing, EncodedOK, DecodesBack

-----------------------------------------------------------------------------
(* The loop of encode                                                       *)

(* The template is text, and its valid part ends with the cue.              *)
LEMMA PromptFacts ==
  ASSUME NEW line \in Lines
  PROVE  /\ BuildPrompt(line) \in Seq(Symbol)
         /\ Cue \in Seq(Symbol) /\ IsSuffix(Cue, Valid(BuildPrompt(line)))
<1> DEFINE a == <<ImStart>>
<1> DEFINE b == <<ImEnd, Newline, ImStart>>
<1> DEFINE head == a \o System \o b \o User \o line \o <<ImEnd, Newline>>
<1>1. /\ System \in Seq(Symbol) /\ User \in Seq(Symbol) /\ Assistant \in Seq(Symbol)
      /\ line \in Seq(Symbol)
  <2>1. System \in Seq(Char) /\ User \in Seq(Char) /\ Assistant \in Seq(Char)
    BY SymbolAssumption
  <2>2. line \in Seq(Symbol)
    BY SymbolAssumption DEF Symbol
  <2> QED
    BY <2>1, <2>2, CharsArePlain
<1>2. ImStart \in Symbol /\ ImEnd \in Symbol /\ Newline \in Symbol
  BY SymbolAssumption DEF Symbol
<1>3. a \in Seq(Symbol) /\ b \in Seq(Symbol) /\ <<ImEnd, Newline>> \in Seq(Symbol)
  BY <1>2
<1>4. b = <<ImEnd, Newline>> \o a
  BY <1>2
<1> DEFINE c == <<ImEnd, Newline>>
<1> DEFINE x == a \o System \o b \o User \o line
<1> HIDE DEF a, b, c
<1>5. x \in Seq(Symbol)
  <2>1. a \o System \in Seq(Symbol)
    BY <1>1, <1>3, ConcatProperties
  <2>2. a \o System \o b \in Seq(Symbol)
    BY <1>3, <2>1, ConcatProperties
  <2>3. a \o System \o b \o User \in Seq(Symbol)
    BY <1>1, <2>2, ConcatProperties
  <2> QED
    BY <1>1, <2>3, ConcatProperties
<1>6. BuildPrompt(line) = x \o b \o Assistant
  BY DEF BuildPrompt, a, b
<1> HIDE DEF x
<1>7. Cue = a \o Assistant /\ Cue \in Seq(Symbol)
  <2>1. Cue = a \o Assistant
    BY DEF Cue, a
  <2> QED
    BY <1>1, <1>3, <2>1, ConcatProperties
<1>8. c \in Seq(Symbol) /\ b = c \o a
  BY <1>3, <1>4 DEF c
<1>9. x \o c \in Seq(Symbol)
  BY <1>5, <1>8, ConcatProperties
<1>10. x \o b \o Assistant = (x \o c) \o Cue
  <2>1. x \o (c \o a) = (x \o c) \o a
    <3>1. Cat(Cat(x, c), a) = Cat(x, Cat(c, a))
      BY <1>3, <1>5, <1>8, CatAssociative
    <3> QED
      BY <3>1 DEF Cat
  <2>2. ((x \o c) \o a) \o Assistant = (x \o c) \o (a \o Assistant)
    <3>1. PICK y \in Seq(Symbol) : y = x \o c
      BY <1>9, Zenon
    <3>2. Cat(Cat(y, a), Assistant) = Cat(y, Cat(a, Assistant))
      BY <1>1, <1>3, CatAssociative
    <3> QED
      BY <3>1, <3>2 DEF Cat
  <2> QED
    BY <1>7, <1>8, <2>1, <2>2
<1>11. BuildPrompt(line) = (x \o c) \o Cue
  BY <1>6, <1>10
<1>12. BuildPrompt(line) \in Seq(Symbol)
  BY <1>7, <1>9, <1>11, ConcatProperties
<1>13. Valid(Cue) = Cue
  <2>1. Cue \in Seq(Symbol \ {Invalid})
    <3>1. ImStart \in Symbol \ {Invalid}
      BY <1>2, SymbolAssumption
    <3>2. Assistant \in Seq(Symbol \ {Invalid})
      <4>1. Char \subseteq Symbol \ {Invalid}
        BY SymbolAssumption DEF Symbol
      <4>2. Assistant \in Seq(Char)
        BY SymbolAssumption
      <4> QED
        BY <4>1, <4>2, SeqMonotonic
    <3>3. a \in Seq(Symbol \ {Invalid})
      BY <3>1 DEF a
    <3> QED
      BY <1>7, <3>2, <3>3, ConcatProperties
  <2>2. {Invalid} \cap (Symbol \ {Invalid}) = {}
    OBVIOUS
  <2> QED
    BY <2>1, <2>2, WithoutNone DEF Valid
<1>14. Valid((x \o c) \o Cue) = Valid(x \o c) \o Valid(Cue)
  BY <1>7, <1>9, ValidConcat
<1>15. Valid(x \o c) \in Seq(Symbol)
  BY <1>9, ValidTyped
<1>16. IsSuffix(Cue, Valid(x \o c) \o Cue)
  BY <1>7, <1>15, SuffixOfConcat
<1> QED
  BY <1>7, <1>11, <1>12, <1>13, <1>14, <1>16

LEMMA EncodeHistoryKeepsInv ==
  ASSUME TokenizerInv, NEW line \in Lines, EncodeHistory(line)
  PROVE  TokenizerInv'
<1>1. /\ phase = "ready" /\ phase' = "split" /\ prompt' = BuildPrompt(line) /\ input' = prompt'
      /\ UNCHANGED <<fileVars, max_length, special, sub_input, ids, text>>
  BY DEF EncodeHistory
<1>2. ids = << >> /\ special = NoSpecial /\ sub_input = << >>
  BY <1>1 DEF TokenizerInv, TextOK
<1>3. prompt' \in Seq(Symbol) /\ input' \in Seq(Symbol)
  BY <1>1, PromptFacts
<1>4. FileOK'
  BY <1>1 DEF TokenizerInv, FileOK, fileVars
<1>5. TextOK'
  BY <1>1, <1>2, <1>3 DEF TokenizerInv, TextOK
<1>6. ids' = << >> /\ sub_input' = << >> /\ special' = NoSpecial /\ UNCHANGED fileVars
  BY <1>1, <1>2
<1>7. InputOK'
  <2>1. ids' \in Seq(Ids)
    BY <1>6
  <2>2. \E l \in Lines : prompt' = BuildPrompt(l)
    BY <1>1
  <2> QED
    BY <1>6, <2>1, <2>2, IdsNext
<1>8. LosesNothing'
  <2>1. Decoded(ids') = << >>
    BY <1>6, DecodedEmpty
  <2>2. << >> \in Seq(Symbol)
    OBVIOUS
  <2>3. Balance(<< >>, << >>, NoSpecial, input', "split") = << >> \o (Valid(<< >>) \o Valid(input'))
    BY <1>3, <2>2, BalanceInSplit DEF Cat
  <2>4. Valid(input') \in Seq(Symbol) /\ Valid(<< >>) = << >>
    BY <1>3, ValidTyped, ValidEmpty
  <2>5. << >> \o (<< >> \o Valid(input')) = Valid(input')
    BY <2>4, ConcatEmptySeq
  <2> QED
    BY <1>1, <1>6, <2>1, <2>3, <2>4, <2>5, BalanceNext
<1> QED
  BY <1>1, <1>4, <1>5, <1>7, <1>8 DEF TokenizerInv, EncodedOK, DecodesBack

LEMMA SplitKeepsInv == TokenizerInv /\ Split => TokenizerInv'
<1> SUFFICES ASSUME TokenizerInv, Split PROVE TokenizerInv'
  OBVIOUS
<1> DEFINE f == FirstSpecial(input)
<1> DEFINE d == Decoded(ids)
<1>1. phase = "split" /\ phase' = "pieces" /\ UNCHANGED <<fileVars, callVars, ids, text>>
  BY DEF Split
<1>2. /\ special = NoSpecial /\ sub_input = << >> /\ input \in Seq(Symbol) /\ ids \in Seq(Ids)
      /\ NoSpecial \notin Special
  BY <1>1, IdsFacts, SymbolAssumption DEF TokenizerInv, TextOK
<1>3. ASSUME DenseRanks PROVE d \in Seq(Symbol) /\ d \o Valid(input) = Valid(prompt)
  <2>1. d \in Seq(Symbol)
    BY <1>1, <1>2, <1>3, DecodedTyped DEF Loaded, TokenizerInv
  <2>2. << >> \in Seq(Symbol)
    OBVIOUS
  <2> HIDE DEF d
  <2>3. Balance(d, << >>, NoSpecial, input, "split") = d \o (Valid(<< >>) \o Valid(input))
    <3>1. Balance(d, << >>, NoSpecial, input, "split") = Cat(d, Cat(Valid(<< >>), Valid(input)))
      BY <1>2, <2>1, <2>2, BalanceInSplit
    <3> QED
      BY <3>1 DEF Cat
  <2>4. Balance(d, << >>, NoSpecial, input, "split") = Valid(prompt)
    BY <1>1, <1>2, <1>3, BalanceIs DEF TokenizerInv, d
  <2>5. Valid(<< >>) \o Valid(input) = Valid(input)
    BY <1>2, ValidTyped, ValidEmpty, ConcatEmptySeq
  <2> QED
    BY <2>1, <2>3, <2>4, <2>5
<1>4. /\ input' \in Seq(Symbol) /\ sub_input' \in Seq(Plain) /\ special' \in Special \cup {NoSpecial}
      /\ DenseRanks => Balance(d, sub_input', special', input', "pieces") = Valid(prompt)
  <2>1. CASE f > 0
    <3>1. /\ special' = input[f] /\ sub_input' = SubSeq(input, 1, f - 1) /\ input' = InputAfter(input)
      BY <2>1 DEF Split
    <3>2. /\ special' \in Special /\ sub_input' \in Seq(Plain) /\ input' \in Seq(Symbol)
          /\ input = sub_input' \o (<<special'>> \o input')
      <4> HIDE DEF f
      <4>1. /\ input[f] \in Special
            /\ SubSeq(input, 1, f - 1) \in Seq(Plain)
            /\ InputAfter(input) \in Seq(Symbol)
            /\ input = SubSeq(input, 1, f - 1) \o (<<input[f]>> \o InputAfter(input))
        BY <1>2, <2>1, SplitFacts DEF f
      <4> QED
        BY <3>1, <4>1
    <3>3. special' # NoSpecial /\ special' \in Symbol /\ sub_input' \in Seq(Symbol)
      BY <1>2, <3>2, PlainIsText, SymbolFacts
    <3>4. Valid(input) = Valid(sub_input') \o (<<special'>> \o Valid(input'))
      <4> DEFINE q == <<special'>>
      <4>1. q \in Seq(Symbol) /\ q \o input' \in Seq(Symbol)
        BY <3>2, <3>3, ConcatProperties
      <4>2. Valid(q) = q
        <5>1. special' \notin {Invalid}
          BY <3>2, SymbolFacts
        <5>2. Without(<<special'>>, {Invalid})
                = IF special' \in {Invalid} THEN << >> ELSE <<special'>>
          BY <3>3, WithoutOne
        <5> QED
          BY <5>1, <5>2 DEF Valid
      <4>3. input = sub_input' \o (q \o input')
        BY <3>2
      <4> HIDE DEF q
      <4>4. Valid(sub_input' \o (q \o input')) = Valid(sub_input') \o Valid(q \o input')
        BY <3>3, <4>1, ValidConcat
      <4>5. Valid(q \o input') = Valid(q) \o Valid(input')
        BY <3>2, <4>1, ValidConcat
      <4> QED
        BY <4>2, <4>3, <4>4, <4>5 DEF q
    <3>5. ASSUME DenseRanks PROVE Balance(d, sub_input', special', input', "pieces") = Valid(prompt)
      <4>1. d \in Seq(Symbol) /\ d \o Valid(input) = Valid(prompt)
        BY <1>3, <3>5
      <4> HIDE DEF d
      <4>2. Balance(d, sub_input', special', input', "pieces")
              = Cat(d, Cat(Valid(sub_input'), Cat(<<special'>>, Valid(input'))))
        BY <3>2, <3>3, <4>1, BalanceWithSpecial
      <4> QED
        BY <3>4, <4>1, <4>2 DEF Cat
    <3> QED
      BY <3>2, <3>5
  <2>2. CASE ~(f > 0)
    <3>1. special' = NoSpecial /\ sub_input' = input /\ input' = input
      BY <2>2 DEF Split
    <3>2. input \in Seq(Plain)
      BY <1>2, <2>2, SplitFacts
    <3>3. ASSUME DenseRanks PROVE Balance(d, sub_input', special', input', "pieces") = Valid(prompt)
      <4>1. d \in Seq(Symbol) /\ d \o Valid(input) = Valid(prompt)
        BY <1>3, <3>3
      <4> HIDE DEF d
      <4>2. Balance(d, input, NoSpecial, input, "pieces") = d \o Valid(input)
        BY <1>2, <4>1, BalanceInPieces
      <4> QED
        BY <3>1, <4>1, <4>2
    <3> QED
      BY <1>2, <3>1, <3>2, <3>3
  <2> QED
    BY <2>1, <2>2
<1>5. FileOK'
  BY <1>1 DEF TokenizerInv, FileOK, fileVars
<1>6. TextOK'
  BY <1>1, <1>4 DEF TokenizerInv, TextOK, callVars
<1>7. InputOK'
  <2>1. \E l \in Lines : prompt' = BuildPrompt(l)
    BY <1>1 DEF TokenizerInv, InputOK, callVars
  <2> QED
    BY <1>1, <1>2, <2>1, IdsNext
<1>8. LosesNothing'
  BY <1>1, <1>4, BalanceNext DEF callVars
<1> QED
  BY <1>1, <1>5, <1>6, <1>7, <1>8 DEF TokenizerInv, EncodedOK, DecodesBack

\* A piece goes from the text to the ids without changing the sum.
LEMMA BalanceOfPiece ==
  ASSUME NEW d \in Seq(Symbol), NEW b \in Seq(Symbol), NEW sub, NEW rest \in Seq(Symbol),
         Valid(sub) = Cat(b, Valid(rest)), NEW sp, NEW inp, NEW ph
  PROVE  Balance(Cat(d, b), rest, sp, inp, ph) = Balance(d, sub, sp, inp, ph)
<1>1. PICK v \in Seq(Symbol) : v = Valid(rest)
  BY ValidTyped
<1>2. Cat(Cat(d, b), v) = Cat(d, Cat(b, v))
  BY CatAssociative
<1>3. Cat(Cat(d, b), Valid(rest)) = Cat(d, Valid(sub))
  BY <1>1, <1>2
<1> QED
  BY <1>3 DEF Balance, Cat

\* The ids of tokens are ids, whether the ranks are dense or not.
LEMMA TokenIds ==
  ASSUME FileOK, NEW s \in Segmentation, ToSet(s) \subseteq DOMAIN encoder_
  PROVE  [k \in DOMAIN s |-> encoder_[s[k]]] \in Seq(Ids)
<1>1. Len(s) \in Nat /\ DOMAIN s = 1..Len(s)
  BY LenProperties DEF Segmentation
<1>2. ASSUME NEW k \in 1..Len(s) PROVE encoder_[s[k]] \in Ids
  <2>1. s[k] \in DOMAIN encoder_
    BY <1>1 DEF ToSet
  <2>2. encoder_[s[k]] \in Nat
    BY <2>1 DEF FileOK
  <2> QED
    BY <2>1, <2>2 DEF Ids, Known
<1> QED
  BY <1>1, <1>2

LEMMA EncodePieceKeepsInv == TokenizerInv /\ EncodePiece => TokenizerInv'
<1> SUFFICES ASSUME TokenizerInv, EncodePiece PROVE TokenizerInv'
  OBVIOUS
<1>1. phase = "pieces" /\ UNCHANGED <<fileVars, callVars, input, special, text>>
  BY DEF EncodePiece
<1>2. ids \in Seq(Ids) /\ sub_input \in Seq(Plain) /\ FileOK
  BY <1>1, IdsFacts DEF TokenizerInv, TextOK
<1>a. PICK n \in Matches(sub_input) :
        LET from == Skipped(sub_input)
            s == Parts(SubSeq(sub_input, from + 1, from + n))
        IN  IF ToSet(s) \subseteq DOMAIN encoder_
            THEN /\ ids' = ids \o [k \in DOMAIN s |-> encoder_[s[k]]]
                 /\ sub_input' = SubSeq(sub_input, from + n + 1, Len(sub_input))
                 /\ UNCHANGED phase
            ELSE phase' = "threw" /\ UNCHANGED <<ids, sub_input>>
  BY DEF EncodePiece
<1>b. PICK from : from = Skipped(sub_input)
  OBVIOUS
<1>c. PICK s : s = Parts(SubSeq(sub_input, from + 1, from + n))
  OBVIOUS
<1>3. /\ from = Skipped(sub_input)
      /\ s = Parts(SubSeq(sub_input, from + 1, from + n))
      /\ IF ToSet(s) \subseteq DOMAIN encoder_
         THEN /\ ids' = ids \o [k \in DOMAIN s |-> encoder_[s[k]]]
              /\ sub_input' = SubSeq(sub_input, from + n + 1, Len(sub_input))
              /\ UNCHANGED phase
         ELSE phase' = "threw" /\ UNCHANGED <<ids, sub_input>>
  BY <1>a, <1>b, <1>c
<1> DEFINE b == SubSeq(sub_input, from + 1, from + n)
<1> DEFINE rest == SubSeq(sub_input, from + n + 1, Len(sub_input))
<1> DEFINE new == [k \in DOMAIN s |-> encoder_[s[k]]]
<1>4. b \in Seq(Char) /\ rest \in Seq(Plain) /\ Valid(sub_input) = b \o Valid(rest)
  BY <1>2, <1>3, MatchFacts
<1>5. s \in Segmentation /\ FlattenSeq(s) = b
  BY <1>2, <1>3, <1>4, PartsFacts
<1>6. FileOK'
  BY <1>1, <1>3 DEF TokenizerInv, FileOK, fileVars
<1>7. \E l \in Lines : prompt' = BuildPrompt(l)
  BY <1>1 DEF TokenizerInv, InputOK, callVars
<1>8. CASE ToSet(s) \subseteq DOMAIN encoder_
  <2>1. ids' = ids \o new /\ sub_input' = rest /\ phase' = "pieces"
    BY <1>1, <1>3, <1>8
  <2>2. new \in Seq(Ids)
    BY <1>2, <1>5, <1>8, TokenIds
  <2> HIDE DEF new
  <2>3. ids' \in Seq(Ids)
    BY <1>2, <2>1, <2>2, ConcatProperties
  <2>4. InputOK'
    BY <1>1, <1>7, <2>3, IdsNext
  <2>5. TextOK'
    <3>1. ids' \in Seq(Nat)
      <4>1. Ids \subseteq Nat
        BY DEF Ids
      <4> QED
        BY <2>3, <4>1, SeqMonotonic
    <3> QED
      BY <1>1, <1>4, <2>1, <3>1 DEF TokenizerInv, TextOK, callVars
  <2>6. ASSUME DenseRanks
        PROVE  Balance(Decoded(ids'), sub_input', special', input', phase') = Valid(prompt')
    <3>1. Loaded
      BY <1>1, <1>2, <2>6 DEF Loaded
    <3>2. Decoded(new) = b
      BY <1>5, <1>8, <3>1, DecodedTokens DEF new
    <3>3. Decoded(ids') = Decoded(ids) \o b
      BY <1>2, <2>1, <2>2, <3>1, <3>2, DecodedConcat
    <3>4. Decoded(ids) \in Seq(Symbol)
      BY <1>2, <3>1, DecodedTyped
    <3>5. b \in Seq(Symbol) /\ rest \in Seq(Symbol)
      BY <1>4, CharsArePlain, PlainIsText
    <3>6. Balance(Cat(Decoded(ids), b), rest, special, input, "pieces")
            = Balance(Decoded(ids), sub_input, special, input, "pieces")
      <4>1. Valid(sub_input) = Cat(b, Valid(rest))
        BY <1>4 DEF Cat
      <4>2. b \in Seq(Symbol) /\ rest \in Seq(Symbol) /\ Decoded(ids) \in Seq(Symbol)
        BY <3>4, <3>5
      <4> HIDE DEF b, rest
      <4> QED
        BY <4>1, <4>2, BalanceOfPiece
    <3>7. Balance(Decoded(ids), sub_input, special, input, "pieces") = Valid(prompt)
      BY <1>1, <2>6, BalanceIs DEF TokenizerInv
    <3> QED
      BY <1>1, <2>1, <3>3, <3>6, <3>7 DEF callVars, Cat
  <2>7. LosesNothing'
    BY <1>1, <2>6, BalanceNext
  <2> QED
    BY <1>6, <2>1, <2>4, <2>5, <2>7 DEF TokenizerInv, EncodedOK, DecodesBack
<1>9. CASE ~(ToSet(s) \subseteq DOMAIN encoder_)
  <2>1. phase' = "threw" /\ UNCHANGED <<ids, sub_input>>
    BY <1>3, <1>9
  <2>2. TextOK'
    BY <1>1, <2>1 DEF TokenizerInv, TextOK, callVars
  <2> QED
    BY <1>6, <2>1, <2>2 DEF TokenizerInv, InputOK, LosesNothing, EncodedOK, DecodesBack
<1> QED
  BY <1>8, <1>9

LEMMA PushSpecialKeepsInv == TokenizerInv /\ PushSpecial => TokenizerInv'
<1> SUFFICES ASSUME TokenizerInv, PushSpecial PROVE TokenizerInv'
  OBVIOUS
<1> DEFINE id == special_tokens_encoder[special]
<1>1. /\ phase = "pieces" /\ phase' = "split" /\ special # NoSpecial /\ Matches(sub_input) = {}
      /\ ids' = Append(ids, id) /\ sub_input' = << >> /\ special' = NoSpecial
      /\ UNCHANGED <<fileVars, callVars, input, text>>
  BY DEF PushSpecial, PiecesDone
<1>2. /\ ids \in Seq(Ids) /\ sub_input \in Seq(Plain) /\ FileOK
      /\ special \in Special /\ input \in Seq(Symbol)
  BY <1>1, IdsFacts DEF TokenizerInv, TextOK
<1>3. id \in Ids
  <2>1. special_tokens_encoder = SpecialIds(Cardinality(DOMAIN encoder_))
    BY <1>1, <1>2 DEF FileOK
  <2>2. Cardinality(DOMAIN encoder_) \in Nat
    BY <1>2, FS_CardinalityType DEF FileOK
  <2>3. id \in Nat
    BY <1>2, <2>1, <2>2, SpecialIdFacts
  <2> QED
    BY <1>2, <2>3 DEF Ids, KnownSpecial
<1> HIDE DEF id
<1>4. ids' \in Seq(Ids)
  BY <1>1, <1>2, <1>3, AppendProperties
<1>5. FileOK'
  BY <1>1 DEF TokenizerInv, FileOK, fileVars
<1>6. TextOK'
  <2>1. ids' \in Seq(Nat)
    <3>1. Ids \subseteq Nat
      BY DEF Ids
    <3> QED
      BY <1>4, <3>1, SeqMonotonic
  <2> QED
    BY <1>1, <2>1 DEF TokenizerInv, TextOK, callVars
<1>7. InputOK'
  <2>1. \E l \in Lines : prompt' = BuildPrompt(l)
    BY <1>1 DEF TokenizerInv, InputOK, callVars
  <2> QED
    BY <1>1, <1>4, <2>1, IdsNext
<1>8. ASSUME DenseRanks
      PROVE  Balance(Decoded(ids'), sub_input', special', input', phase') = Valid(prompt')
  <2>1. Loaded
    BY <1>1, <1>2, <1>8 DEF Loaded
  <2>2. TextOf(id) = <<special>>
    BY <1>2, <2>1, TextOfSpecial DEF id
  <2>3. PICK d \in Seq(Symbol) : d = Decoded(ids)
    BY <1>2, <2>1, DecodedTyped
  <2>4. Decoded(ids') = d \o <<special>>
    BY <1>1, <1>2, <1>3, <2>1, <2>2, <2>3, DecodedAppend
  <2>5. PICK w \in Seq(Symbol) : w = Valid(input)
    BY <1>2, ValidTyped
  <2>6. PICK q \in Seq(Symbol) : q = <<special>>
    <3>1. special \in Symbol
      BY <1>2 DEF Symbol
    <3>2. <<special>> \in Seq(Symbol)
      BY <3>1
    <3> QED
      BY <3>2, Zenon
  <2>7. Balance(d, sub_input, special, input, "pieces") = d \o (q \o w)
    <3>1. sub_input \in Seq(Symbol) /\ Valid(sub_input) = << >>
      BY <1>1, <1>2, PlainIsText, NoMatchFacts
    <3>2. Balance(d, sub_input, special, input, "pieces")
            = Cat(d, Cat(Valid(sub_input), Cat(<<special>>, Valid(input))))
      <4>1. special \in Special /\ input \in Seq(Symbol) /\ sub_input \in Seq(Symbol)
        BY <1>2, <3>1
      <4> QED
        BY <4>1, BalanceWithSpecial
    <3>3. q \o w \in Seq(Symbol)
      BY ConcatProperties
    <3>4. << >> \o (q \o w) = q \o w
      BY <3>3, ConcatEmptySeq
    <3> QED
      BY <2>5, <2>6, <3>1, <3>2, <3>4 DEF Cat
  <2>8. Balance(d \o q, << >>, NoSpecial, input, "split") = (d \o q) \o w
    <3>1. PICK z \in Seq(Symbol) : z = Cat(d, q)
      BY CatTyped
    <3>2. Balance(z, << >>, NoSpecial, input, "split") = Cat(z, Cat(Valid(<< >>), Valid(input)))
      <4>1. << >> \in Seq(Symbol) /\ input \in Seq(Symbol)
        BY <1>2
      <4> QED
        BY <4>1, BalanceInSplit
    <3>3. << >> \o w = w
      BY ConcatEmptySeq
    <3> QED
      BY <2>5, <3>1, <3>2, <3>3, ValidEmpty DEF Cat
  <2>9. (d \o q) \o w = d \o (q \o w)
    <3>1. Cat(Cat(d, q), w) = Cat(d, Cat(q, w))
      BY CatAssociative
    <3> QED
      BY <3>1 DEF Cat
  <2>10. Balance(d, sub_input, special, input, "pieces") = Valid(prompt)
    BY <1>1, <1>8, <2>3, BalanceIs DEF TokenizerInv
  <2> QED
    BY <1>1, <2>4, <2>6, <2>7, <2>8, <2>9, <2>10 DEF callVars
<1>9. LosesNothing'
  BY <1>1, <1>8, BalanceNext
<1> QED
  BY <1>1, <1>5, <1>6, <1>7, <1>9 DEF TokenizerInv, EncodedOK, DecodesBack

LEMMA TruncateKeepsInv == TokenizerInv /\ Truncate => TokenizerInv'
<1> SUFFICES ASSUME TokenizerInv, Truncate PROVE TokenizerInv'
  OBVIOUS
<1>1. /\ phase = "pieces" /\ phase' = "encoded" /\ special = NoSpecial /\ Matches(sub_input) = {}
      /\ ids' = KeepLast(ids) /\ sub_input' = << >> /\ input' = << >>
      /\ UNCHANGED <<fileVars, callVars, special, text>>
  BY DEF Truncate, PiecesDone
<1>2. /\ ids \in Seq(Ids) /\ sub_input \in Seq(Plain) /\ FileOK /\ input \in Seq(Symbol)
      /\ max_length \in Nat \ {0}
  BY <1>1, IdsFacts, SymbolAssumption DEF TokenizerInv, TextOK
<1>3. ids' \in Seq(Ids)
  <2>1. Len(ids) \in Nat /\ \A k \in 1..Len(ids) : ids[k] \in Ids
    BY <1>2, LenProperties, ElementOfSeq
  <2>2. CASE Len(ids) > max_length
    <3>1. PICK k \in 1..Len(ids) : k = Len(ids) - max_length + 1
      <4>1. Len(ids) - max_length + 1 \in 1..Len(ids)
        BY <1>2, <2>1, <2>2
      <4> QED
        BY <4>1, Zenon
    <3>2. ids' = SubSeq(ids, k, Len(ids))
      BY <1>1, <2>2, <3>1 DEF KeepLast
    <3>3. \A i \in k..Len(ids) : ids[i] \in Ids
      BY <2>1
    <3> QED
      BY <2>1, <3>2, <3>3, SubSeqProperties
  <2>3. CASE ~(Len(ids) > max_length)
    BY <1>1, <1>2, <2>3 DEF KeepLast
  <2> QED
    BY <2>2, <2>3
<1>4. FileOK'
  BY <1>1 DEF TokenizerInv, FileOK, fileVars
<1>5. TextOK'
  <2>1. ids' \in Seq(Nat)
    <3>1. Ids \subseteq Nat
      BY DEF Ids
    <3> QED
      BY <1>3, <3>1, SeqMonotonic
  <2> QED
    BY <1>1, <2>1 DEF TokenizerInv, TextOK, callVars
<1>6. InputOK'
  <2>1. \E l \in Lines : prompt' = BuildPrompt(l)
    BY <1>1 DEF TokenizerInv, InputOK, callVars
  <2> QED
    BY <1>1, <1>3, <2>1, IdsNext
<1>7. ASSUME DenseRanks
      PROVE  /\ Len(ids') <= max_length
             /\ IsSuffix(Decoded(ids'), Valid(prompt))
             /\ Len(ids') < max_length => Decoded(ids') = Valid(prompt)
  <2>1. Loaded
    BY <1>1, <1>2, <1>7 DEF Loaded
  <2>2. Decoded(ids) = Valid(prompt)
    <3>1. Decoded(ids) \in Seq(Symbol) /\ sub_input \in Seq(Symbol)
      BY <1>2, <2>1, DecodedTyped, PlainIsText
    <3>2. Balance(Decoded(ids), sub_input, NoSpecial, input, "pieces")
            = Decoded(ids) \o Valid(sub_input)
      BY <1>2, <3>1, BalanceInPieces
    <3>3. Balance(Decoded(ids), sub_input, NoSpecial, input, "pieces") = Valid(prompt)
      BY <1>1, <1>7, BalanceIs DEF TokenizerInv
    <3>4. Valid(sub_input) = << >>
      BY <1>1, <1>2, NoMatchFacts
    <3>5. Decoded(ids) \o << >> = Decoded(ids)
      BY <3>1, ConcatEmptySeq
    <3> QED
      BY <3>2, <3>3, <3>4, <3>5
  <2>3. /\ Len(KeepLast(ids)) <= max_length
        /\ Len(KeepLast(ids)) < max_length => KeepLast(ids) = ids
        /\ IsSuffix(Decoded(KeepLast(ids)), Decoded(ids))
    BY <1>2, <2>1, KeepLastFacts
  <2> QED
    BY <1>1, <2>2, <2>3
<1>8. EncodedOK'
  <2>1. DenseRanks' <=> DenseRanks
    BY <1>1 DEF DenseRanks, fileVars
  <2>2. Decoded(ids)' = Decoded(ids')
    BY <1>1, DecodedNext
  <2>3. max_length' = max_length /\ prompt' = prompt /\ Valid(prompt)' = Valid(prompt)
    BY <1>1 DEF callVars
  <2> QED
    BY <1>7, <2>1, <2>2, <2>3 DEF EncodedOK
<1> QED
  BY <1>1, <1>4, <1>5, <1>6, <1>8 DEF TokenizerInv, LosesNothing, DecodesBack

-----------------------------------------------------------------------------
(* decode                                                                   *)

LEMMA EncodedNext ==
  ASSUME EncodedOK, phase \in {"encoded", "decoded"},
         UNCHANGED <<fileVars, callVars, ids>>
  PROVE  EncodedOK'
<1>1. DenseRanks' <=> DenseRanks
  BY DEF DenseRanks, fileVars
<1>2. Decoded(ids)' = Decoded(ids)
  BY DecodedNext
<1>3. max_length' = max_length /\ ids' = ids /\ Valid(prompt)' = Valid(prompt)
  BY DEF callVars
<1> QED
  BY <1>1, <1>2, <1>3 DEF EncodedOK

LEMMA DecodeKeepsInv == TokenizerInv /\ Decode => TokenizerInv'
<1> SUFFICES ASSUME TokenizerInv, Decode PROVE TokenizerInv'
  OBVIOUS
<1> DEFINE normal_ids == Without(ids, SpecialIdsOfConfig)
<1>1. /\ phase = "encoded" /\ phase' \in {"decoded", "threw"}
      /\ phase' = "decoded" => text' = Replaced(Decoded(normal_ids))
      /\ UNCHANGED <<fileVars, callVars, loopVars>>
  BY DEF Decode
<1> HIDE DEF normal_ids
<1>2. ids \in Seq(Ids) /\ FileOK
  BY <1>1, IdsFacts DEF TokenizerInv
<1>3. FileOK'
  BY <1>1 DEF TokenizerInv, FileOK, fileVars
<1>4. TextOK'
  BY <1>1 DEF TokenizerInv, TextOK, callVars, loopVars
<1>5. InputOK'
  <2>1. \E l \in Lines : prompt' = BuildPrompt(l)
    BY <1>1 DEF TokenizerInv, InputOK, callVars
  <2> QED
    BY <1>1, <1>2, <2>1, IdsNext DEF loopVars
<1>6. EncodedOK'
  BY <1>1, EncodedNext DEF TokenizerInv, loopVars
<1>7. DecodesBack'
  <2> SUFFICES ASSUME phase' = "decoded", DenseRanks, Cardinality(DOMAIN encoder_) + 1 = ImStartId,
                      Len(ids) < max_length
               PROVE  text' = Replaced(Without(Valid(prompt), {ImStart, ImEnd}))
    <3>1. DenseRanks' <=> DenseRanks
      BY <1>1 DEF DenseRanks, fileVars
    <3>2. /\ encoder_' = encoder_ /\ ids' = ids /\ max_length' = max_length
          /\ Valid(prompt)' = Valid(prompt)
      BY <1>1 DEF fileVars, callVars, loopVars
    <3> QED
      BY <3>1, <3>2 DEF DecodesBack
  <2>1. Decoded(ids) = Valid(prompt)
    BY <1>1 DEF TokenizerInv, EncodedOK
  <2>2. Loaded
    BY <1>1, <1>2 DEF Loaded
  <2>3. Decoded(normal_ids) = Without(Decoded(ids), {ImStart, ImEnd})
    BY <1>2, <2>2, DecodedWithout DEF normal_ids
  <2> QED
    BY <1>1, <2>1, <2>3
<1> QED
  BY <1>1, <1>3, <1>4, <1>5, <1>6, <1>7 DEF TokenizerInv, LosesNothing

-----------------------------------------------------------------------------
LEMMA StutterKeepsInv == TokenizerInv /\ UNCHANGED tokenizerVars => TokenizerInv'
<1> SUFFICES ASSUME TokenizerInv, UNCHANGED tokenizerVars PROVE TokenizerInv'
  OBVIOUS
<1>1. /\ UNCHANGED <<phase, encoder_, special_tokens_encoder, max_length, prompt>>
      /\ UNCHANGED <<input, special, sub_input, ids, text>> /\ UNCHANGED fileVars
  BY DEF tokenizerVars, fileVars, callVars, loopVars
<1>2. FileOK' /\ TextOK'
  BY <1>1 DEF TokenizerInv, FileOK, TextOK
<1>3. InputOK'
  BY <1>1 DEF TokenizerInv, InputOK, Known, KnownSpecial
<1>4. (DenseRanks' <=> DenseRanks) /\ Decoded(ids)' = Decoded(ids)
  BY <1>1, DecodedNext DEF DenseRanks
<1>5. LosesNothing' /\ EncodedOK' /\ DecodesBack'
  BY <1>1, <1>4 DEF TokenizerInv, LosesNothing, EncodedOK, DecodesBack
<1> QED
  BY <1>2, <1>3, <1>5 DEF TokenizerInv

LEMMA SpecKeepsTokenizerInv == TokenizerSpec => []TokenizerInv
<1>1. ASSUME TokenizerInv, [TokenizerNext]_tokenizerVars PROVE TokenizerInv'
  <2>1. CASE \E token \in FileTokens, rank \in FileRanks : ReadLine(token, rank)
    BY <1>1, <2>1, ReadLineKeepsInv
  <2>2. CASE BadLine
    BY <1>1, <2>2, BadLineKeepsInv
  <2>3. CASE EndOfFile
    BY <1>1, <2>3, EndOfFileKeepsInv
  <2>4. CASE \E line \in Lines : EncodeHistory(line)
    BY <1>1, <2>4, EncodeHistoryKeepsInv
  <2>5. CASE Split
    BY <1>1, <2>5, SplitKeepsInv
  <2>6. CASE EncodePiece
    BY <1>1, <2>6, EncodePieceKeepsInv
  <2>7. CASE PushSpecial
    BY <1>1, <2>7, PushSpecialKeepsInv
  <2>8. CASE Truncate
    BY <1>1, <2>8, TruncateKeepsInv
  <2>9. CASE Decode
    BY <1>1, <2>9, DecodeKeepsInv
  <2>10. CASE UNCHANGED tokenizerVars
    BY <1>1, <2>10, StutterKeepsInv
  <2> QED
    BY <1>1, <2>1, <2>2, <2>3, <2>4, <2>5, <2>6, <2>7, <2>8, <2>9, <2>10
    DEF TokenizerNext, Encode
<1> QED
  BY <1>1, InitKeepsInv, PTL DEF TokenizerSpec

(* At every moment of encode the ids spell the part of the prompt behind    *)
(* them and the rest is still to come, for every vocabulary with dense      *)
(* ranks, every typed line and every way in which the regular expression    *)
(* cuts pieces (tiktoken.h:167-238).                                        *)
THEOREM NothingIsLost == TokenizerSpec => []LosesNothing
<1>1. TokenizerInv => LosesNothing
  BY DEF TokenizerInv
<1> QED
  BY <1>1, SpecKeepsTokenizerInv, PTL

(* An untruncated prompt decodes to what was put in, without the frame and  *)
(* the invalid bytes (QwenTokenizer.cc:46-57, 110-112).                     *)
THEOREM DecodingUndoesEncoding == TokenizerSpec => []DecodesBack
<1>1. TokenizerInv => DecodesBack
  BY DEF TokenizerInv
<1> QED
  BY <1>1, SpecKeepsTokenizerInv, PTL

\* Of a truncated text enough is left for the cue.
LEMMA EncodedEndsWithCue == TokenizerInv => EndsWithCue
<1> SUFFICES ASSUME TokenizerInv, phase = "encoded", DenseRanks, max_length >= Len(Cue)
             PROVE  /\ Len(ids) <= max_length
                    /\ IsSuffix(Decoded(ids), Valid(prompt))
                    /\ IsSuffix(Cue, Decoded(ids))
  BY DEF EndsWithCue
<1>1. /\ Len(ids) <= max_length
      /\ IsSuffix(Decoded(ids), Valid(prompt))
      /\ Len(ids) < max_length => Decoded(ids) = Valid(prompt)
  BY DEF TokenizerInv, EncodedOK
<1>2. /\ prompt \in Seq(Symbol) /\ ids \in Seq(Ids) /\ Loaded
      /\ max_length \in Nat
  BY IdsFacts, SymbolAssumption DEF TokenizerInv, TextOK, Loaded
<1>3. Cue \in Seq(Symbol) /\ IsSuffix(Cue, Valid(prompt))
  <2>1. PICK line \in Lines : prompt = BuildPrompt(line)
    BY DEF TokenizerInv, InputOK
  <2> QED
    BY <2>1, PromptFacts
<1>4. IsSuffix(Cue, Decoded(ids))
  <2>1. CASE Len(ids) < max_length
    BY <1>1, <1>3, <2>1
  <2>2. CASE ~(Len(ids) < max_length)
    <3>1. /\ Len(Decoded(ids)) >= Len(ids)
          /\ Decoded(ids) \in Seq(Symbol) /\ Valid(prompt) \in Seq(Symbol)
      BY <1>2, DecodedIsLong, DecodedTyped, ValidTyped
    <3>2. Len(Cue) <= Len(Decoded(ids))
      <4>1. Len(Cue) \in Nat /\ Len(ids) \in Nat /\ Len(Decoded(ids)) \in Nat
        BY <1>2, <1>3, <3>1, LenProperties
      <4> QED
        BY <1>1, <1>2, <2>2, <3>1, <4>1
    <3> QED
      BY <1>1, <1>3, <3>1, <3>2, SuffixOfSuffix
  <2> QED
    BY <2>1, <2>2
<1> QED
  BY <1>1, <1>4

(* However long the line, what encode hands to the model is a suffix of the *)
(* prompt that ends with the cue for the assistant, if max_length leaves    *)
(* room for the cue (QwenTokenizer.cc:74-81).                                   *)
THEOREM CueSurvives == TokenizerSpec => []EndsWithCue
  BY SpecKeepsTokenizerInv, EncodedEndsWithCue, PTL
=============================================================================
