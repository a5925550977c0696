--------------------------- MODULE SamplerProofs ---------------------------
(***************************************************************************)
(* Theorems about the sampler, for every vocabulary size, every logits and *)
(* windows and every set of parameters.                                    *)
(***************************************************************************)
EXTENDS Sampler, Foundations, FiniteSetTheorems, SequenceTheorems, TLAPS

Candidate == [id : Ids, logit : Int]
Distinct(s) == \A i, j \in 1..Len(s) : s[i].id = s[j].id => i = j
Array(s) == s \in Seq(Candidate) /\ s # << >> /\ Distinct(s)

IdsOf(s) == {s[i].id : i \in 1..Len(s)}

-----------------------------------------------------------------------------
(* Orders and cuts of the candidate array                                   *)

LEMMA ArrayFacts ==
  ASSUME NEW s, Array(s)
  PROVE  /\ Len(s) \in Nat \ {0} /\ DOMAIN s = 1..Len(s)
         /\ \A i \in 1..Len(s) : s[i] \in Candidate /\ s[i].id \in Ids /\ s[i].logit \in Int
<1>1. s \in Seq(Candidate) /\ s # << >>
  BY DEF Array
<1>2. Len(s) \in Nat \ {0} /\ DOMAIN s = 1..Len(s)
  BY <1>1, EmptySeq, LenProperties
<1>3. \A i \in 1..Len(s) : s[i] \in Candidate
  BY <1>1, ElementOfSeq
<1> QED
  BY <1>2, <1>3 DEF Candidate

Reorders(r, s) ==
  /\ Array(r) /\ Len(r) = Len(s)
  /\ \A i \in 1..Len(r) : \E j \in 1..Len(s) : r[i] = s[j]
  /\ \A j \in 1..Len(s) : \E i \in 1..Len(r) : s[j] = r[i]

(* std::sort leaves the same candidates in another order.                   *)
LEMMA OrdersReorder ==
  ASSUME NEW s, Array(s), NEW r \in SetToSeqs(ToSet(s))
  PROVE  Reorders(r, s)
<1> DEFINE n == Len(s)
<1> DEFINE T == ToSet(s)
<1>1. n \in Nat \ {0} /\ DOMAIN s = 1..n /\ \A i \in 1..n : s[i] \in Candidate
  BY ArrayFacts
<1>2. T = {s[i] : i \in 1..n}
  BY <1>1 DEF ToSet
<1>3. s \in Bijection(1..n, T)
  <2>1. s \in [1..n -> T]
    <3>1. s = [i \in 1..n |-> s[i]]
      BY <1>1, LenProperties DEF Array
    <3> QED
      BY <1>2, <3>1
  <2>2. \A i, j \in 1..n : s[i] = s[j] => i = j
    BY DEF Array, Distinct
  <2>3. \A t \in T : \E i \in 1..n : s[i] = t
    BY <1>2
  <2> HIDE DEF T, n
  <2> QED
    BY <2>1, <2>2, <2>3 DEF Bijection, Injection, Surjection, IsInjective
<1>4. ExistsBijection(1..n, T)
  BY <1>3 DEF ExistsBijection
<1> HIDE DEF T
<1>5. Cardinality(T) = n /\ IsFiniteSet(T)
  BY <1>1, <1>4, FS_CountingElements, FS_NatBijection
<1>6. r \in [1..n -> T] /\ \A i, j \in 1..n : i # j => r[i] # r[j]
  BY <1>5 DEF SetToSeqs, T
<1>7. Cardinality(1..n) = n /\ IsFiniteSet(1..n)
  BY <1>1, FS_Interval
<1>8. r \in Injection(1..n, T)
  <2> HIDE DEF n
  <2> QED
    BY <1>6 DEF Injection, IsInjective
<1>9. r \in Surjection(1..n, T)
  <2> HIDE DEF n
  <2> QED
    BY <1>5, <1>7, <1>8, FS_Injection
<1>10. \A i \in 1..n : \E j \in 1..n : r[i] = s[j]
  BY <1>2, <1>6
<1>11. \A j \in 1..n : \E i \in 1..n : s[j] = r[i]
  <2>1. \A t \in T : \E i \in 1..n : r[i] = t
    BY <1>9 DEF Surjection
  <2> QED
    BY <1>2, <2>1
<1>12. r \in Seq(Candidate) /\ Len(r) = n
  <2>1. r \in [1..n -> Candidate]
    BY <1>1, <1>2, <1>6
  <2> HIDE DEF n
  <2> QED
    BY <1>1, <2>1
<1>13. r # << >>
  BY <1>1, <1>12, EmptySeq
<1>14. \A i, j \in 1..n : r[i].id = r[j].id => i = j
  <2> SUFFICES ASSUME NEW i \in 1..n, NEW j \in 1..n, r[i].id = r[j].id PROVE i = j
    OBVIOUS
  <2>1. PICK a \in 1..n : r[i] = s[a]
    BY <1>10
  <2>2. PICK b \in 1..n : r[j] = s[b]
    BY <1>10
  <2>3. a = b
    BY <2>1, <2>2 DEF Array, Distinct
  <2> QED
    BY <1>6, <2>1, <2>2, <2>3
<1> HIDE DEF n
<1>15. Array(r)
  BY <1>12, <1>13, <1>14 DEF Array, Distinct
<1> QED
  BY <1>10, <1>11, <1>12, <1>15 DEF Reorders, n

LEMMA SameArrayReorders == ASSUME NEW s, Array(s) PROVE Reorders(s, s)
BY DEF Reorders

LEMMA SortReorders ==
  ASSUME NEW s, Array(s), sorted \in BOOLEAN, NEW r \in Sort(s)
  PROVE  Reorders(r, s) /\ (sorted => r = s) /\ (~sorted => Descending(r))
<1>1. CASE sorted
  BY <1>1, SameArrayReorders DEF Sort
<1>2. CASE ~sorted
  BY <1>2, OrdersReorder DEF Sort, SortedOrders
<1> QED
  BY <1>1, <1>2

(* A cut keeps the first k candidates of an array.                          *)
LEMMA CutFacts ==
  ASSUME NEW r, Array(r), NEW k \in 1..Len(r)
  PROVE  /\ Array(SubSeq(r, 1, k)) /\ Len(SubSeq(r, 1, k)) = k
         /\ \A i \in 1..k : SubSeq(r, 1, k)[i] = r[i]
<1>1. Len(r) \in Nat \ {0} /\ \A i \in 1..Len(r) : r[i] \in Candidate
  BY ArrayFacts
<1>2. k \in Nat \ {0} /\ \A i \in 1..k : r[i] \in Candidate /\ i \in 1..Len(r)
  BY <1>1
<1> DEFINE c == SubSeq(r, 1, k)
<1>3. /\ c \in Seq(Candidate) /\ Len(c) = IF 1 <= k THEN k - 1 + 1 ELSE 0
      /\ \A i \in 1..(k - 1 + 1) : c[i] = r[1 + i - 1]
  BY <1>2, SubSeqProperties
<1>4. /\ c \in Seq(Candidate) /\ Len(c) = k /\ \A i \in 1..k : c[i] = r[i]
  <2> HIDE DEF c
  <2> QED
    BY <1>2, <1>3
<1> HIDE DEF c
<1>5. c # << >>
  BY <1>2, <1>4, EmptySeq
<1>6. Distinct(c)
  BY <1>2, <1>4 DEF Array, Distinct
<1> QED
  BY <1>4, <1>5, <1>6 DEF Array, c

(* The elements of a candidate array are as many as its ids.                *)
LEMMA IdsAreDistinct ==
  ASSUME NEW s, Array(s)
  PROVE  Cardinality(IdsOf(s)) = Len(s) /\ IdsOf(s) # {} /\ IdsOf(s) \subseteq Ids
<1> DEFINE n == Len(s)
<1> DEFINE ids == [i \in 1..n |-> s[i].id]
<1> DEFINE T == IdsOf(s)
<1>1. n \in Nat \ {0} /\ \A i \in 1..n : s[i].id \in Ids
  BY ArrayFacts
<1>2. T = {s[i].id : i \in 1..n}
  BY DEF IdsOf
<1>3. \A i, j \in 1..n : s[i].id = s[j].id => i = j
  BY DEF Array, Distinct
<1> HIDE DEF n, T
<1>4. ids \in Bijection(1..n, T)
  <2>1. ids \in [1..n -> T]
    BY <1>2
  <2>2. \A i, j \in 1..n : ids[i] = ids[j] => i = j
    BY <1>3
  <2>3. \A t \in T : \E i \in 1..n : ids[i] = t
    BY <1>2
  <2> HIDE DEF ids
  <2> QED
    BY <2>1, <2>2, <2>3 DEF Bijection, Injection, Surjection, IsInjective
<1>5. ExistsBijection(1..n, T)
  BY <1>4 DEF ExistsBijection
<1>6. Cardinality(T) = n
  BY <1>1, <1>5, FS_CountingElements, FS_NatBijection
<1>7. T # {} /\ T \subseteq Ids
  <2>1. 1 \in 1..n
    BY <1>1
  <2> QED
    BY <1>1, <1>2, <2>1
<1> QED
  BY <1>6, <1>7 DEF n, T

(* The elements of a set of integers that has a least or a greatest one.    *)
LEMMA LeastIsIn ==
  ASSUME NEW n \in Nat, NEW S \in SUBSET (0..n), S # {}
  PROVE  Min(S) \in S /\ \A x \in S : Min(S) <= x
<1>1. S \in SUBSET Nat
  OBVIOUS
<1>2. PICK m \in S : \A x \in S : m <= x
  BY <1>1, LeastElement
<1> QED
  BY <1>2 DEF Min

(* Where a filter cuts: after one candidate at least, after the last one at *)
(* most.                                                                    *)
LEMMA CutIsInside ==
  ASSUME NEW n \in Nat \ {0}, NEW S \in SUBSET (1..n)
  PROVE  FirstOr(S, n) \in 1..n
<1>1. CASE S = {}
  BY <1>1 DEF FirstOr
<1>2. CASE S # {}
  <2>1. S \in SUBSET (0..n)
    OBVIOUS
  <2>2. Min(S) \in S
    BY <1>2, <2>1, LeastIsIn
  <2> QED
    BY <1>2, <2>2 DEF FirstOr
<1> QED
  BY <1>1, <1>2

(* The length of a sequence that is written as a function.                  *)
LEMMA FunctionLen ==
  ASSUME NEW n \in Nat, NEW f, f = [i \in 1..n |-> f[i]]
  PROVE  Len(f) = n /\ DOMAIN f = 1..n
<1> DEFINE T == {f[i] : i \in 1..n}
<1>1. f \in [1..n -> T]
  OBVIOUS
<1> HIDE DEF T
<1> QED
  BY <1>1

LEMMA WeightsLen ==
  ASSUME NEW s, Array(s)
  PROVE  Len(Weights(s)) = Len(s) /\ DOMAIN Weights(s) = 1..Len(s)
<1>1. Len(s) \in Nat /\ DOMAIN s = 1..Len(s)
  BY ArrayFacts
<1>2. Weights(s) = [i \in 1..Len(s) |-> Weights(s)[i]]
  BY <1>1 DEF Weights
<1> QED
  BY <1>1, <1>2, FunctionLen

LEMMA CurvatureLen ==
  ASSUME NEW w, NEW n \in Nat, n > 2, Len(w) = n
  PROVE  Len(Curvature(w)) = n - 2
<1>1. PICK a \in Nat : a = n - 1
  OBVIOUS
<1>2. PICK b \in Nat : b = n - 2 /\ b = a - 1
  BY <1>1
<1>3. Len(Differences(w)) = a
  <2>1. Differences(w) = [i \in 1..a |-> Differences(w)[i]]
    BY <1>1 DEF Differences
  <2> QED
    BY <2>1, FunctionLen
<1> DEFINE d == Differences(Differences(w))
<1>4. Len(d) = b /\ DOMAIN d = 1..b
  <2>1. d = [i \in 1..b |-> d[i]]
    BY <1>2, <1>3 DEF Differences
  <2> HIDE DEF d
  <2> QED
    BY <2>1, FunctionLen
<1>5. Curvature(w) = [i \in 1..b |-> Curvature(w)[i]]
  BY <1>4 DEF Curvature
<1>6. Len(Curvature(w)) = b
  BY <1>5, FunctionLen
<1> QED
  BY <1>2, <1>6

LEMMA PassingIsInside == ASSUME NEW w, NEW th PROVE Passing(w, th) \subseteq 0..(Len(w) - 1)
BY DEF Passing

-----------------------------------------------------------------------------
(* The penalties                                                            *)

Typed ==
  /\ config \in Configs
  /\ logits \in [Ids -> Logits]
  /\ last_tokens \in Windows

LEMMA ConfigFacts ==
  ASSUME Typed
  PROVE  /\ config.repeat_penalty \in Nat \ {0}
         /\ config.frequency_penalty \in Nat /\ config.presence_penalty \in Nat
         /\ config.top_k \in Int /\ config.inv_temp \in Nat /\ config.mirostat \in Nat
         /\ \A id \in Ids : logits[id] \in Int
         /\ NVocab \in Nat \ {0} /\ Denominator \in Nat \ {0} /\ Underflow \in Nat
<1>1. config \in Config
  BY SamplerAssumption DEF Typed
<1>2. \A id \in Ids : logits[id] \in Int
  BY SamplerAssumption DEF Typed
<1> QED
  BY <1>1, <1>2, SamplerAssumption DEF Config

(* Dividing a positive number cannot make it grow, nor negative.            *)
LEMMA QuotientIsSmaller ==
  ASSUME NEW l \in Nat, NEW r \in Nat \ {0}
  PROVE  l \div r \in Nat /\ l \div r <= l
<1> DEFINE q == l \div r
<1>1. q \in Nat /\ l % r \in 0..(r - 1) /\ l = r * q + (l % r)
  BY Division
<1> HIDE DEF q
<1>2. 1 * q <= r * q
  BY <1>1, Monotone
<1>3. r * q \in Nat
  BY <1>1
<1> QED
  BY <1>1, <1>2, <1>3 DEF q

LEMMA ProductOfNegative ==
  ASSUME NEW l \in Int, l <= 0, NEW r \in Nat \ {0}
  PROVE  l * r \in Int /\ l * r <= l
<1>1. PICK m \in Nat : m = -l
  OBVIOUS
<1>2. m * 1 <= m * r
  BY <1>1, Monotone
<1>3. m * r \in Nat /\ l * r = -(m * r)
  BY <1>1
<1> QED
  BY <1>1, <1>2, <1>3

(* What the penalties do to a logit: nothing outside the window, and inside *)
(* it they never raise it.                                                  *)
LEMMA PenaltyFacts ==
  ASSUME Typed, NEW id \in Ids
  PROVE  LET l == Discount(id, Repeat(id, logits[id]))
         IN  /\ l \in Int
             /\ ~InWindow(id) => l = logits[id]
             /\ InWindow(id) => l <= logits[id]
<1> DEFINE x == logits[id]
<1> DEFINE p == config.repeat_penalty
<1> DEFINE y == Repeat(id, x)
<1>1. x \in Int /\ p \in Nat \ {0} /\ config.frequency_penalty \in Nat /\ config.presence_penalty \in Nat
  BY ConfigFacts
<1>2. y \in Int /\ (~InWindow(id) => y = x) /\ (InWindow(id) => y <= x)
  <2>1. CASE ~InWindow(id)
    BY <1>1, <2>1 DEF Repeat
  <2>2. CASE InWindow(id) /\ x <= 0
    <3>1. y = x * p
      BY <2>2 DEF Repeat
    <3> HIDE DEF x, p, y
    <3> QED
      BY <1>1, <2>2, <3>1, ProductOfNegative
  <2>3. CASE InWindow(id) /\ ~(x <= 0)
    <3>1. y = x \div p
      BY <2>3 DEF Repeat
    <3> HIDE DEF x, p, y
    <3> QED
      BY <1>1, <2>3, <3>1, QuotientIsSmaller
  <2> QED
    BY <2>1, <2>2, <2>3
<1>3. Count(id) \in Nat
  <2>1. last_tokens \in Seq(0..NVocab-1)
    BY SamplerAssumption DEF Typed
  <2>2. Len(last_tokens) \in Nat /\ DOMAIN last_tokens = 1..Len(last_tokens)
    BY <2>1, LenProperties
  <2>3. IsFiniteSet(1..Len(last_tokens))
    BY <2>2, FS_Interval
  <2> DEFINE S == {i \in DOMAIN last_tokens : last_tokens[i] = id}
  <2>4. S \in SUBSET (1..Len(last_tokens))
    BY <2>2
  <2>5. IsFiniteSet(S)
    BY <2>3, <2>4, FS_Subset
  <2> QED
    BY <2>5, FS_CardinalityType DEF Count
<1> DEFINE cut == Count(id) * config.frequency_penalty + config.presence_penalty
<1>4. cut \in Nat
  BY <1>1, <1>3
<1>5. Discount(id, y) = IF InWindow(id) THEN y - cut ELSE y
  BY DEF Discount
<1> HIDE DEF x, y, cut
<1>6. /\ Discount(id, y) \in Int
      /\ ~InWindow(id) => Discount(id, y) = x
      /\ InWindow(id) => Discount(id, y) <= x
  BY <1>1, <1>2, <1>4, <1>5
<1> QED
  BY <1>6 DEF x, y

(* The array of penalised candidates, and the array before it.              *)
LEMMA VocabularyArray ==
  ASSUME Typed, NEW f, \A i \in 1..NVocab : f[i] = [id |-> i - 1, logit |-> f[i].logit] /\ f[i].logit \in Int,
         f = [i \in 1..NVocab |-> f[i]]
  PROVE  Array(f) /\ Len(f) = NVocab /\ IdsOf(f) = Ids
<1>1. NVocab \in Nat \ {0}
  BY ConfigFacts
<1>2. \A i \in 1..NVocab : f[i].id = i - 1 /\ f[i] \in Candidate
  <2> SUFFICES ASSUME NEW i \in 1..NVocab PROVE f[i].id = i - 1 /\ f[i] \in Candidate
    OBVIOUS
  <2>1. i - 1 \in Ids
    BY <1>1 DEF Ids
  <2>2. PICK l \in Int : f[i] = [id |-> i - 1, logit |-> l]
    OBVIOUS
  <2> QED
    BY <2>1, <2>2 DEF Candidate
<1>3. f \in [1..NVocab -> Candidate]
  BY <1>2
<1>4. f \in Seq(Candidate) /\ Len(f) = NVocab
  BY <1>1, <1>3
<1>5. f # << >>
  BY <1>1, <1>4, EmptySeq
<1>6. Distinct(f)
  BY <1>1, <1>2, <1>4 DEF Distinct
<1>7. IdsOf(f) = Ids
  <2>1. IdsOf(f) = {i - 1 : i \in 1..NVocab}
    BY <1>2, <1>4 DEF IdsOf
  <2>2. \A id \in Ids : id + 1 \in 1..NVocab /\ id = (id + 1) - 1
    BY <1>1 DEF Ids
  <2>3. \A i \in 1..NVocab : i - 1 \in Ids
    BY <1>1 DEF Ids
  <2> QED
    BY <2>1, <2>2, <2>3
<1> QED
  BY <1>4, <1>5, <1>6, <1>7 DEF Array

LEMMA PenalisedArray ==
  ASSUME Typed
  PROVE  /\ Array(Penalised) /\ Len(Penalised) = NVocab /\ IdsOf(Penalised) = Ids
         /\ \A id \in Ids : Score(id) = Discount(id, Repeat(id, logits[id])) /\ Score(id) \in Int
         /\ \A i \in 1..NVocab : Penalised[i].id = i - 1 /\ Penalised[i].logit = Score(i - 1)
<1>1. NVocab \in Nat \ {0}
  BY ConfigFacts
<1>2. ASSUME NEW i \in 1..NVocab
      PROVE  /\ Penalised[i] = [id |-> i - 1, logit |-> Penalised[i].logit]
             /\ Penalised[i].logit = Discount(i - 1, Repeat(i - 1, logits[i - 1]))
             /\ Penalised[i].logit \in Int
  <2>1. i - 1 \in Ids
    BY <1>1 DEF Ids
  <2>2. PICK id \in Ids : id = i - 1
    BY <2>1
  <2>3. Discount(id, Repeat(id, logits[id])) \in Int
    BY PenaltyFacts
  <2>4. Penalised[i] = [id |-> id, logit |-> Discount(id, Repeat(id, logits[id]))]
    BY <2>2 DEF Penalised
  <2> QED
    BY <2>2, <2>3, <2>4
<1>3. Penalised = [i \in 1..NVocab |-> Penalised[i]]
  BY DEF Penalised
<1>4. Array(Penalised) /\ Len(Penalised) = NVocab /\ IdsOf(Penalised) = Ids
  BY <1>2, <1>3, VocabularyArray
<1>5. ASSUME NEW id \in Ids
      PROVE  Score(id) = Discount(id, Repeat(id, logits[id])) /\ Score(id) \in Int
  <2>1. PICK i \in 1..NVocab : i = id + 1 /\ id = i - 1
    BY <1>1 DEF Ids
  <2> QED
    BY <1>2, <2>1 DEF Score
<1>6. ASSUME NEW i \in 1..NVocab
      PROVE  Penalised[i].id = i - 1 /\ Penalised[i].logit = Score(i - 1)
  <2>1. (i - 1) + 1 = i
    BY <1>1
  <2>2. PICK l : Penalised[i] = [id |-> i - 1, logit |-> l]
    BY <1>2
  <2>3. Penalised[i].id = i - 1
    BY <2>2
  <2> QED
    BY <2>1, <2>3 DEF Score
<1> QED
  BY <1>4, <1>5, <1>6

-----------------------------------------------------------------------------
(* Arrays in the order of the scores                                        *)

Scores == [id \in Ids |-> Score(id)]

Scored(s, p) == \A i \in 1..Len(s) : s[i].logit = p[s[i].id]
BestFirst(s, p) == \A i, j \in 1..Len(s) : i < j => p[s[i].id] >= p[s[j].id]
KeptBest(ids, p) == \A kept \in ids, dropped \in Ids \ ids : p[kept] >= p[dropped]

LEMMA ReorderKeeps ==
  ASSUME NEW s, Array(s), NEW r, Reorders(r, s), NEW p
  PROVE  /\ IdsOf(r) = IdsOf(s)
         /\ Scored(s, p) => Scored(r, p)
<1>1. Len(r) = Len(s)
  BY DEF Reorders
<1>2. IdsOf(r) = IdsOf(s)
  <2>1. \A i \in 1..Len(r) : \E j \in 1..Len(s) : r[i].id = s[j].id
    BY DEF Reorders
  <2>2. \A j \in 1..Len(s) : \E i \in 1..Len(r) : s[j].id = r[i].id
    BY DEF Reorders
  <2>3. IdsOf(r) \subseteq IdsOf(s)
    BY <2>1 DEF IdsOf
  <2>4. IdsOf(s) \subseteq IdsOf(r)
    BY <2>2 DEF IdsOf
  <2> QED
    BY <2>3, <2>4
<1>3. Scored(s, p) => Scored(r, p)
  BY DEF Reorders, Scored
<1> QED
  BY <1>2, <1>3

LEMMA DescendingIsBestFirst ==
  ASSUME NEW r, Array(r), Descending(r), NEW p, Scored(r, p)
  PROVE  BestFirst(r, p)
<1>1. DOMAIN r = 1..Len(r)
  BY ArrayFacts
<1> QED
  BY <1>1 DEF Descending, Scored, BestFirst

(* Cutting an array that is in order drops no candidate that scores higher  *)
(* than one it keeps.                                                       *)
LEMMA CutKeeps ==
  ASSUME NEW r, Array(r), NEW k \in 1..Len(r), NEW p, \A id \in Ids : p[id] \in Int
  PROVE  LET c == SubSeq(r, 1, k)
         IN  /\ Array(c)
             /\ Scored(r, p) => Scored(c, p)
             /\ BestFirst(r, p) => BestFirst(c, p)
             /\ BestFirst(r, p) /\ KeptBest(IdsOf(r), p) => KeptBest(IdsOf(c), p)
<1> DEFINE c == SubSeq(r, 1, k)
<1>1. Array(c) /\ Len(c) = k /\ \A i \in 1..k : c[i] = r[i]
  BY CutFacts
<1>2. Len(r) \in Nat \ {0} /\ (\A i \in 1..Len(r) : r[i].id \in Ids) /\ \A i \in 1..k : i \in 1..Len(r)
  BY ArrayFacts
<1> HIDE DEF c
<1>3. Scored(r, p) => Scored(c, p)
  BY <1>1, <1>2 DEF Scored
<1>4. BestFirst(r, p) => BestFirst(c, p)
  BY <1>1, <1>2 DEF BestFirst
<1>5. ASSUME BestFirst(r, p), KeptBest(IdsOf(r), p) PROVE KeptBest(IdsOf(c), p)
  <2> SUFFICES ASSUME NEW a \in IdsOf(c), NEW b \in Ids \ IdsOf(c) PROVE p[a] >= p[b]
    BY DEF KeptBest
  <2>1. PICK i \in 1..k : a = r[i].id /\ i \in 1..Len(r)
    BY <1>1, <1>2 DEF IdsOf
  <2>2. CASE b \in IdsOf(r)
    <3>1. PICK j \in 1..Len(r) : b = r[j].id
      BY <2>2 DEF IdsOf
    <3>2. j \notin 1..k
      BY <1>1, <3>1 DEF IdsOf
    <3>3. i < j
      BY <1>2, <2>1, <3>2
    <3> QED
      BY <1>5, <2>1, <3>1, <3>3 DEF BestFirst
  <2>3. CASE b \notin IdsOf(r)
    <3>1. a \in IdsOf(r)
      BY <2>1 DEF IdsOf
    <3> QED
      BY <1>5, <2>3, <3>1 DEF KeptBest
  <2> QED
    BY <2>2, <2>3
<1> QED
  BY <1>1, <1>3, <1>4, <1>5 DEF c

(* The first candidate of such an array has the greatest score of all.      *)
LEMMA FirstIsBest ==
  ASSUME NEW s, Array(s), NEW p, \A id \in Ids : p[id] \in Int,
         BestFirst(s, p), KeptBest(IdsOf(s), p)
  PROVE  s[1].id \in Ids /\ \A id \in Ids : p[s[1].id] >= p[id]
<1>1. Len(s) \in Nat \ {0} /\ \A i \in 1..Len(s) : s[i].id \in Ids
  BY ArrayFacts
<1>2. 1 \in 1..Len(s)
  BY <1>1
<1>3. ASSUME NEW id \in Ids PROVE p[s[1].id] >= p[id]
  <2>1. CASE id \in IdsOf(s)
    <3>1. PICK j \in 1..Len(s) : id = s[j].id
      BY <2>1 DEF IdsOf
    <3>2. CASE j = 1
      BY <1>1, <1>2, <3>1, <3>2
    <3>3. CASE j # 1
      <4>1. 1 < j
        BY <1>1, <3>3
      <4> QED
        BY <1>2, <3>1, <4>1 DEF BestFirst
    <3> QED
      BY <3>2, <3>3
  <2>2. CASE id \notin IdsOf(s)
    <3>1. s[1].id \in IdsOf(s)
      BY <1>2 DEF IdsOf
    <3> QED
      BY <2>2, <3>1 DEF KeptBest
  <2> QED
    BY <2>1, <2>2
<1> QED
  BY <1>1, <1>2, <1>3

-----------------------------------------------------------------------------
(* The softmax weight of the first candidate is positive                    *)

LEMMA PowerOfTwoIsPositive ==
  ASSUME NEW n \in Nat
  PROVE  PowerOfTwo(n) \in Nat \ {0}
<1> DEFINE T == Nat \ {0}
<1> DEFINE step == [k \in 1..n |-> [x \in T |-> 2 * x]]
<1> DEFINE P(f) == [k \in 0..n |-> IF k = 0 THEN 1 ELSE 2 * f[k - 1]]
<1> DEFINE power == CHOOSE f : f = P(f)
<1>1. step \in [1..n -> [T -> T]] /\ 1 \in T
  OBVIOUS
<1>2. \A k \in 1..n, x \in T : step[k][x] = 2 * x
  OBVIOUS
<1> HIDE DEF step
<1>3. PICK f : Recursion(f, 1, step, n)
  BY RecursionExists
<1>4. f \in [0..n -> T]
  <2> HIDE DEF T
  <2> QED
    BY <1>1, <1>3, RecursionIsTyped
<1>5. f = P(f)
  <2>1. ASSUME NEW k \in 0..n, k # 0 PROVE step[k][f[k - 1]] = 2 * f[k - 1]
    <3>1. k \in 1..n /\ f[k - 1] \in T
      BY <1>4, <2>1
    <3> HIDE DEF T
    <3> QED
      BY <1>2, <3>1
  <2> HIDE DEF T
  <2> QED
    BY <1>3, <2>1 DEF Recursion
<1>6. power = P(power)
  <2> HIDE DEF P
  <2> QED
    BY <1>5
<1>7. PowerOfTwo(n) = power[n]
  BY DEF PowerOfTwo
<1> HIDE DEF power
<1> DEFINE S == {k \in Nat : k <= n => power[k] \in T}
<1>8. ASSUME NEW k \in 0..n PROVE power[k] = IF k = 0 THEN 1 ELSE 2 * power[k - 1]
  BY <1>6, Zenon
<1>9. 0 \in S
  BY <1>8
<1>10. ASSUME NEW k \in Nat, k \in S PROVE k + 1 \in S
  <2> SUFFICES ASSUME k + 1 <= n PROVE power[k + 1] \in T
    OBVIOUS
  <2>1. PICK j \in 0..n : j = k + 1 /\ j # 0 /\ j - 1 = k
    OBVIOUS
  <2>2. power[k] \in T
    BY <1>10
  <2>3. power[j] = 2 * power[j - 1]
    BY <1>8, <2>1
  <2> QED
    BY <2>1, <2>2, <2>3
<1>11. Nat \subseteq S
  <2> HIDE DEF S
  <2> QED
    BY <1>9, <1>10, SetInduction
<1> QED
  BY <1>7, <1>11

LEMMA FirstHasWeight ==
  ASSUME Typed, NEW l \in Int
  PROVE  Weight(l, l) > 0
<1>1. Underflow \in Nat /\ l - l = 0 /\ ~(l - l > Underflow) /\ Underflow - (l - l) = Underflow
  BY ConfigFacts
<1>2. Weight(l, l) = PowerOfTwo(Underflow)
  BY <1>1 DEF Weight
<1> QED
  BY <1>1, <1>2, PowerOfTwoIsPositive

(* The greatest of a set of integers, when one is known to be it.           *)
LEMMA GreatestIs ==
  ASSUME NEW S \in SUBSET Int, NEW b \in S, \A x \in S : b >= x
  PROVE  Max(S) = b
<1>1. Max(S) \in S /\ \A y \in S : Max(S) >= y
  BY DEF Max
<1>2. Max(S) >= b /\ b >= Max(S) /\ Max(S) \in Int /\ b \in Int
  BY <1>1
<1> QED
  BY <1>2

-----------------------------------------------------------------------------
(* The inductive invariant                                                  *)

Filters == {"tail_free", "typical", "top_p", "temperature"}

(* What the array is at each stage.                                         *)
Staged ==
  /\ pc = "penalise" => IdsOf(data) = Ids
  /\ pc \in {"greedy", "mirostat", "top_k"} => data = Penalised /\ ~sorted
  /\ pc = "greedy" => config.inv_temp = 0
  /\ pc = "mirostat" => config.mirostat # 0
  /\ pc \in Filters => Scored(data, Scores)
  /\ pc \in Filters \cup {"draw"} => sorted
  /\ pc = "draw" => \A i \in 1..Len(data) : data[i].logit = Scores[data[i].id] * config.inv_temp

(* Without sample_typical the array stays in the order of the scores.       *)
Ordered ==
  TypicalOff =>
    /\ KeptBest(IdsOf(data), Scores)
    /\ pc \in Filters \cup {"draw"} => BestFirst(data, Scores)
    /\ DrawnIsPossible

SInv ==
  /\ pc \in {"penalise", "greedy", "mirostat", "top_k", "tail_free", "typical", "top_p",
             "temperature", "draw", "done"}
  /\ Typed
  /\ Array(data)
  /\ sorted \in BOOLEAN
  /\ next_token_id \in IF pc = "done" THEN Ids ELSE {None}
  /\ Staged
  /\ Ordered

LEMMA ArgsStay ==
  ASSUME UNCHANGED args
  PROVE  Penalised' = Penalised /\ Scores' = Scores /\ TypicalOff' = TypicalOff /\ (Typed => Typed')
<1>1. config' = config /\ logits' = logits /\ last_tokens' = last_tokens
  BY DEF args
<1>2. Penalised' = Penalised
  BY <1>1 DEF Penalised, Discount, Repeat, InWindow, Count
<1>3. Scores' = Scores
  BY <1>2 DEF Scores, Score
<1> QED
  BY <1>1, <1>2, <1>3 DEF TypicalOff, Typed

LEMMA ScoresTyped ==
  ASSUME Typed
  PROVE  \A id \in Ids : Scores[id] = Score(id) /\ Scores[id] \in Int
BY PenalisedArray DEF Scores

LEMMA InitSInv == Init => SInv
<1> SUFFICES ASSUME Init PROVE SInv
  OBVIOUS
<1>1. Typed
  BY DEF Init, Typed
<1>2. Array(data) /\ IdsOf(data) = Ids
  <2>1. ASSUME NEW i \in 1..NVocab
        PROVE  data[i] = [id |-> i - 1, logit |-> data[i].logit] /\ data[i].logit \in Int
    <3>1. i - 1 \in Ids
      BY <1>1, ConfigFacts DEF Ids
    <3>2. logits[i - 1] \in Int
      BY <1>1, <3>1, ConfigFacts
    <3>3. data[i] = [id |-> i - 1, logit |-> logits[i - 1]]
      BY DEF Init
    <3> QED
      BY <3>2, <3>3
  <2>2. data = [i \in 1..NVocab |-> data[i]]
    BY DEF Init
  <2> QED
    BY <1>1, <2>1, <2>2, VocabularyArray
<1>3. Staged
  BY <1>2 DEF Init, Staged, Filters
<1>4. Ordered
  BY <1>2 DEF Init, Ordered, Filters, KeptBest, DrawnIsPossible
<1> QED
  BY <1>1, <1>2, <1>3, <1>4 DEF Init, SInv

LEMMA PenaliseKeeps == SInv /\ Penalise => SInv'
<1> SUFFICES ASSUME SInv, Penalise PROVE SInv'
  OBVIOUS
<1>1. UNCHANGED args /\ UNCHANGED next_token_id /\ pc = "penalise" /\ data' = Penalised /\ sorted' = FALSE
      /\ pc' \in {"greedy", "mirostat", "top_k"}
      /\ (pc' = "greedy" => config.inv_temp = 0) /\ (pc' = "mirostat" => config.mirostat # 0)
  BY DEF Penalise
<1>2. config' = config
  BY <1>1 DEF args
<1>3. Typed /\ Typed' /\ Penalised' = Penalised /\ Scores' = Scores
  BY <1>1, ArgsStay DEF SInv
<1>4. Array(data') /\ IdsOf(data') = Ids
  BY <1>1, <1>3, PenalisedArray
<1>5. Staged'
  BY <1>1, <1>2, <1>3 DEF Staged, Filters
<1>6. Ordered'
  <2>1. KeptBest(IdsOf(data'), Scores')
    BY <1>4 DEF KeptBest
  <2> QED
    BY <1>1, <2>1 DEF Ordered, Filters, DrawnIsPossible
<1>7. next_token_id' \in IF pc' = "done" THEN Ids ELSE {None}
  BY <1>1 DEF SInv
<1> QED
  BY <1>1, <1>3, <1>4, <1>5, <1>6, <1>7 DEF SInv

LEMMA GreedyKeeps == SInv /\ Greedy => SInv'
<1> SUFFICES ASSUME SInv, Greedy PROVE SInv'
  OBVIOUS
<1> DEFINE n == Len(data)
<1> DEFINE Top == {j \in DOMAIN data : \A k \in DOMAIN data : data[k].logit <= data[j].logit}
<1> DEFINE tops == {data[i].id : i \in Top}
<1>1. /\ UNCHANGED args /\ UNCHANGED <<data, sorted>> /\ pc = "greedy" /\ pc' = "done"
      /\ next_token_id' = Min(tops)
  BY DEF Greedy
<1>2. config' = config
  BY <1>1 DEF args
<1>3. Typed /\ Typed' /\ Penalised' = Penalised /\ Scores' = Scores /\ TypicalOff' = TypicalOff
  BY <1>1, ArgsStay DEF SInv
<1>4. data = Penalised /\ config.inv_temp = 0 /\ Array(data) /\ n \in Nat \ {0}
      /\ DOMAIN data = 1..n /\ \A i \in 1..n : data[i].id \in Ids /\ data[i].logit \in Int
  BY <1>1, ArrayFacts DEF SInv, Staged
<1> HIDE DEF n
<1>5. Top # {}
  <2> DEFINE f == [k \in 0..(n - 1) |-> data[k + 1].logit]
  <2>1. PICK m \in Nat : m = n - 1 /\ n = m + 1
    BY <1>4
  <2>2. \A k \in 0..m : f[k] \in Int /\ f[k] = data[k + 1].logit /\ k + 1 \in 1..n
    BY <1>4, <2>1
  <2> HIDE DEF f
  <2>3. PICK j \in 0..m : \A k \in 0..m : f[k] <= f[j]
    BY <2>1, <2>2, GreatestValue
  <2>4. ASSUME NEW k \in 1..n PROVE data[k].logit <= data[j + 1].logit
    <3>1. PICK i \in 0..m : k = i + 1
      BY <1>4, <2>1
    <3> QED
      BY <2>2, <2>3, <3>1
  <2>5. j + 1 \in 1..n
    BY <2>2
  <2> QED
    BY <1>4, <2>4, <2>5
<1>6. tops # {} /\ tops \subseteq Ids
  BY <1>4, <1>5
<1>7. next_token_id' \in Ids /\ next_token_id' \in tops
  <2>1. PICK m \in Nat : Ids = 0..m
    BY <1>3, ConfigFacts DEF Ids
  <2> HIDE DEF tops
  <2> QED
    BY <1>1, <1>6, <2>1, LeastIsIn
<1>8. Possible(next_token_id')
  <2>1. PICK i \in Top : next_token_id' = data[i].id
    BY <1>7
  <2> DEFINE b == data[i].id
  <2>2. i \in 1..n /\ \A k \in 1..n : data[k].logit <= data[i].logit
    BY <1>4, <2>1
  <2>3. \A k \in 1..n : data[k].id = k - 1 /\ data[k].logit = Score(k - 1)
    BY <1>3, <1>4, PenalisedArray DEF n
  <2>4. \A id \in Ids : Score(id) \in Int
    BY <1>3, PenalisedArray
  <2>5. b \in Ids
    BY <1>4, <2>2
  <2>6. \A id \in Ids : Score(id) <= Score(b)
    <3>1. Len(Penalised) = NVocab /\ NVocab \in Nat
      BY <1>3, PenalisedArray, ConfigFacts
    <3> SUFFICES ASSUME NEW id \in Ids PROVE Score(id) <= Score(b)
      OBVIOUS
    <3>2. PICK k \in 1..n : id = k - 1
      <4>1. id + 1 \in 1..n /\ id = (id + 1) - 1
        BY <1>4, <3>1 DEF Ids, n
      <4> QED
        BY <4>1
    <3>3. b = i - 1
      BY <2>2, <2>3
    <3> QED
      BY <2>2, <2>3, <3>2, <3>3
  <2> HIDE DEF b
  <2>7. Max({Score(id) : id \in Ids}) = Score(b)
    <3> DEFINE S == {Score(id) : id \in Ids}
    <3>1. Score(b) \in S /\ \A x \in S : x \in Int /\ Score(b) >= x
      BY <2>4, <2>5, <2>6
    <3> HIDE DEF S
    <3> QED
      BY <3>1, GreatestIs DEF S
  <2>8. Score(b) * config.inv_temp = 0
    BY <1>4, <2>4, <2>5
  <2>9. Weight(0, 0) > 0
    BY <1>3, FirstHasWeight
  <2>10. next_token_id' = b
    BY <2>1 DEF b
  <2> QED
    BY <2>7, <2>8, <2>9, <2>10 DEF Possible
<1>9. DrawnIsPossible'
  <2>1. \A x : Possible(x)' = Possible(x)
    BY <1>2, <1>3 DEF Possible, Score
  <2> QED
    BY <1>8, <2>1 DEF DrawnIsPossible
<1>10. Staged'
  BY <1>1 DEF Staged, Filters
<1>11. Ordered'
  <2>1. TypicalOff => KeptBest(IdsOf(data'), Scores')
    BY <1>1, <1>3 DEF SInv, Ordered
  <2> QED
    BY <1>1, <1>3, <1>9, <2>1 DEF Ordered, Filters
<1> QED
  BY <1>1, <1>3, <1>4, <1>7, <1>10, <1>11 DEF SInv

(* What the filters have in common.                                         *)
LEMMA FilteredKeeps ==
  ASSUME SInv, UNCHANGED <<args, next_token_id>>, pc # "done", pc' \in Filters,
         sorted', sorted' \in BOOLEAN, Array(data'), Scored(data', Scores),
         TypicalOff => BestFirst(data', Scores) /\ KeptBest(IdsOf(data'), Scores)
  PROVE  SInv'
<1>1. UNCHANGED args /\ next_token_id' = next_token_id
  OBVIOUS
<1>2. Typed' /\ Scores' = Scores /\ TypicalOff' = TypicalOff
  BY <1>1, ArgsStay DEF SInv
<1>3. next_token_id' = None
  BY <1>1 DEF SInv
<1>4. Staged'
  BY <1>2 DEF Staged, Filters
<1>5. Ordered'
  BY <1>2 DEF Ordered, Filters, DrawnIsPossible
<1> QED
  BY <1>2, <1>3, <1>4, <1>5 DEF SInv, Filters

LEMMA MirostatKeeps == SInv /\ MirostatBranch => SInv'
<1> SUFFICES ASSUME SInv, MirostatBranch PROVE SInv'
  OBVIOUS
<1>1. /\ UNCHANGED args /\ UNCHANGED <<data, sorted>> /\ pc = "mirostat" /\ pc' = "done"
      /\ next_token_id' = 0
  BY DEF MirostatBranch
<1>2. Typed /\ Typed' /\ Scores' = Scores /\ TypicalOff' = TypicalOff
  BY <1>1, ArgsStay DEF SInv
<1>3. config' = config /\ config.mirostat # 0
  BY <1>1 DEF SInv, Staged, args
<1>4. 0 \in Ids
  BY <1>2, ConfigFacts DEF Ids
<1>5. Staged'
  BY <1>1 DEF Staged, Filters
<1>6. Ordered'
  BY <1>1, <1>2, <1>3 DEF SInv, Ordered, Filters, DrawnIsPossible
<1> QED
  BY <1>1, <1>2, <1>4, <1>5, <1>6 DEF SInv

LEMMA ClampIsInside ==
  ASSUME Typed, Array(data)
  PROVE  ClampK \in 1..Len(data)
<1> DEFINE n == Len(data)
<1>1. n \in Nat \ {0} /\ config.top_k \in Int
  BY ArrayFacts, ConfigFacts
<1> DEFINE k == Max({config.top_k, MinKeep})
<1>2. k \in Int /\ k >= 1
  <2>1. CASE config.top_k >= 1
    <3> DEFINE S == {config.top_k, MinKeep}
    <3>1. S \in SUBSET Int /\ config.top_k \in S /\ \A x \in S : config.top_k >= x
      BY <1>1, <2>1 DEF MinKeep
    <3> HIDE DEF S
    <3>2. Max(S) = config.top_k
      BY <3>1, GreatestIs
    <3> QED
      BY <1>1, <2>1, <3>2 DEF S
  <2>2. CASE ~(config.top_k >= 1)
    <3> DEFINE S == {config.top_k, MinKeep}
    <3>1. S \in SUBSET Int /\ 1 \in S /\ \A x \in S : 1 >= x
      BY <1>1, <2>2 DEF MinKeep
    <3> HIDE DEF S
    <3>2. Max(S) = 1
      BY <3>1, GreatestIs
    <3> QED
      BY <3>2 DEF S
  <2> QED
    BY <2>1, <2>2
<1> HIDE DEF k, n
<1>3. PICK m \in {k, n} : \A x \in {k, n} : m <= x
  BY <1>1, <1>2
<1>4. Min({k, n}) \in {k, n} /\ \A x \in {k, n} : Min({k, n}) <= x
  BY <1>3 DEF Min
<1>5. Min({k, n}) \in 1..n
  BY <1>1, <1>2, <1>4
<1> QED
  BY <1>5 DEF ClampK, k, n

LEMMA TopKKeeps == SInv /\ SampleTopK => SInv'
<1> SUFFICES ASSUME SInv, SampleTopK PROVE SInv'
  OBVIOUS
<1>1. /\ UNCHANGED <<args, next_token_id>> /\ pc = "top_k" /\ pc' = "tail_free" /\ sorted' = TRUE
  BY DEF SampleTopK
<1>2. PICK s \in Sort(data) : data' = SubSeq(s, 1, ClampK)
  BY DEF SampleTopK
<1>3. Typed /\ Array(data) /\ data = Penalised /\ ~sorted /\ sorted \in BOOLEAN
  BY <1>1 DEF SInv, Staged
<1>4. Reorders(s, data) /\ Descending(s)
  BY <1>2, <1>3, SortReorders
<1>5. Array(s) /\ Len(s) = Len(data)
  BY <1>4 DEF Reorders
<1>6. \A id \in Ids : Scores[id] = Score(id) /\ Scores[id] \in Int
  BY <1>3, ScoresTyped
<1>7. Scored(data, Scores)
  <2>1. \A i \in 1..Len(data) : data[i].id = i - 1 /\ data[i].logit = Score(i - 1) /\ data[i].id \in Ids
    BY <1>3, PenalisedArray, ArrayFacts
  <2> QED
    BY <1>6, <2>1 DEF Scored
<1>8. Scored(s, Scores) /\ IdsOf(s) = Ids
  <2>1. IdsOf(data) = Ids
    BY <1>3, PenalisedArray
  <2> QED
    BY <1>3, <1>4, <1>7, <2>1, ReorderKeeps
<1>9. BestFirst(s, Scores) /\ KeptBest(IdsOf(s), Scores)
  BY <1>4, <1>5, <1>8, DescendingIsBestFirst DEF KeptBest
<1>10. ClampK \in 1..Len(s)
  BY <1>3, <1>5, ClampIsInside
<1>11. /\ Array(data') /\ Scored(data', Scores)
       /\ BestFirst(data', Scores) /\ KeptBest(IdsOf(data'), Scores)
  BY <1>2, <1>5, <1>6, <1>8, <1>9, <1>10, CutKeeps
<1> QED
  BY <1>1, <1>11, FilteredKeeps DEF Filters

(* A filter that leaves the array, and one that cuts it, as tail-free and   *)
(* top-p do.                                                                *)
LEMMA SkippedKeeps ==
  ASSUME SInv, UNCHANGED <<args, data, sorted, next_token_id>>, pc \in Filters, pc' \in Filters
  PROVE  SInv'
<1>1. sorted /\ sorted \in BOOLEAN /\ Array(data) /\ Scored(data, Scores)
      /\ (TypicalOff => BestFirst(data, Scores) /\ KeptBest(IdsOf(data), Scores))
  BY DEF SInv, Staged, Ordered
<1> QED
  BY <1>1, FilteredKeeps DEF Filters

LEMMA CutterKeeps ==
  ASSUME SInv, UNCHANGED <<args, next_token_id>>, pc \in Filters, pc' \in Filters, sorted' = TRUE,
         NEW k \in 1..Len(data), data' = SubSeq(data, 1, k)
  PROVE  SInv'
<1>1. Typed /\ Array(data) /\ Scored(data, Scores)
      /\ (TypicalOff => BestFirst(data, Scores) /\ KeptBest(IdsOf(data), Scores))
  BY DEF SInv, Staged, Ordered
<1>2. \A id \in Ids : Scores[id] \in Int
  BY <1>1, ScoresTyped
<1>3. /\ Array(data') /\ Scored(data', Scores)
      /\ TypicalOff => BestFirst(data', Scores) /\ KeptBest(IdsOf(data'), Scores)
  BY <1>1, <1>2, CutKeeps
<1> QED
  BY <1>3, FilteredKeeps DEF Filters

LEMMA TailFreeKeeps == SInv /\ SampleTailFree => SInv'
<1> SUFFICES ASSUME SInv, SampleTailFree PROVE SInv'
  OBVIOUS
<1>1. UNCHANGED <<args, next_token_id>> /\ pc = "tail_free" /\ pc' = "typical"
  BY DEF SampleTailFree
<1>2. pc \in Filters /\ pc' \in Filters /\ sorted /\ Array(data) /\ Len(data) \in Nat \ {0}
  BY <1>1, ArrayFacts DEF SInv, Staged, Filters
<1>3. CASE UNCHANGED <<data, sorted>>
  BY <1>1, <1>2, <1>3, SkippedKeeps
<1>4. CASE ~UNCHANGED <<data, sorted>>
  <2> DEFINE cut == {i \in Passing(Curvature(Weights(data)), config.tfs_z) : i >= MinKeep}
  <2>1. Len(data) > 2 /\ sorted' = TRUE /\ data' = SubSeq(data, 1, FirstOr(cut, Len(data)))
    <3>1. ~(config.tfs_z >= Denominator \/ Len(data) <= 2) /\ Sort(data) = {data}
      BY <1>2, <1>4 DEF SampleTailFree, Sort
    <3>2. sorted' = TRUE /\ data' = SubSeq(data, 1, FirstOr(cut, Len(data)))
      BY <3>1, Zenon DEF SampleTailFree
    <3> QED
      BY <1>2, <3>1, <3>2
  <2>2. Len(Weights(data)) = Len(data)
    BY <1>2, WeightsLen
  <2>3. Len(Curvature(Weights(data))) = Len(data) - 2
    BY <1>2, <2>1, <2>2, CurvatureLen
  <2>4. cut \in SUBSET (1..Len(data))
    BY <1>2, <2>3, PassingIsInside DEF MinKeep
  <2> HIDE DEF cut
  <2>5. FirstOr(cut, Len(data)) \in 1..Len(data)
    BY <1>2, <2>4, CutIsInside
  <2> QED
    BY <1>1, <1>2, <2>1, <2>5, CutterKeeps
<1> QED
  BY <1>3, <1>4

LEMMA TopPKeeps == SInv /\ SampleTopP => SInv'
<1> SUFFICES ASSUME SInv, SampleTopP PROVE SInv'
  OBVIOUS
<1>1. UNCHANGED <<args, next_token_id>> /\ pc = "top_p" /\ pc' = "temperature"
  BY DEF SampleTopP
<1>2. pc \in Filters /\ pc' \in Filters /\ sorted /\ Array(data) /\ Len(data) \in Nat \ {0}
  BY <1>1, ArrayFacts DEF SInv, Staged, Filters
<1>3. CASE UNCHANGED <<data, sorted>>
  BY <1>1, <1>2, <1>3, SkippedKeeps
<1>4. CASE ~UNCHANGED <<data, sorted>>
  <2> DEFINE cut == NucleusCut(Weights(data))
  <2>1. sorted' = TRUE /\ data' = SubSeq(data, 1, FirstOr(cut, Len(data)))
    BY <1>2, <1>4 DEF SampleTopP, Sort
  <2>2. Len(Weights(data)) = Len(data)
    BY <1>2, WeightsLen
  <2>3. cut \in SUBSET (1..Len(data))
    BY <1>2, <2>2, PassingIsInside DEF NucleusCut, MinKeep
  <2> HIDE DEF cut
  <2>4. FirstOr(cut, Len(data)) \in 1..Len(data)
    BY <1>2, <2>3, CutIsInside
  <2> QED
    BY <1>1, <1>2, <2>1, <2>4, CutterKeeps
<1> QED
  BY <1>3, <1>4

LEMMA TypicalKeeps == SInv /\ SampleTypical => SInv'
<1> SUFFICES ASSUME SInv, SampleTypical PROVE SInv'
  OBVIOUS
<1>1. UNCHANGED <<args, next_token_id>> /\ pc = "typical" /\ pc' = "top_p"
  BY DEF SampleTypical
<1>2. pc \in Filters /\ pc' \in Filters /\ sorted /\ Array(data) /\ Typed /\ Scored(data, Scores)
  BY <1>1 DEF SInv, Staged, Filters
<1>3. CASE UNCHANGED <<data, sorted>>
  BY <1>1, <1>2, <1>3, SkippedKeeps
<1>4. CASE ~UNCHANGED <<data, sorted>>
  <2>1. ~TypicalOff /\ sorted' = TRUE
    BY <1>4 DEF SampleTypical, TypicalOff
  <2> DEFINE W(s) == [i \in DOMAIN s |-> Weight(data[1].logit, s[i].logit)]
  <2> DEFINE Cut(s) == {i \in Passing(W(s), config.typical_p) : i >= MinKeep - 1}
  <2> DEFINE From(s) == {i + 1 : i \in Cut(s)}
  <2>2. PICK s \in TypicalOrders(data, Weights(data)) : data' = SubSeq(s, 1, FirstOr(From(s), Len(s)))
    BY <1>2, <1>4 DEF SampleTypical, Sort
  <2>3. s \in SetToSeqs(ToSet(data))
    BY <2>2 DEF TypicalOrders
  <2>4. Reorders(s, data)
    BY <1>2, <2>3, OrdersReorder
  <2>5. Array(s) /\ Scored(s, Scores)
    BY <1>2, <2>4, ReorderKeeps DEF Reorders
  <2>6. Len(s) \in Nat \ {0} /\ DOMAIN s = 1..Len(s)
    BY <2>5, ArrayFacts
  <2>7. Len(W(s)) = Len(s)
    <3>1. W(s) = [i \in 1..Len(s) |-> W(s)[i]]
      BY <2>6
    <3> HIDE DEF W
    <3> QED
      BY <2>6, <3>1, FunctionLen
  <2>8. Cut(s) \subseteq 0..(Len(s) - 1)
    <3> HIDE DEF W
    <3> QED
      BY <2>7, PassingIsInside
  <2> HIDE DEF Cut
  <2>9. From(s) \in SUBSET (1..Len(s))
    BY <2>6, <2>8
  <2> HIDE DEF From
  <2>10. FirstOr(From(s), Len(s)) \in 1..Len(s)
    BY <2>6, <2>9, CutIsInside
  <2>11. \A id \in Ids : Scores[id] \in Int
    BY <1>2, ScoresTyped
  <2>12. Array(data') /\ Scored(data', Scores)
    BY <2>2, <2>5, <2>10, <2>11, CutKeeps
  <2> QED
    BY <1>1, <1>2, <2>1, <2>12, FilteredKeeps DEF Filters
<1> QED
  BY <1>3, <1>4

LEMMA TemperatureKeeps == SInv /\ SampleTemperature => SInv'
<1> SUFFICES ASSUME SInv, SampleTemperature PROVE SInv'
  OBVIOUS
<1> DEFINE n == Len(data)
<1>1. /\ UNCHANGED args /\ UNCHANGED <<sorted, next_token_id>> /\ pc = "temperature" /\ pc' = "draw"
      /\ data' = [i \in DOMAIN data |-> [data[i] EXCEPT !.logit = @ * config.inv_temp]]
  BY DEF SampleTemperature
<1>2. config' = config
  BY <1>1 DEF args
<1>3. Typed /\ Typed' /\ Scores' = Scores /\ TypicalOff' = TypicalOff
  BY <1>1, ArgsStay DEF SInv
<1>4. Array(data) /\ sorted /\ Scored(data, Scores)
  BY <1>1 DEF SInv, Staged, Filters
<1>5. n \in Nat \ {0} /\ DOMAIN data = 1..n /\ config.inv_temp \in Nat
      /\ \A i \in 1..n : data[i] \in Candidate /\ data[i].id \in Ids /\ data[i].logit \in Int
  BY <1>3, <1>4, ArrayFacts, ConfigFacts
<1> HIDE DEF n
<1>6. ASSUME NEW i \in 1..n
      PROVE  /\ data'[i] \in Candidate /\ data'[i].id = data[i].id
             /\ data'[i].logit = Scores[data[i].id] * config.inv_temp
  <2>1. data[i].logit * config.inv_temp \in Int
    BY <1>5
  <2>2. PICK id \in Ids, l \in Int : data[i] = [id |-> id, logit |-> l] /\ l * config.inv_temp \in Int
    BY <1>5, <2>1 DEF Candidate
  <2>3. data'[i] = [data[i] EXCEPT !.logit = @ * config.inv_temp]
    BY <1>1, <1>5
  <2>4. data'[i] = [id |-> id, logit |-> l * config.inv_temp]
    BY <2>2, <2>3
  <2>5. l = Scores[id]
    BY <1>4, <2>2 DEF Scored, n
  <2> QED
    BY <2>2, <2>4, <2>5 DEF Candidate
<1>7. data' \in Seq(Candidate) /\ Len(data') = n /\ data' # << >>
  <2>1. data' = [i \in 1..n |-> data'[i]]
    BY <1>1, <1>5
  <2>2. data' \in [1..n -> Candidate]
    BY <1>6, <2>1
  <2>3. data' \in Seq(Candidate) /\ Len(data') = n
    BY <1>5, <2>2
  <2> QED
    BY <1>5, <2>3, EmptySeq
<1>8. Array(data')
  BY <1>4, <1>6, <1>7 DEF Array, Distinct, n
<1>9. IdsOf(data') = IdsOf(data)
  BY <1>6, <1>7 DEF IdsOf, n
<1>10. Staged'
  BY <1>1, <1>2, <1>3, <1>4, <1>6, <1>7 DEF Staged, Filters
<1>11. Ordered'
  <2>1. TypicalOff => BestFirst(data', Scores) /\ KeptBest(IdsOf(data'), Scores)
    <3> SUFFICES ASSUME TypicalOff PROVE BestFirst(data', Scores) /\ KeptBest(IdsOf(data'), Scores)
      OBVIOUS
    <3>1. BestFirst(data, Scores) /\ KeptBest(IdsOf(data), Scores)
      BY <1>1 DEF SInv, Ordered, Filters
    <3> QED
      BY <1>6, <1>7, <1>9, <3>1 DEF BestFirst, n
  <2> QED
    BY <1>1, <1>3, <2>1 DEF Ordered, Filters, DrawnIsPossible
<1> QED
  BY <1>1, <1>3, <1>8, <1>10, <1>11 DEF SInv

LEMMA TokenKeeps == SInv /\ SampleToken => SInv'
<1> SUFFICES ASSUME SInv, SampleToken PROVE SInv'
  OBVIOUS
<1> DEFINE n == Len(data)
<1>1. UNCHANGED args /\ pc = "draw" /\ pc' = "done" /\ sorted' = TRUE
  BY DEF SampleToken
<1>2. config' = config
  BY <1>1 DEF args
<1>3. Typed /\ Typed' /\ Penalised' = Penalised /\ Scores' = Scores /\ TypicalOff' = TypicalOff
  BY <1>1, ArgsStay DEF SInv
<1>4. Array(data) /\ sorted /\ \A i \in 1..n : data[i].logit = Scores[data[i].id] * config.inv_temp
  BY <1>1 DEF SInv, Staged
<1>5. n \in Nat \ {0} /\ DOMAIN data = 1..n /\ \A i \in 1..n : data[i].id \in Ids
  BY <1>4, ArrayFacts
<1>6. data' = data /\ \E i \in Drawable(data) : next_token_id' = data[i].id
  BY <1>4 DEF SampleToken, Sort
<1>7. PICK i \in 1..n : next_token_id' = data[i].id /\ Weight(data[1].logit, data[i].logit) > 0
  BY <1>5, <1>6 DEF Drawable, Weights
<1> HIDE DEF n
<1>8. next_token_id' \in Ids
  BY <1>5, <1>7
<1>9. TypicalOff => Possible(next_token_id')
  <2> SUFFICES ASSUME TypicalOff PROVE Possible(next_token_id')
    OBVIOUS
  <2> DEFINE b == data[1].id
  <2>1. \A id \in Ids : Scores[id] = Score(id) /\ Scores[id] \in Int
    BY <1>3, ScoresTyped
  <2>2. b \in Ids /\ \A id \in Ids : Scores[b] >= Scores[id]
    <3>1. BestFirst(data, Scores) /\ KeptBest(IdsOf(data), Scores)
      BY <1>1 DEF SInv, Ordered
    <3> QED
      BY <1>4, <2>1, <3>1, FirstIsBest
  <2>3. data[1].logit = Score(b) * config.inv_temp
    BY <1>4, <1>5, <2>1, <2>2 DEF n
  <2>4. data[i].logit = Score(next_token_id') * config.inv_temp
    BY <1>4, <1>7, <1>8, <2>1 DEF n
  <2> HIDE DEF b
  <2>5. Max({Score(id) : id \in Ids}) = Score(b)
    <3> DEFINE S == {Score(id) : id \in Ids}
    <3>1. S \in SUBSET Int /\ Score(b) \in S /\ \A x \in S : Score(b) >= x
      BY <2>1, <2>2
    <3> HIDE DEF S
    <3> QED
      BY <3>1, GreatestIs DEF S
  <2> QED
    BY <1>7, <2>3, <2>4, <2>5 DEF Possible
<1>10. Staged'
  BY <1>1 DEF Staged, Filters
<1>11. Ordered'
  <2>1. \A x : Possible(x)' = Possible(x)
    BY <1>2, <1>3 DEF Possible, Score
  <2>2. TypicalOff => KeptBest(IdsOf(data'), Scores')
    BY <1>3, <1>6 DEF SInv, Ordered
  <2> QED
    BY <1>1, <1>3, <1>9, <2>1, <2>2 DEF Ordered, Filters, DrawnIsPossible
<1> QED
  BY <1>1, <1>3, <1>4, <1>6, <1>8, <1>10, <1>11 DEF SInv

LEMMA NextKeepsSInv == SInv /\ [Next]_vars => SInv'
<1> SUFFICES ASSUME SInv, [Next]_vars PROVE SInv'
  OBVIOUS
<1>1. CASE UNCHANGED vars
  <2>1. UNCHANGED args /\ UNCHANGED <<pc, data, sorted, next_token_id>>
    BY <1>1 DEF vars
  <2>2. Typed' /\ Penalised' = Penalised /\ Scores' = Scores /\ TypicalOff' = TypicalOff
    BY <2>1, ArgsStay DEF SInv
  <2>3. config' = config
    BY <2>1 DEF args
  <2>4. Staged'
    BY <2>1, <2>2, <2>3 DEF SInv, Staged
  <2>5. Ordered'
    BY <2>1, <2>2, <2>3 DEF SInv, Ordered, DrawnIsPossible, Possible, Score
  <2> QED
    BY <2>1, <2>2, <2>4, <2>5 DEF SInv
<1>2. CASE Penalise
  BY <1>2, PenaliseKeeps
<1>3. CASE Greedy
  BY <1>3, GreedyKeeps
<1>4. CASE MirostatBranch
  BY <1>4, MirostatKeeps
<1>5. CASE SampleTopK
  BY <1>5, TopKKeeps
<1>6. CASE SampleTailFree
  BY <1>6, TailFreeKeeps
<1>7. CASE SampleTypical
  BY <1>7, TypicalKeeps
<1>8. CASE SampleTopP
  BY <1>8, TopPKeeps
<1>9. CASE SampleTemperature
  BY <1>9, TemperatureKeeps
<1>10. CASE SampleToken
  BY <1>10, TokenKeeps
<1> QED
  BY <1>1, <1>2, <1>3, <1>4, <1>5, <1>6, <1>7, <1>8, <1>9, <1>10 DEF Next

LEMMA SInvariance == Spec => []SInv
BY InitSInv, NextKeepsSInv, PTL DEF Spec

-----------------------------------------------------------------------------
(* Sums of weights: t[k] is the sum of the first k entries of w             *)

Entries(w, n) == w = [i \in 1..n |-> w[i]] /\ \A i \in 1..n : w[i] \in Int
Sums(t, w, n) ==
  /\ t \in [0..n -> Int]
  /\ t[0] = 0
  /\ \A k \in 1..n : w[k] \in Int /\ t[k] = t[k - 1] + w[k]

LEMMA SumsExist ==
  ASSUME NEW n \in Nat, NEW w, Entries(w, n)
  PROVE  \E t : Sums(t, w, n)
<1> DEFINE step == [k \in 1..n |-> [x \in Int |-> x + w[k]]]
<1>1. step \in [1..n -> [Int -> Int]] /\ 0 \in Int
  BY DEF Entries
<1>2. \A k \in 1..n, x \in Int : step[k][x] = x + w[k]
  OBVIOUS
<1> HIDE DEF step
<1>3. PICK t : Recursion(t, 0, step, n)
  BY RecursionExists
<1>4. t \in [0..n -> Int]
  BY <1>1, <1>3, RecursionIsTyped
<1>5. t[0] = 0
  BY <1>3, RecursionStarts
<1>6. ASSUME NEW k \in 0..n PROVE t[k] = IF k = 0 THEN 0 ELSE step[k][t[k - 1]]
  BY <1>3 DEF Recursion
<1>7. ASSUME NEW k \in 1..n PROVE t[k] = t[k - 1] + w[k]
  <2>1. k \in 0..n /\ k # 0 /\ k - 1 \in 0..n
    OBVIOUS
  <2>2. t[k - 1] \in Int
    BY <1>4, <2>1
  <2> QED
    BY <1>2, <1>6, <2>1, <2>2
<1> QED
  BY <1>4, <1>5, <1>7 DEF Sums, Entries

(* Where two sequences have the same entries their sums grow alike.         *)
LEMMA SumsGrowAlike ==
  ASSUME NEW n \in Nat, NEW w, NEW t, Sums(t, w, n), NEW v, NEW u, Sums(u, v, n),
         NEW a \in 0..n, NEW b \in a..n, \A i \in (a + 1)..b : w[i] = v[i]
  PROVE  t[b] + u[a] = u[b] + t[a]
<1> DEFINE S == {k \in Nat : a + k <= b => t[a + k] + u[a] = u[a + k] + t[a]}
<1>1. \A k \in 0..n : t[k] \in Int /\ u[k] \in Int
  BY DEF Sums
<1>2. a + 0 = a /\ t[a] + u[a] = u[a] + t[a]
  BY <1>1
<1>3. 0 \in S
  BY <1>2
<1>4. ASSUME NEW k \in Nat, k \in S PROVE k + 1 \in S
  <2> SUFFICES ASSUME a + (k + 1) <= b PROVE t[a + (k + 1)] + u[a] = u[a + (k + 1)] + t[a]
    OBVIOUS
  <2>1. PICK i \in Nat : i = a + k
    OBVIOUS
  <2>2. PICK j \in Nat : j = a + (k + 1) /\ j = i + 1 /\ j - 1 = i
    BY <2>1
  <2>3. j \in (a + 1)..b /\ j \in 1..n /\ i \in 0..n /\ j \in 0..n
    BY <2>1, <2>2
  <2>4. t[i] + u[a] = u[i] + t[a]
    BY <1>4, <2>1, <2>2, <2>3
  <2>5. t[j] = t[i] + w[j] /\ u[j] = u[i] + v[j] /\ w[j] = v[j]
    BY <2>2, <2>3 DEF Sums
  <2>6. w[j] \in Int /\  t[i] \in Int /\ u[i] \in Int /\ t[j] \in Int /\ u[j] \in Int /\ t[a] \in Int /\ u[a] \in Int
    BY <1>1, <2>3 DEF Sums
  <2> QED
    BY <2>2, <2>4, <2>5, <2>6
<1>5. Nat \subseteq S
  <2> HIDE DEF S
  <2> QED
    BY <1>3, <1>4, SetInduction
<1>6. PICK k \in Nat : a + k = b
  <2>1. b - a \in Nat /\ a + (b - a) = b
    OBVIOUS
  <2> QED
    BY <2>1
<1>7. k \in S
  BY <1>5
<1> QED
  BY <1>6, <1>7

(* The entries of w at the indices of s, zero elsewhere.                    *)
Masked(w, n, s) == [i \in 1..n |-> IF i \in s THEN w[i] ELSE 0]

LEMMA MaskedEntries ==
  ASSUME NEW n \in Nat, NEW w, Entries(w, n), NEW s
  PROVE  Entries(Masked(w, n, s), n)
BY DEF Entries, Masked

LEMMA NothingAdds ==
  ASSUME NEW n \in Nat, NEW w, NEW t, Sums(t, w, n),
         NEW a \in 0..n, NEW b \in a..n, \A i \in (a + 1)..b : w[i] = 0
  PROVE  t[b] = t[a]
<1> DEFINE z == [k \in 0..n |-> 0]
<1> DEFINE v == [k \in 1..n |-> 0]
<1>1. Sums(z, v, n)
  <2>1. 0 + 0 = 0 /\ \A k \in 1..n : k \in 0..n /\ k - 1 \in 0..n
    OBVIOUS
  <2> QED
    BY <2>1 DEF Sums
<1>2. z[a] = 0 /\ z[b] = 0 /\ \A i \in (a + 1)..b : v[i] = 0
  OBVIOUS
<1> HIDE DEF z, v
<1>3. t[b] + z[a] = z[b] + t[a]
  BY <1>1, <1>2, SumsGrowAlike
<1>4. t[a] \in Int /\ t[b] \in Int
  BY DEF Sums
<1> QED
  BY <1>2, <1>3, <1>4

(* Taking the last index out of a set takes its entry out of the sum.       *)
LEMMA MaskedSum ==
  ASSUME NEW n \in Nat, NEW w, Entries(w, n), NEW s \in SUBSET (1..n),
         NEW m \in s, \A i \in s : i <= m,
         NEW t, Sums(t, Masked(w, n, s), n), NEW u, Sums(u, Masked(w, n, s \ {m}), n)
  PROVE  t[n] = u[n] + w[m]
<1> DEFINE x == Masked(w, n, s)
<1> DEFINE y == Masked(w, n, s \ {m})
<1>1. m \in 1..n /\ m - 1 \in 0..n /\ w[m] \in Int
  BY DEF Entries
<1>2. \A i \in 1..n : i < m => x[i] = y[i]
  BY <1>1 DEF Masked
<1>3. x[m] = w[m] /\ y[m] = 0 /\ \A i \in 1..n : i > m => x[i] = 0 /\ y[i] = 0
  BY <1>1 DEF Masked
<1> HIDE DEF x, y
<1>4. Sums(t, x, n) /\ Sums(u, y, n)
  BY DEF x, y
<1>5. t[m - 1] + u[0] = u[m - 1] + t[0]
  <2>1. 0 \in 0..n /\ m - 1 \in 0..n /\ \A i \in (0 + 1)..(m - 1) : i \in 1..n /\ i < m
    BY <1>1
  <2> QED
    BY <1>2, <1>4, <2>1, SumsGrowAlike
<1>6. t[n] = t[m] /\ u[n] = u[m]
  <2>1. m \in 0..n /\ n \in m..n /\ \A i \in (m + 1)..n : i \in 1..n /\ i > m
    BY <1>1
  <2> QED
    BY <1>3, <1>4, <2>1, NothingAdds
<1>7. t[m] = t[m - 1] + w[m] /\ u[m] = u[m - 1] + 0 /\ t[0] = 0 /\ u[0] = 0
  BY <1>1, <1>3, <1>4 DEF Sums
<1>8. t[m - 1] \in Int /\ u[m - 1] \in Int
  BY <1>1, <1>4 DEF Sums
<1> QED
  BY <1>1, <1>5, <1>6, <1>7, <1>8

(* The fold of the community modules, which takes the greatest index off a  *)
(* set of indices, gives the last of the sums.                              *)
LEMMA TotalIs ==
  ASSUME NEW n \in Nat, NEW w, Entries(w, n), NEW t, Sums(t, w, n)
  PROVE  Total(w) = t[n]
<1> DEFINE Fold(f) == [s \in SUBSET (1..n) |-> IF s = {} THEN 0 ELSE f[s \ {Max(s)}] + w[Max(s)]]
<1> DEFINE it == CHOOSE f : f = Fold(f)
<1>1. DOMAIN w = 1..n
  BY DEF Entries
<1>2. Total(w) = it[1..n]
  BY <1>1 DEF Total, FoldLeft, MapThenFoldSet
<1> HIDE DEF it, Fold
<1> DEFINE Sum(s) == (CHOOSE u : Sums(u, Masked(w, n, s), n))[n]
<1> DEFINE g == [s \in SUBSET (1..n) |-> Sum(s)]
<1>3. \A s \in SUBSET (1..n) : g[s] = Sum(s)
  OBVIOUS
<1>4. ASSUME NEW s \in SUBSET (1..n)
      PROVE  \E u : Sums(u, Masked(w, n, s), n) /\ Sum(s) = u[n]
  <2>1. \E u : Sums(u, Masked(w, n, s), n)
    BY MaskedEntries, SumsExist
  <2> QED
    BY <2>1
<1> HIDE DEF Sum
<1>5. g = [s \in SUBSET (1..n) |-> g[s]]
  OBVIOUS
<1> HIDE DEF g
<1>6. ASSUME NEW s \in SUBSET (1..n), s # {}
      PROVE  Max(s) \in s /\ (\A i \in s : i <= Max(s)) /\ s \ {Max(s)} \in SUBSET (1..n)
  <2>1. s \in SUBSET (0..n)
    OBVIOUS
  <2>2. \E m \in s : \A k \in s : m >= k
    BY <1>6, <2>1, GreatestElement
  <2>3. Max(s) \in s /\ \A k \in s : Max(s) >= k
    BY <2>2 DEF Max
  <2> QED
    BY <2>3
<1>7. ASSUME NEW s \in SUBSET (1..n)
      PROVE  g[s] = IF s = {} THEN 0 ELSE g[s \ {Max(s)}] + w[Max(s)]
  <2>1. PICK x : Sums(x, Masked(w, n, s), n) /\ g[s] = x[n]
    BY <1>3, <1>4
  <2>2. CASE s = {}
    <3>1. PICK v : v = Masked(w, n, s)
      OBVIOUS
    <3>2. 0 \in 0..n /\ n \in 0..n /\ \A i \in (0 + 1)..n : v[i] = 0
      BY <2>2, <3>1 DEF Masked
    <3>3. Sums(x, v, n)
      BY <2>1, <3>1
    <3>4. x[n] = x[0]
      BY <3>2, <3>3, NothingAdds
    <3> QED
      BY <2>1, <2>2, <3>4 DEF Sums
  <2>3. CASE s # {}
    <3>1. PICK m \in s : m = Max(s)
      BY <1>6, <2>3
    <3>2. (\A i \in s : i <= m) /\ s \ {m} \in SUBSET (1..n)
      BY <1>6, <2>3, <3>1
    <3>3. PICK y : Sums(y, Masked(w, n, s \ {m}), n) /\ g[s \ {m}] = y[n]
      BY <1>3, <1>4, <3>2
    <3>4. x[n] = y[n] + w[m]
      BY <2>1, <3>1, <3>2, <3>3, MaskedSum
    <3> QED
      BY <2>1, <2>3, <3>1, <3>3, <3>4
  <2> QED
    BY <2>2, <2>3
<1>8. g = Fold(g)
  BY <1>5, <1>7, Zenon DEF Fold
<1>9. it = Fold(it)
  BY <1>8 DEF it
<1>10. ASSUME NEW s \in SUBSET (1..n)
       PROVE  it[s] = IF s = {} THEN 0 ELSE it[s \ {Max(s)}] + w[Max(s)]
  BY <1>9, Zenon DEF Fold
<1> DEFINE S == {k \in Nat : k <= n => it[1..k] = t[k]}
<1>11. 0 \in S
  <2>1. 1..0 = {} /\ {} \in SUBSET (1..n)
    OBVIOUS
  <2> QED
    BY <1>10, <2>1 DEF Sums
<1>12. ASSUME NEW k \in Nat, k \in S PROVE k + 1 \in S
  <2> SUFFICES ASSUME k + 1 <= n PROVE it[1..(k + 1)] = t[k + 1]
    OBVIOUS
  <2>1. PICK j \in 1..n : j = k + 1 /\ j - 1 = k
    OBVIOUS
  <2> DEFINE s == 1..j
  <2>2. s \in SUBSET (1..n) /\ j \in s /\ \A i \in s : i <= j /\ i \in Int
    <3>1. \A i \in s : i \in 1..n /\ i <= j /\ i \in Int
      BY <2>1
    <3>2. j \in s
      BY <2>1
    <3> QED
      BY <3>1, <3>2
  <2>3. s \ {j} = 1..k
    BY <2>1
  <2> HIDE DEF s
  <2>4. Max(s) = j
    <3>1. PICK m \in s : m = Max(s) /\ j <= m
      BY <1>6, <2>2
    <3>2. m \in Int /\ m <= j
      BY <2>2, <3>1
    <3> QED
      BY <2>1, <3>1, <3>2
  <2>5. it[s] = it[1..k] + w[j]
    BY <1>10, <2>2, <2>3, <2>4
  <2>6. it[1..k] = t[k]
    BY <1>12, <2>1
  <2>7. t[j] = t[k] + w[j]
    BY <2>1 DEF Sums
  <2> QED
    BY <2>1, <2>5, <2>6, <2>7 DEF s
<1>13. Nat \subseteq S
  <2> HIDE DEF S
  <2> QED
    BY <1>11, <1>12, SetInduction
<1>14. n \in S
  BY <1>13
<1> QED
  BY <1>2, <1>14

(* The mass of the first indices, as sample_top_p accumulates it.           *)
LEMMA CumulatedIs ==
  ASSUME NEW n \in Nat, NEW w, Entries(w, n), NEW t, Sums(t, w, n), NEW i \in 1..n
  PROVE  Cumulated(w, i) = t[i]
<1> DEFINE c == SubSeq(w, 1, i)
<1> DEFINE r == [k \in 0..i |-> t[k]]
<1>1. w \in [1..n -> Int]
  BY DEF Entries
<1>2. w \in Seq(Int) /\ Len(w) = n
  BY <1>1
<1>3. i \in Nat /\ \A k \in 1..i : k \in 1..n
  OBVIOUS
<1>4. c \in Seq(Int) /\ Len(c) = i /\ \A k \in 1..i : c[k] = w[k]
  <2>1. \A k \in 1..i : w[k] \in Int
    BY <1>1, <1>3
  <2>2. /\ c \in Seq(Int) /\ Len(c) = IF 1 <= i THEN i - 1 + 1 ELSE 0
        /\ \A k \in 1..(i - 1 + 1) : c[k] = w[1 + k - 1]
    BY <1>3, <2>1, SubSeqProperties
  <2> HIDE DEF c
  <2> QED
    BY <1>3, <2>2
<1> HIDE DEF c
<1>5. Entries(c, i)
  <2>1. c = [k \in 1..i |-> c[k]]
    BY <1>4, LenProperties
  <2>2. \A k \in 1..i : c[k] \in Int
    BY <1>1, <1>3, <1>4
  <2> QED
    BY <2>1, <2>2 DEF Entries
<1>6. Sums(r, c, i)
  <2>1. \A k \in 0..i : k \in 0..n /\ r[k] = t[k] /\ t[k] \in Int
    BY DEF Sums
  <2>2. r \in [0..i -> Int] /\ r[0] = 0
    BY <2>1 DEF Sums
  <2>3. ASSUME NEW k \in 1..i PROVE c[k] \in Int /\ r[k] = r[k - 1] + c[k]
    <3>1. k \in 1..n /\ k \in 0..i /\ k - 1 \in 0..i
      BY <1>3
    <3>2. t[k] = t[k - 1] + w[k] /\ w[k] \in Int
      BY <3>1 DEF Sums
    <3> QED
      BY <1>4, <2>1, <3>1, <3>2
  <2> HIDE DEF r
  <2> QED
    BY <2>2, <2>3 DEF Sums
<1>7. Total(c) = r[i]
  BY <1>3, <1>5, <1>6, TotalIs
<1> QED
  BY <1>3, <1>7 DEF Cumulated, c

LEMMA PrefixSum ==
  ASSUME NEW n \in Nat, NEW w, NEW t, Sums(t, w, n), NEW k \in 0..n,
         NEW u, Sums(u, Masked(w, n, 1..k), n)
  PROVE  u[n] = t[k]
<1> DEFINE x == Masked(w, n, 1..k)
<1>1. (\A i \in (0 + 1)..k : w[i] = x[i]) /\ \A i \in (k + 1)..n : x[i] = 0
  <2>1. ASSUME NEW i \in (0 + 1)..k PROVE i \in 1..n /\ i \in 1..k
    OBVIOUS
  <2>2. ASSUME NEW i \in (k + 1)..n PROVE i \in 1..n /\ i \notin 1..k
    OBVIOUS
  <2> QED
    BY <2>1, <2>2 DEF Masked
<1>2. Sums(u, x, n)
  OBVIOUS
<1> HIDE DEF x
<1>3. 0 \in 0..n /\ k \in 0..k /\ n \in k..n /\ k \in 0..n
  OBVIOUS
<1>4. t[k] + u[0] = u[k] + t[0]
  BY <1>1, <1>2, <1>3, SumsGrowAlike
<1>5. u[n] = u[k]
  BY <1>1, <1>2, <1>3, NothingAdds
<1>6. t[0] = 0 /\ u[0] = 0 /\ t[k] \in Int /\ u[k] \in Int
  BY <1>2, <1>3 DEF Sums
<1> QED
  BY <1>4, <1>5, <1>6

LEMMA WeightTyped ==
  ASSUME Typed, NEW f \in Int, NEW l \in Int
  PROVE  Weight(f, l) \in Int
<1>1. Underflow \in Nat
  BY ConfigFacts
<1>2. CASE f - l > Underflow
  BY <1>2 DEF Weight
<1>3. CASE ~(f - l > Underflow)
  <2>1. PICK m \in Nat : m = Underflow - (f - l)
    BY <1>1, <1>3
  <2>2. PowerOfTwo(m) \in Int
    BY PowerOfTwoIsPositive
  <2> QED
    BY <1>3, <2>1, <2>2 DEF Weight
<1> QED
  BY <1>2, <1>3

LEMMA WeightsEntries ==
  ASSUME Typed, NEW s, Array(s)
  PROVE  /\ Entries(Weights(s), Len(s))
         /\ \A i \in 1..Len(s) : Weights(s)[i] = Weight(s[1].logit, s[i].logit)
<1>1. Len(s) \in Nat \ {0} /\ DOMAIN s = 1..Len(s) /\ \A i \in 1..Len(s) : s[i].logit \in Int
  BY ArrayFacts
<1>2. 1 \in 1..Len(s)
  BY <1>1
<1>3. \A i \in 1..Len(s) : Weights(s)[i] = Weight(s[1].logit, s[i].logit)
  BY <1>1 DEF Weights
<1>4. Weights(s) = [i \in 1..Len(s) |-> Weights(s)[i]]
  BY <1>1 DEF Weights
<1>5. \A i \in 1..Len(s) : Weights(s)[i] \in Int
  BY <1>1, <1>2, <1>3, WeightTyped
<1> QED
  BY <1>3, <1>4, <1>5 DEF Entries

(* The mass of a set of candidates, given by their places in an array that  *)
(* begins with the most likely one.                                         *)
LEMMA MassIs ==
  ASSUME Typed, Array(data), \A i \in 1..Len(data) : data[1].logit >= data[i].logit,
         NEW s \in SUBSET (1..Len(data)),
         NEW u, Sums(u, Masked(Weights(data), Len(data), s), Len(data))
  PROVE  Mass({data[i].id : i \in s}) = u[Len(data)]
<1> DEFINE n == Len(data)
<1> DEFINE W == Weights(data)
<1> DEFINE ids == {data[i].id : i \in s}
<1>1. n \in Nat \ {0} /\ DOMAIN data = 1..n /\ 1 \in 1..n /\ \A i \in 1..n : data[i].logit \in Int
  BY ArrayFacts
<1>2. Max({data[i].logit : i \in DOMAIN data}) = data[1].logit
  <2> DEFINE S == {data[i].logit : i \in DOMAIN data}
  <2>1. S \in SUBSET Int /\ data[1].logit \in S /\ \A x \in S : data[1].logit >= x
    BY <1>1
  <2> HIDE DEF S
  <2> QED
    BY <2>1, GreatestIs DEF S
<1>3. \A i \in 1..n : data[i].id \in ids <=> i \in s
  BY DEF Array, Distinct
<1>4. Entries(W, n) /\ \A i \in 1..n : W[i] = Weight(data[1].logit, data[i].logit)
  BY WeightsEntries
<1> HIDE DEF n, W, ids
<1> DEFINE v == [i \in 1..n |-> IF data[i].id \in ids THEN Weight(data[1].logit, data[i].logit) ELSE 0]
<1>5. v = Masked(W, n, s)
  BY <1>3, <1>4 DEF Masked
<1>6. Mass(ids) = Total(v)
  <2>1. Mass(ids) = Total([i \in 1..n |-> IF data[i].id \in ids
                                         THEN Weight(Max({data[j].logit : j \in 1..n}), data[i].logit) ELSE 0])
    BY <1>1, Zenon DEF Mass
  <2> QED
    BY <1>1, <1>2, <2>1
<1>7. Entries(v, n)
  BY <1>1, <1>4, <1>5, MaskedEntries
<1> HIDE DEF v
<1>8. Sums(u, v, n)
  BY <1>5 DEF n, W
<1>9. Total(v) = u[n]
  BY <1>1, <1>7, <1>8, TotalIs
<1> QED
  BY <1>6, <1>9 DEF ids, n

(* sample_top_p stops before the first candidate, after those it must keep, *)
(* at which the mass passes p.                                              *)
LEMMA NucleusCutFacts ==
  ASSUME NEW n \in Nat \ {0}, NEW w, Entries(w, n), NEW t, Sums(t, w, n), config.top_p \in Int,
         Denominator \in Int
  PROVE  LET k == FirstOr(NucleusCut(w), n)
         IN  /\ k \in 1..n
             /\ k > 1 => t[k] * Denominator <= config.top_p * t[n]
             /\ k < n => t[k + 1] * Denominator > config.top_p * t[n]
<1> DEFINE cut == NucleusCut(w)
<1> DEFINE limit == config.top_p * t[n]
<1>1. Len(w) = n
  BY FunctionLen DEF Entries
<1>2. t[n] = Total(w) /\ \A i \in 1..n : Cumulated(w, i) = t[i] /\ t[i] \in Int
  <2>1. \A i \in 1..n : Cumulated(w, i) = t[i]
    BY CumulatedIs
  <2>2. t[n] = Total(w)
    BY TotalIs
  <2>3. \A i \in 1..n : t[i] \in Int
    BY DEF Sums
  <2> QED
    BY <2>1, <2>2, <2>3
<1>3. limit \in Int /\ limit = config.top_p * Total(w)
  <2>1. t[n] \in Int
    BY <1>2
  <2> QED
    BY <1>2, <2>1
<1>4. ASSUME NEW i \in 1..(n - 1) PROVE i \in cut <=> t[i + 1] * Denominator > limit
  <2>1. i \in 0..(n - 1) /\ i >= 1 /\ i + 1 \in 1..n
    OBVIOUS
  <2>2. i \in cut <=> Cumulated(w, i + 1) * Denominator > config.top_p * Total(w)
    BY <1>1, <2>1 DEF NucleusCut, Passing, MinKeep
  <2> QED
    BY <1>2, <1>3, <2>1, <2>2
<1>5. cut \in SUBSET (1..(n - 1))
  BY <1>1 DEF NucleusCut, Passing, MinKeep
<1> HIDE DEF cut, limit
<1> DEFINE k == FirstOr(cut, n)
<1>6. CASE cut = {}
  <2>1. k = n
    BY <1>6 DEF FirstOr
  <2>2. ASSUME n > 1 PROVE t[n] * Denominator <= limit
    <3>1. PICK i \in 1..(n - 1) : i + 1 = n
      BY <2>2
    <3>2. ~(t[n] * Denominator > limit)
      BY <1>4, <1>6, <3>1
    <3>3. t[n] * Denominator \in Int
      BY <1>2
    <3> QED
      BY <1>3, <3>2, <3>3
  <2> QED
    BY <2>1, <2>2 DEF cut, limit
<1>7. CASE cut # {}
  <2>1. PICK m : m = k /\ m \in cut /\ \A i \in cut : m <= i
    <3>1. cut \in SUBSET (0..n)
      BY <1>5
    <3>2. k = Min(cut)
      BY <1>7 DEF FirstOr
    <3> QED
      BY <1>7, <3>1, <3>2, LeastIsIn
  <2>2. m \in 1..(n - 1)
    BY <1>5, <2>1
  <2>3. t[m + 1] * Denominator > limit
    BY <1>4, <2>1, <2>2
  <2>4. ASSUME m > 1 PROVE t[m] * Denominator <= limit
    <3>1. PICK i \in 1..(n - 1) : i + 1 = m /\ i < m
      BY <2>2, <2>4
    <3>2. i \notin cut
      BY <2>1, <2>2, <3>1
    <3>3. ~(t[m] * Denominator > limit)
      BY <1>4, <3>1, <3>2
    <3>4. t[m] * Denominator \in Int
      BY <1>2, <2>2
    <3> QED
      BY <1>3, <3>3, <3>4
  <2> HIDE DEF k
  <2>5. /\ k \in 1..n
        /\ k > 1 => t[k] * Denominator <= limit
        /\ k < n => t[k + 1] * Denominator > limit
    BY <2>1, <2>2, <2>3, <2>4
  <2> QED
    BY <2>5 DEF k, cut, limit
<1> QED
  BY <1>6, <1>7

(* The kept candidates and the best of the dropped ones.                    *)
LEMMA NucleusStep ==
  ASSUME SInv, TypicalOff, SampleTopP, config.top_p < Denominator
  PROVE  LongestWithin(config.top_p * Mass(KeptIds), {data'[i].id : i \in DOMAIN data'})
<1> DEFINE n == Len(data)
<1> DEFINE W == Weights(data)
<1> DEFINE k == FirstOr(NucleusCut(W), n)
<1>1. pc = "top_p" /\ sorted /\ Typed /\ Array(data) /\ Scored(data, Scores) /\ BestFirst(data, Scores)
  <2>1. pc = "top_p"
    BY DEF SampleTopP
  <2> QED
    BY <2>1 DEF SInv, Staged, Ordered, Filters
<1>2. /\ n \in Nat \ {0} /\ DOMAIN data = 1..n /\ 1 \in 1..n
      /\ \A i \in 1..n : data[i].id \in Ids /\ data[i].logit \in Int
  BY <1>1, ArrayFacts
<1>3. config.top_p \in Int /\ Denominator \in Int
  <2>1. config \in Config /\ Denominator \in Nat
    BY <1>1, SamplerAssumption DEF Typed
  <2>2. config.top_p \in 0..Denominator
    BY <2>1 DEF Config
  <2> QED
    BY <2>1, <2>2
<1>4. data' = SubSeq(data, 1, k)
  <2>1. ~(config.top_p >= Denominator)
    BY <1>3
  <2> QED
    BY <1>1, <2>1 DEF SampleTopP, Sort
<1>5. Entries(W, n) /\ \A i \in 1..n : W[i] = Weight(data[1].logit, data[i].logit)
  BY <1>1, WeightsEntries
<1>6. PICK t : Sums(t, W, n)
  BY <1>2, <1>5, SumsExist
<1>7. /\ k \in 1..n
      /\ k > 1 => t[k] * Denominator <= config.top_p * t[n]
      /\ k < n => t[k + 1] * Denominator > config.top_p * t[n]
  <2> HIDE DEF n, W
  <2> QED
    BY <1>2, <1>3, <1>5, <1>6, NucleusCutFacts
<1>8. Len(data') = k /\ Array(data') /\ \A i \in 1..k : data'[i] = data[i]
  <2> HIDE DEF k
  <2> QED
    BY <1>1, <1>4, <1>7, CutFacts
<1>9. \A i \in 1..n : data[1].logit >= data[i].logit
  <2> SUFFICES ASSUME NEW i \in 1..n, i # 1 PROVE data[1].logit >= data[i].logit
    BY <1>2
  <2>1. 1 < i
    BY <1>2
  <2> QED
    BY <1>1, <1>2, <2>1 DEF BestFirst, Scored
<1> HIDE DEF k
<1>10. \A i \in 1..k : i \in 1..n
  BY <1>2, <1>7
<1> DEFINE kept == {data[i].id : i \in 1..k}
<1>11. {data'[i].id : i \in DOMAIN data'} = kept
  <2>1. DOMAIN data' = 1..k
    BY <1>8, ArrayFacts
  <2> QED
    BY <1>8, <2>1
<1>12. KeptIds = {data[i].id : i \in 1..n}
  BY <1>2 DEF KeptIds
<1>13. ASSUME NEW j \in 0..n, NEW s, s = 1..j
       PROVE  \E u : Sums(u, Masked(W, n, s), n) /\ u[n] = t[j]
  <2>1. PICK u : Sums(u, Masked(W, n, s), n)
    BY <1>2, <1>5, MaskedEntries, SumsExist
  <2>2. u[n] = t[j]
    <3> HIDE DEF n, W
    <3> QED
      BY <1>2, <1>6, <1>13, <2>1, PrefixSum
  <2> QED
    BY <2>1, <2>2
<1>14. Mass(KeptIds) = t[n]
  <2>1. n \in 0..n /\ 1..n \in SUBSET (1..n)
    BY <1>2
  <2>2. PICK u : Sums(u, Masked(W, n, 1..n), n) /\ u[n] = t[n]
    BY <1>13, <2>1
  <2>3. Mass({data[i].id : i \in 1..n}) = u[n]
    BY <1>1, <1>9, <2>1, <2>2, MassIs
  <2> QED
    BY <1>12, <2>2, <2>3
<1>15. Mass(kept) = t[k]
  <2>1. k \in 0..n /\ 1..k \in SUBSET (1..n)
    BY <1>7, <1>10
  <2>2. PICK u : Sums(u, Masked(W, n, 1..k), n) /\ u[n] = t[k]
    BY <1>13, <2>1
  <2>3. Mass({data[i].id : i \in 1..k}) = u[n]
    BY <1>1, <1>9, <2>1, <2>2, MassIs
  <2> QED
    BY <2>2, <2>3
<1>16. Cardinality(kept) = k
  <2>1. IdsOf(data') = kept
    BY <1>8 DEF IdsOf
  <2>2. Cardinality(IdsOf(data')) = Len(data')
    BY <1>8, IdsAreDistinct
  <2> QED
    BY <1>8, <2>1, <2>2
<1> HIDE DEF n, W
<1>17. ASSUME NEW id \in KeptIds \ kept, \A other \in KeptIds \ kept : Score(other) <= Score(id)
       PROVE  Mass(kept \cup {id}) * Denominator > config.top_p * t[n]
  <2>1. PICK j \in 1..n : id = data[j].id
    BY <1>12
  <2>2. j \in 1..n /\ j \notin 1..k
    BY <2>1
  <2>3. PICK m \in 1..n : m = k + 1 /\ m - 1 = k /\ k < n /\ m <= j
    BY <1>2, <1>7, <2>2
  <2>4. data[m].id \notin kept
    <3> SUFFICES ASSUME NEW i \in 1..k, data[i].id = data[m].id PROVE FALSE
      OBVIOUS
    <3>1. i = m
      BY <1>1, <1>10, <2>3 DEF Array, Distinct, n
    <3> QED
      BY <1>7, <2>3, <3>1
  <2>5. Score(data[m].id) <= Score(id)
    BY <1>12, <1>17, <2>3, <2>4
  <2>6. data[j].logit = data[m].logit
    <3>1. data[j].logit = Scores[data[j].id] /\ data[m].logit = Scores[data[m].id]
      BY <1>1, <2>1, <2>3 DEF Scored, n
    <3>2. Scores[data[j].id] = Score(data[j].id) /\ Scores[data[m].id] = Score(data[m].id)
      BY <1>1, <1>2, <2>1, <2>3, ScoresTyped
    <3>3. data[m].logit <= data[j].logit
      BY <2>1, <2>5, <3>1, <3>2
    <3>4. j = m \/ m < j
      BY <1>2, <2>2, <2>3
    <3>5. data[m].logit >= data[j].logit \/ j = m
      BY <1>1, <2>2, <2>3, <3>1, <3>4 DEF BestFirst, n
    <3> QED
      BY <1>2, <2>2, <2>3, <3>3, <3>5
  <2> DEFINE s == 1..k \cup {j}
  <2>7. s \in SUBSET (1..n) /\ j \in s /\ s \ {j} = 1..k /\ \A i \in s : i <= j
    <3>1. \A i \in 1..k : i \in 1..n /\ i <= j
      BY <1>2, <1>7, <1>10, <2>2, <2>3
    <3> QED
      BY <1>2, <2>2, <3>1
  <2>8. {data[i].id : i \in s} = kept \cup {id}
    BY <2>1
  <2> HIDE DEF s
  <2>9. PICK u : Sums(u, Masked(W, n, s), n)
    BY <1>2, <1>5, MaskedEntries, SumsExist
  <2>10. PICK v : Sums(v, Masked(W, n, s \ {j}), n) /\ v[n] = t[k]
    <3>1. k \in 0..n
      BY <1>7
    <3> QED
      BY <1>13, <2>7, <3>1
  <2>11. u[n] = v[n] + W[j]
    BY <1>2, <1>5, <2>7, <2>9, <2>10, MaskedSum
  <2>12. W[j] = W[m]
    BY <1>5, <2>2, <2>3, <2>6
  <2>13. t[m] = t[k] + W[m]
    BY <1>6, <2>3 DEF Sums
  <2>14. Mass(kept \cup {id}) = u[n]
    <3>1. Mass({data[i].id : i \in s}) = u[n]
      BY <1>1, <1>9, <2>7, <2>9, MassIs DEF n, W
    <3> QED
      BY <2>8, <3>1
  <2> HIDE DEF kept
  <2>15. t[m] * Denominator > config.top_p * t[n]
    BY <1>7, <2>3
  <2> QED
    BY <2>10, <2>11, <2>12, <2>13, <2>14, <2>15
<1> HIDE DEF kept
<1>18. Cardinality(kept) > 1 => Mass(kept) * Denominator <= config.top_p * Mass(KeptIds)
  BY <1>7, <1>14, <1>15, <1>16
<1> QED
  BY <1>11, <1>14, <1>17, <1>18 DEF LongestWithin

-----------------------------------------------------------------------------
(* Theorems                                                                 *)

(* Every variable of sample_next_token keeps its type, and the token it     *)
(* returns is an id of the vocabulary.                                      *)
THEOREM TypeCorrect == Spec => []TypeOK
<1>1. SInv => TypeOK
  <2> SUFFICES ASSUME SInv PROVE TypeOK
    OBVIOUS
  <2>1. data \in Seq([id : Ids, logit : Int])
    BY DEF SInv, Array, Candidate
  <2> QED
    BY <2>1 DEF SInv, Typed, TypeOK
<1> QED
  BY <1>1, SInvariance, PTL

(* No filter leaves sample_softmax or sample_token with an empty array, and *)
(* none duplicates a candidate, whatever the thresholds, the vocabulary and *)
(* the logits; sample_typical included.                                     *)
THEOREM ArrayIsNeverEmpty == Spec => []NeverEmpty
<1>1. SInv => NeverEmpty
  <2> SUFFICES ASSUME SInv PROVE NeverEmpty
    OBVIOUS
  <2>1. Array(data) /\ data # << >> /\ DOMAIN data = 1..Len(data)
    BY ArrayFacts DEF SInv, Array
  <2>2. KeptIds = IdsOf(data)
    BY <2>1 DEF KeptIds, IdsOf
  <2> QED
    BY <2>1, <2>2, IdsAreDistinct DEF NeverEmpty
<1> QED
  BY <1>1, SInvariance, PTL

(* The filters keep the best: with sample_typical off no dropped candidate  *)
(* scores higher than a kept one.                                           *)
THEOREM BestAreKept == Spec => []KeepsTheBest
<1>1. SInv => KeepsTheBest
  <2> SUFFICES ASSUME SInv, TypicalOff PROVE \A kept \in KeptIds, dropped \in Ids \ KeptIds :
                                                Score(kept) >= Score(dropped)
    BY DEF KeepsTheBest
  <2>1. Array(data) /\ Typed /\ DOMAIN data = 1..Len(data) /\ KeptBest(IdsOf(data), Scores)
    BY ArrayFacts DEF SInv, Ordered
  <2>2. KeptIds = IdsOf(data) /\ KeptIds \subseteq Ids
    BY <2>1, IdsAreDistinct DEF KeptIds, IdsOf
  <2>3. \A id \in Ids : Scores[id] = Score(id)
    BY <2>1, ScoresTyped
  <2> QED
    BY <2>1, <2>2, <2>3 DEF KeptBest
<1> QED
  BY <1>1, SInvariance, PTL

(* The penalties demote: a token of the window never overtakes one outside  *)
(* it that was at least as likely, and a token outside keeps its logit.     *)
THEOREM PenaltyOnlyDemotes == Spec => []PenaltyDemotes
<1>1. SInv => PenaltyDemotes
  <2> SUFFICES ASSUME SInv, pc \in {"greedy", "mirostat", "top_k"},
                      NEW i \in DOMAIN data, NEW j \in DOMAIN data
               PROVE  /\ ~InWindow(data[i].id) => data[i].logit = logits[data[i].id]
                      /\ InWindow(data[i].id) /\ ~InWindow(data[j].id)
                           /\ logits[data[i].id] <= logits[data[j].id] => data[i].logit <= data[j].logit
    BY DEF PenaltyDemotes
  <2>1. Typed /\ data = Penalised
    BY DEF SInv, Staged
  <2>2. DOMAIN data = 1..NVocab /\ \A k \in 1..NVocab : data[k].id \in Ids
    BY <2>1, PenalisedArray, ArrayFacts
  <2>3. ASSUME NEW k \in DOMAIN data
        PROVE  /\ data[k].logit \in Int /\ logits[data[k].id] \in Int
               /\ ~InWindow(data[k].id) => data[k].logit = logits[data[k].id]
               /\ InWindow(data[k].id) => data[k].logit <= logits[data[k].id]
    <3>1. PICK id \in Ids : id = data[k].id
      BY <2>2
    <3>2. data[k].id = k - 1 /\ data[k].logit = Score(k - 1)
      BY <2>1, <2>2, PenalisedArray
    <3>3. data[k].logit = Discount(id, Repeat(id, logits[id]))
      BY <2>1, <3>1, <3>2, PenalisedArray
    <3>4. logits[id] \in Int
      BY <2>1, ConfigFacts
    <3> QED
      BY <2>1, <3>1, <3>3, <3>4, PenaltyFacts
  <2> QED
    BY <2>3
<1> QED
  BY <1>1, SInvariance, PTL

(* Every token drawn is possible: with sample_typical off (the default,     *)
(* QwenConfig.h:75) and no mirostat the token returned has a positive       *)
(* weight, in the greedy branch as in the sampled one.  With sample_typical *)
(* on the first candidate need not be the best, and the drawn token need    *)
(* not be possible.                                                         *)
THEOREM DrawIsPossible == Spec => []DrawnIsPossible
<1>1. SInv => DrawnIsPossible
  BY DEF SInv, Ordered, DrawnIsPossible
<1> QED
  BY <1>1, SInvariance, PTL

(* sample_top_p keeps the longest run of most likely candidates that stays  *)
(* within p, and the most likely one in any case: with sample_typical off,  *)
(* adding the best of those it dropped would pass p.                        *)
THEOREM NucleusKeepsTheLongest == Spec => NucleusIsLongest
<1> DEFINE Longest ==
      pc = "top_p" /\ config.top_p < Denominator /\ TypicalOff =>
        LongestWithin(config.top_p * Mass(KeptIds), {data'[i].id : i \in DOMAIN data'})
<1>1. ASSUME SInv, [Next]_vars PROVE [Longest]_vars
  <2> SUFFICES ASSUME Next, pc = "top_p", config.top_p < Denominator, TypicalOff
               PROVE  LongestWithin(config.top_p * Mass(KeptIds), {data'[i].id : i \in DOMAIN data'})
    BY <1>1
  <2>1. SampleTopP
    BY DEF Next, Penalise, Greedy, MirostatBranch, SampleTopK, SampleTailFree, SampleTypical,
           SampleTemperature, SampleToken
  <2> QED
    BY <1>1, <2>1, NucleusStep
<1> QED
  BY <1>1, SInvariance, PTL DEF Spec, NucleusIsLongest
=============================================================================
