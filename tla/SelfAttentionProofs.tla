------------------------ MODULE SelfAttentionProofs ------------------------
(***************************************************************************)
(* Theorems about one layer of attention, for every number of heads,       *)
(* columns, positions and calls: what a call returns is attention, however *)
(* the arrays are sliced, viewed, permuted and cached on the way.          *)
(***************************************************************************)
EXTENDS SelfAttention, Foundations, TLAPS

(* Four query heads share a key head: kv_dim is a quarter of hidden_dim,    *)
(* and the views of keys and values have exactly their size.                *)
FourToOne == NumQHead = 4 * NumKvHead

-----------------------------------------------------------------------------
(* Flat arrays                                                              *)

\* Three indices and the place they stand for.
Place(x, y, z, i, j, k, a) ==
  /\ a = (i * y * z) + (j * z) + k
  /\ a \in 0..(x * y * z - 1)
  /\ a \div (y * z) = i /\ (a \div z) % y = j /\ a % z = k

LEMMA EveryPlace ==
  ASSUME NEW x \in Nat, NEW y \in Nat, NEW z \in Nat,
         NEW i \in 0..(x - 1), NEW j \in 0..(y - 1), NEW k \in 0..(z - 1)
  PROVE  Place(x, y, z, i, j, k, (i * y * z) + (j * z) + k)
<1> DEFINE a == (i * y * z) + (j * z) + k
<1> DEFINE row == i * y + j
<1> DEFINE rest == j * z + k
<1> DEFINE yz == y * z
<1>1. row \in 0..(x * y - 1) /\ row % y = j
  BY RowMajor
<1>2. rest \in 0..(y * z - 1)
  BY RowMajor
<1>3. /\ yz \in Nat /\ x * y \in Nat /\ row \in Nat /\ rest \in Nat
      /\ i * yz \in Nat /\ row * z \in Nat
  OBVIOUS
<1>4. a = row * z + k /\ a = i * yz + rest
  <2>1. i * y * z = i * (y * z) /\ (i * y + j) * z = i * y * z + j * z
    OBVIOUS
  <2>2. i * y * z \in Nat /\ j * z \in Nat
    OBVIOUS
  <2> QED
    BY <2>1, <2>2
<1>5. x * y * z = (x * y) * z
  OBVIOUS
<1> HIDE DEF a, row, rest, yz
<1>6. row * z + k \in 0..((x * y) * z - 1) /\ (row * z + k) \div z = row /\ (row * z + k) % z = k
  BY <1>1, <1>3, RowMajor
<1>7. (i * yz + rest) \div yz = i
  BY <1>2, <1>3, RowMajor DEF yz
<1>8. a \in 0..(x * y * z - 1) /\ a \div z = row /\ a % z = k /\ a \div yz = i
  BY <1>4, <1>5, <1>6, <1>7
<1> QED
  BY <1>1, <1>8 DEF Place, a, yz

\* A matrix of these dimensions.
Shaped(m, x, y, z) ==
  /\ DOMAIN m = {"x", "y", "z", "data"}
  /\ m.x = x /\ m.y = y /\ m.z = z
  /\ DOMAIN m.data = 0..(x * y * z - 1)

LEMMA SliceKeepsColumns ==
  ASSUME NEW x \in Nat, NEW y \in Nat, NEW z \in Nat, NEW m, Shaped(m, x, y, z),
         NEW from \in Nat, NEW to \in Nat, from <= to, to <= z
  PROVE  /\ Shaped(Slice(m, from, to), x, y, to - from)
         /\ \A i \in 0..(x - 1), j \in 0..(y - 1), k \in 0..(to - from - 1) :
              At(Slice(m, from, to), i, j, k) = At(m, i, j, from + k)
<1> DEFINE w == to - from
<1> DEFINE s == Slice(m, from, to)
<1>1. w \in Nat
  OBVIOUS
<1>2. /\ s.x = x /\ s.y = y /\ s.z = w
      /\ DOMAIN s = {"x", "y", "z", "data"}
      /\ s.data = [a \in 0..(x * y * w - 1) |->
                     At(m, a \div (y * w), (a \div w) % y, from + (a % w))]
  BY DEF Slice, Filled, Shaped
<1> HIDE DEF w, s
<1>3. ASSUME NEW i \in 0..(x - 1), NEW j \in 0..(y - 1), NEW k \in 0..(w - 1)
      PROVE  At(s, i, j, k) = At(m, i, j, from + k)
  <2> DEFINE a == (i * y * w) + (j * w) + k
  <2>1. Place(x, y, w, i, j, k, a)
    BY <1>1, EveryPlace
  <2>2. At(s, i, j, k) = s.data[a]
    BY <1>2 DEF At
  <2> HIDE DEF a
  <2> QED
    BY <1>2, <2>1, <2>2 DEF Place
<1> QED
  BY <1>2, <1>3 DEF Shaped, s, w

LEMMA Permute01Exchanges ==
  ASSUME NEW x \in Nat, NEW y \in Nat, NEW z \in Nat, NEW m, Shaped(m, x, y, z)
  PROVE  /\ Shaped(Permute01(m), y, x, z)
         /\ \A i \in 0..(x - 1), j \in 0..(y - 1), k \in 0..(z - 1) :
              At(Permute01(m), j, i, k) = At(m, i, j, k)
<1> DEFINE p == Permute01(m)
<1>1. /\ p.x = y /\ p.y = x /\ p.z = z
      /\ DOMAIN p = {"x", "y", "z", "data"}
      /\ p.data = [a \in 0..(y * x * z - 1) |->
                     m.data[(((a \div z) % x) * (y * z)) + ((a \div (x * z)) * z) + (a % z)]]
  BY DEF Permute01, Filled, Shaped
<1> HIDE DEF p
<1>2. ASSUME NEW i \in 0..(x - 1), NEW j \in 0..(y - 1), NEW k \in 0..(z - 1)
      PROVE  At(p, j, i, k) = At(m, i, j, k)
  <2> DEFINE a == (j * x * z) + (i * z) + k
  <2>1. Place(y, x, z, j, i, k, a)
    BY EveryPlace
  <2>2. At(p, j, i, k) = p.data[a]
    BY <1>1 DEF At
  <2> HIDE DEF a
  <2>3. At(p, j, i, k) = m.data[(i * (y * z)) + (j * z) + k]
    <3>1. /\ a \in 0..(y * x * z - 1)
          /\ (a \div z) % x = i /\ a \div (x * z) = j /\ a % z = k
      BY <2>1 DEF Place
    <3>2. p.data[a] = m.data[(((a \div z) % x) * (y * z)) + ((a \div (x * z)) * z) + (a % z)]
      BY <1>1, <3>1
    <3> QED
      BY <2>2, <3>1, <3>2
  <2>4. At(m, i, j, k) = m.data[(i * y * z) + (j * z) + k]
    BY DEF At, Shaped
  <2>5. i * (y * z) = i * y * z
    OBVIOUS
  <2> QED
    BY <2>3, <2>4, <2>5
<1> QED
  BY <1>1, <1>2 DEF Shaped, p

(* The rows of one plane, cut into heads and put together again.            *)
LEMMA ViewCutsRows ==
  ASSUME NEW n \in Nat, NEW h \in Nat, NEW d \in Nat, NEW m, Shaped(m, 1, n, h * d)
  PROVE  /\ Shaped(View(m, n, h, d), n, h, d)
         /\ \A i \in 0..(n - 1), j \in 0..(h - 1), k \in 0..(d - 1) :
              At(View(m, n, h, d), i, j, k) = At(m, 0, i, j * d + k)
<1> DEFINE v == View(m, n, h, d)
<1>1. /\ v.x = n /\ v.y = h /\ v.z = d /\ v.data = m.data
      /\ DOMAIN v = {"x", "y", "z", "data"}
  BY DEF View, Shaped
<1>2. 1 * n * (h * d) = n * h * d
  OBVIOUS
<1>3. DOMAIN v.data = 0..(n * h * d - 1)
  BY <1>1, <1>2 DEF Shaped
<1> HIDE DEF v
<1>4. ASSUME NEW i \in 0..(n - 1), NEW j \in 0..(h - 1), NEW k \in 0..(d - 1)
      PROVE  At(v, i, j, k) = At(m, 0, i, j * d + k)
  <2>1. At(v, i, j, k) = m.data[(i * h * d) + (j * d) + k]
    BY <1>1 DEF At
  <2>2. At(m, 0, i, j * d + k) = m.data[(0 * n * (h * d)) + (i * (h * d)) + (j * d + k)]
    BY DEF At, Shaped
  <2>3. (0 * n * (h * d)) + (i * (h * d)) + (j * d + k) = (i * h * d) + (j * d) + k
    <3>1. 0 * n * (h * d) = 0 /\ i * (h * d) = i * h * d /\ i * h * d \in Nat /\ j * d \in Nat
      OBVIOUS
    <3> QED
      BY <3>1
  <2> QED
    BY <2>1, <2>2, <2>3
<1> QED
  BY <1>1, <1>3, <1>4 DEF Shaped, v

LEMMA ViewJoinsRows ==
  ASSUME NEW n \in Nat, NEW h \in Nat, NEW d \in Nat, NEW m, Shaped(m, n, h, d)
  PROVE  /\ Shaped(View(m, 1, n, h * d), 1, n, h * d)
         /\ \A i \in 0..(n - 1), j \in 0..(h - 1), k \in 0..(d - 1) :
              At(View(m, 1, n, h * d), 0, i, j * d + k) = At(m, i, j, k)
<1> DEFINE v == View(m, 1, n, h * d)
<1>1. /\ v.x = 1 /\ v.y = n /\ v.z = h * d /\ v.data = m.data
      /\ DOMAIN v = {"x", "y", "z", "data"}
  BY DEF View, Shaped
<1>2. 1 * n * (h * d) = n * h * d
  OBVIOUS
<1>3. DOMAIN v.data = 0..(1 * n * (h * d) - 1)
  BY <1>1, <1>2 DEF Shaped
<1> HIDE DEF v
<1>4. ASSUME NEW i \in 0..(n - 1), NEW j \in 0..(h - 1), NEW k \in 0..(d - 1)
      PROVE  At(v, 0, i, j * d + k) = At(m, i, j, k)
  <2>1. At(m, i, j, k) = m.data[(i * h * d) + (j * d) + k]
    BY DEF At, Shaped
  <2>2. At(v, 0, i, j * d + k) = m.data[(0 * n * (h * d)) + (i * (h * d)) + (j * d + k)]
    BY <1>1 DEF At
  <2>3. (0 * n * (h * d)) + (i * (h * d)) + (j * d + k) = (i * h * d) + (j * d) + k
    <3>1. 0 * n * (h * d) = 0 /\ i * (h * d) = i * h * d /\ i * h * d \in Nat /\ j * d \in Nat
      OBVIOUS
    <3> QED
      BY <3>1
  <2> QED
    BY <2>1, <2>2, <2>3
<1> QED
  BY <1>1, <1>3, <1>4 DEF Shaped, v

\* The two operators that work row by row.
LEMMA NormIsRowWise ==
  ASSUME NEW x \in Nat, NEW y \in Nat, NEW z \in Nat, NEW m, Shaped(m, x, y, z), NEW weight
  PROVE  /\ Shaped(RMSNorm(weight, m), x, y, z)
         /\ \A i \in 0..(x - 1), j \in 0..(y - 1), k \in 0..(z - 1) :
              At(RMSNorm(weight, m), i, j, k) = <<weight, k, [c \in 0..(z - 1) |-> At(m, i, j, c)]>>
<1> DEFINE s == RMSNorm(weight, m)
<1>1. /\ s.x = x /\ s.y = y /\ s.z = z
      /\ DOMAIN s = {"x", "y", "z", "data"}
      /\ s.data = [a \in 0..(x * y * z - 1) |->
                     <<weight, a % z,
                       [c \in 0..(z - 1) |-> At(m, a \div (y * z), (a \div z) % y, c)]>>]
  BY DEF RMSNorm, Filled, Shaped
<1> HIDE DEF s
<1>2. ASSUME NEW i \in 0..(x - 1), NEW j \in 0..(y - 1), NEW k \in 0..(z - 1)
      PROVE  At(s, i, j, k) = <<weight, k, [c \in 0..(z - 1) |-> At(m, i, j, c)]>>
  <2> DEFINE a == (i * y * z) + (j * z) + k
  <2>1. Place(x, y, z, i, j, k, a)
    BY EveryPlace
  <2>2. At(s, i, j, k) = s.data[a]
    BY <1>1 DEF At
  <2> HIDE DEF a
  <2>3. a \in 0..(x * y * z - 1) /\ a \div (y * z) = i /\ (a \div z) % y = j /\ a % z = k
    BY <2>1 DEF Place
  <2> QED
    BY <1>1, <2>2, <2>3
<1> QED
  BY <1>1, <1>2 DEF Shaped, s

LEMMA AppliedIsRowWise ==
  ASSUME NEW x \in Nat, NEW y \in Nat, NEW z \in Nat, NEW m, Shaped(m, x, y, z)
  PROVE  /\ Shaped(Applied(m), x, y, z)
         /\ \A i \in 0..(x - 1), j \in 0..(y - 1), k \in 0..(z - 1) :
              At(Applied(m), i, j, k) =
                <<j + past_sqlen, k, At(m, i, j, k), Partner(k)[1], At(m, i, j, Partner(k)[2])>>
<1> DEFINE s == Applied(m)
<1>1. /\ s.x = x /\ s.y = y /\ s.z = z
      /\ DOMAIN s = {"x", "y", "z", "data"}
      /\ s.data = [a \in 0..(x * y * z - 1) |->
                     <<((a \div z) % y) + past_sqlen, a % z,
                       At(m, a \div (y * z), (a \div z) % y, a % z), Partner(a % z)[1],
                       At(m, a \div (y * z), (a \div z) % y, Partner(a % z)[2])>>]
  BY DEF Applied, Filled, Shaped
<1> HIDE DEF s
<1>2. ASSUME NEW i \in 0..(x - 1), NEW j \in 0..(y - 1), NEW k \in 0..(z - 1)
      PROVE  At(s, i, j, k) =
               <<j + past_sqlen, k, At(m, i, j, k), Partner(k)[1], At(m, i, j, Partner(k)[2])>>
  <2> DEFINE a == (i * y * z) + (j * z) + k
  <2>1. Place(x, y, z, i, j, k, a)
    BY EveryPlace
  <2>2. At(s, i, j, k) = s.data[a]
    BY <1>1 DEF At
  <2> HIDE DEF a
  <2>3. a \in 0..(x * y * z - 1) /\ a \div (y * z) = i /\ (a \div z) % y = j /\ a % z = k
    BY <2>1 DEF Place
  <2>4. s.data[a] =
          <<((a \div z) % y) + past_sqlen, a % z,
            At(m, a \div (y * z), (a \div z) % y, a % z), Partner(a % z)[1],
            At(m, a \div (y * z), (a \div z) % y, Partner(a % z)[2])>>
    BY <1>1, <2>3
  <2> QED
    BY <2>2, <2>3, <2>4
<1> QED
  BY <1>1, <1>2 DEF Shaped, s

-----------------------------------------------------------------------------
(* Heads and their columns                                                  *)

LEMMA Widths ==
  ASSUME FourToOne
  PROVE  /\ {NumQHead, NumKvHead, HeadDim, MaxSqlen} \subseteq Nat \ {0}
         /\ Half \in Nat /\ HeadDim = 2 * Half
         /\ QDim \in Nat /\ QDim = NumQHead * HeadDim
         /\ KvDim \in Nat /\ KvDim = NumKvHead * HeadDim
         /\ \A h \in 0..(NumQHead - 1) : Group(h) = h \div 4 /\ h \div 4 \in 0..(NumKvHead - 1)
<1>1. {NumQHead, NumKvHead, HeadDim, MaxSqlen} \subseteq Nat \ {0} /\ HeadDim % 2 = 0
  BY HeadAssumption
<1>2. Half \in Nat /\ HeadDim = 2 * Half
  BY <1>1 DEF Half
<1>3. NumKvHead * HeadDim \in Nat /\ QDim = 4 * (NumKvHead * HeadDim) /\ QDim = NumQHead * HeadDim
  BY <1>1 DEF QDim, FourToOne
<1>4. KvDim = NumKvHead * HeadDim
  <2> DEFINE kv == NumKvHead * HeadDim
  <2>1. kv \in Nat /\ KvDim = (4 * kv) \div 4
    BY <1>3 DEF KvDim
  <2> HIDE DEF kv
  <2>2. KvDim = kv
    BY <2>1
  <2> QED
    BY <2>2 DEF kv
<1>5. NumQHead \div NumKvHead = 4
  <2>1. NumQHead = 4 * NumKvHead + 0 /\ 0 \in 0..(NumKvHead - 1)
    BY <1>1 DEF FourToOne
  <2> QED
    BY <1>1, <2>1, OneQuotient
<1>6. ASSUME NEW h \in 0..(NumQHead - 1)
      PROVE  Group(h) = h \div 4 /\ h \div 4 \in 0..(NumKvHead - 1)
  BY <1>1, <1>5 DEF Group, FourToOne
<1> QED
  BY <1>1, <1>2, <1>3, <1>4, <1>6

\* The first columns of a head's query, key and value in the projection.
QueryFirst(h) == h * HeadDim
KeyFirst(g) == QDim + g * HeadDim
ValueFirst(g) == QDim + KvDim + g * HeadDim

LEMMA PartnerIsOtherHalf ==
  ASSUME FourToOne, NEW k \in 0..(HeadDim - 1)
  PROVE  /\ Partner(k)[1] = IF k < Half THEN -1 ELSE 1
         /\ Partner(k)[2] = (k + Half) % HeadDim
         /\ Partner(k)[2] \in 0..(HeadDim - 1)
<1>1. Half \in Nat /\ HeadDim = 2 * Half /\ HeadDim \in Nat \ {0}
  BY Widths
<1>2. CASE k < Half
  <2>1. k + Half \in 0..(HeadDim - 1) /\ Partner(k)[1] = -1 /\ Partner(k)[2] = k + Half
    BY <1>1, <1>2 DEF Partner
  <2>2. (k + Half) % HeadDim = k + Half
    BY <1>1, <2>1
  <2> QED
    BY <1>2, <2>1, <2>2
<1>3. CASE ~(k < Half)
  <2>1. k - Half \in 0..(HeadDim - 1) /\ Partner(k)[1] = 1 /\ Partner(k)[2] = k - Half
    BY <1>1, <1>3 DEF Partner
  <2>2. (k + Half) % HeadDim = k - Half
    <3> DEFINE sum == k + Half
    <3> DEFINE rest == k - Half
    <3>1. sum = 1 * HeadDim + rest /\ sum \in Nat /\ rest \in 0..(HeadDim - 1) /\ 1 \in Nat
      BY <1>1, <2>1
    <3> HIDE DEF sum, rest
    <3>2. sum % HeadDim = rest
      BY <1>1, <3>1, OneQuotient
    <3> QED
      BY <3>2 DEF sum, rest
  <2> QED
    BY <1>3, <2>1, <2>2
<1> QED
  BY <1>2, <1>3

LEMMA RotatedByColumns ==
  ASSUME NEW weight, NEW p, NEW first
  PROVE  Rotated(weight, p, first) = [c \in 0..(HeadDim - 1) |-> Rotated(weight, p, first)[c]]
  BY DEF Rotated

\* A row that was normalised is rotated by Applied.
LEMMA AppliedRotates ==
  ASSUME FourToOne, NEW x \in Nat, NEW y \in Nat, NEW m, Shaped(m, x, y, HeadDim),
         NEW weight, NEW h \in 0..(x - 1), NEW i \in 0..(y - 1), NEW first,
         past_sqlen \in Nat,
         \A c \in 0..(HeadDim - 1) : At(m, h, i, c) = Normed(weight, past_sqlen + i, first, c),
         NEW k \in 0..(HeadDim - 1)
  PROVE  At(Applied(m), h, i, k) = Rotated(weight, past_sqlen + i, first)[k]
<1>1. HeadDim \in Nat
  BY Widths
<1>2. At(Applied(m), h, i, k) =
        <<i + past_sqlen, k, At(m, h, i, k), Partner(k)[1], At(m, h, i, Partner(k)[2])>>
  BY <1>1, AppliedIsRowWise
<1>3. /\ Partner(k)[1] = IF k < Half THEN -1 ELSE 1
      /\ Partner(k)[2] = (k + Half) % HeadDim /\ Partner(k)[2] \in 0..(HeadDim - 1)
  BY PartnerIsOtherHalf
<1>4. Rotated(weight, past_sqlen + i, first)[k] =
        <<past_sqlen + i, k, Normed(weight, past_sqlen + i, first, k), IF k < Half THEN -1 ELSE 1,
          Normed(weight, past_sqlen + i, first, (k + Half) % HeadDim)>>
  BY DEF Rotated
<1>5. i + past_sqlen = past_sqlen + i
  OBVIOUS
<1>6. /\ At(m, h, i, k) = Normed(weight, past_sqlen + i, first, k)
      /\ At(m, h, i, Partner(k)[2]) = Normed(weight, past_sqlen + i, first, (k + Half) % HeadDim)
  BY <1>3
<1> QED
  BY <1>2, <1>3, <1>4, <1>5, <1>6

-----------------------------------------------------------------------------
(* The inductive invariant                                                  *)

Rows == 0..(sqlen - 1)
Columns == 0..(HeadDim - 1)
QHeads == 0..(NumQHead - 1)
KvHeads == 0..(NumKvHead - 1)

Sizes ==
  /\ pc \in {"idle", "split", "norm", "rotate", "refresh", "score", "weigh", "reshape"}
  /\ past_sqlen \in Nat /\ sqlen \in Nat
  /\ past_sqlen <= MaxSqlen
  /\ pc # "idle" => past_sqlen + sqlen < MaxSqlen
  /\ pc = "idle" => sqlen <= past_sqlen

\* The positions whose keys and values the caches hold.
Cached == IF pc \in {"score", "weigh", "reshape"} THEN total_context_sqlen ELSE past_sqlen
CachesOK ==
  /\ DOMAIN k_cache = 0..(NumKvHead * context_head_stride - 1)
  /\ DOMAIN v_cache = 0..(NumKvHead * context_head_stride - 1)
  /\ \A g \in KvHeads, j \in 0..(Cached - 1), c \in Columns :
       /\ Viewed(k_cache, g, j, c) = Rotated("k_norm", j, KeyFirst(g))[c]
       /\ Viewed(v_cache, g, j, c) = <<j, ValueFirst(g) + c>>

\* The states of the new tokens, stage by stage.
SplitOK ==
  /\ Shaped(query_states, sqlen, NumQHead, HeadDim)
  /\ Shaped(key_states, sqlen, NumKvHead, HeadDim)
  /\ Shaped(value_states, sqlen, NumKvHead, HeadDim)
  /\ \A i \in Rows, h \in QHeads, c \in Columns :
       At(query_states, i, h, c) = <<past_sqlen + i, QueryFirst(h) + c>>
  /\ \A i \in Rows, g \in KvHeads, c \in Columns :
       /\ At(key_states, i, g, c) = <<past_sqlen + i, KeyFirst(g) + c>>
       /\ At(value_states, i, g, c) = <<past_sqlen + i, ValueFirst(g) + c>>

ValuesOK ==
  /\ Shaped(value_states, NumKvHead, sqlen, HeadDim)
  /\ \A g \in KvHeads, i \in Rows, c \in Columns :
       At(value_states, g, i, c) = <<past_sqlen + i, ValueFirst(g) + c>>

NormedOK ==
  /\ Shaped(query_states, NumQHead, sqlen, HeadDim)
  /\ Shaped(key_states, NumKvHead, sqlen, HeadDim)
  /\ \A h \in QHeads, i \in Rows, c \in Columns :
       At(query_states, h, i, c) = Normed("q_norm", past_sqlen + i, QueryFirst(h), c)
  /\ \A g \in KvHeads, i \in Rows, c \in Columns :
       At(key_states, g, i, c) = Normed("k_norm", past_sqlen + i, KeyFirst(g), c)

QueriesOK ==
  /\ Shaped(query_states, NumQHead, sqlen, HeadDim)
  /\ \A h \in QHeads, i \in Rows, c \in Columns :
       At(query_states, h, i, c) = Rotated("q_norm", past_sqlen + i, QueryFirst(h))[c]

KeysOK ==
  /\ Shaped(key_states, NumKvHead, sqlen, HeadDim)
  /\ \A g \in KvHeads, i \in Rows, c \in Columns :
       At(key_states, g, i, c) = Rotated("k_norm", past_sqlen + i, KeyFirst(g))[c]

ScoresOK ==
  /\ Shaped(attn_weights, NumQHead, sqlen, total_context_sqlen)
  /\ \A h \in QHeads, i \in Rows, j \in 0..(total_context_sqlen - 1) :
       At(attn_weights, h, i, j) =
         <<Rotated("q_norm", past_sqlen + i, QueryFirst(h)),
           Rotated("k_norm", j, KeyFirst(h \div 4))>>

HeadsOK ==
  /\ Shaped(attn_output, NumQHead, sqlen, HeadDim)
  /\ \A h \in QHeads, i \in Rows, c \in Columns :
       At(attn_output, h, i, c) = Attention(past_sqlen + i, h, c)

IInv ==
  /\ Sizes
  /\ CachesOK
  /\ pc = "norm" => SplitOK
  /\ pc = "rotate" => NormedOK
  /\ pc \in {"rotate", "refresh"} => ValuesOK
  /\ pc \in {"refresh", "score"} => QueriesOK
  /\ pc = "refresh" => KeysOK
  /\ pc = "weigh" => ScoresOK
  /\ pc = "reshape" => HeadsOK
  /\ OutputIsAttention

-----------------------------------------------------------------------------
(* Stage by stage                                                           *)

LEMMA InitIInv == Init => IInv
<1> SUFFICES ASSUME Init PROVE IInv
  OBVIOUS
<1>1. MaxSqlen \in Nat \ {0}
  BY HeadAssumption
<1>2. Sizes
  BY <1>1 DEF Init, Sizes
<1>3. CachesOK
  BY DEF Init, CachesOK, Cached
<1>4. OutputIsAttention
  BY DEF Init, OutputIsAttention
<1> QED
  BY <1>2, <1>3, <1>4 DEF Init, IInv

\* The caches of a step that leaves them and the past alone.
LEMMA CachesStay ==
  ASSUME CachesOK, UNCHANGED <<caches, past_sqlen>>, Cached' = Cached
  PROVE  CachesOK'
  BY DEF CachesOK, caches, Viewed, context_head_stride

LEMMA CallKeepsIInv ==
  ASSUME IInv, NEW n \in 1..MaxSqlen, Call(n)
  PROVE  IInv'
<1>1. MaxSqlen \in Nat
  BY HeadAssumption
<1>2. Sizes'
  BY <1>1 DEF IInv, Sizes, Call
<1>3. CachesOK'
  BY CachesStay DEF IInv, Call, Cached
<1>4. OutputIsAttention'
  BY DEF Call, OutputIsAttention
<1> QED
  BY <1>2, <1>3, <1>4 DEF Call, IInv

\* The projection, and a range of its columns cut into heads.
LEMMA QkvIs ==
  ASSUME FourToOne, sqlen \in Nat
  PROVE  /\ Shaped(Qkv, 1, sqlen, QDim + 2 * KvDim)
         /\ \A i \in Rows, k \in 0..((QDim + 2 * KvDim) - 1) : At(Qkv, 0, i, k) = <<past_sqlen + i, k>>
<1> DEFINE w == QDim + 2 * KvDim
<1>1. w \in Nat
  BY Widths
<1>2. /\ Qkv.x = 1 /\ Qkv.y = sqlen /\ Qkv.z = w
      /\ DOMAIN Qkv = {"x", "y", "z", "data"}
      /\ Qkv.data = [a \in 0..(1 * sqlen * w - 1) |-> <<past_sqlen + ((a \div w) % sqlen), a % w>>]
  BY DEF Qkv, Filled
<1> HIDE DEF w
<1>3. ASSUME NEW i \in Rows, NEW k \in 0..(w - 1)
      PROVE  At(Qkv, 0, i, k) = <<past_sqlen + i, k>>
  <2> DEFINE a == (0 * sqlen * w) + (i * w) + k
  <2>1. Place(1, sqlen, w, 0, i, k, a)
    <3>1. 0 \in 0..(1 - 1) /\ 1 \in Nat
      OBVIOUS
    <3> QED
      BY <1>1, <3>1, EveryPlace DEF Rows
  <2>2. At(Qkv, 0, i, k) = Qkv.data[a]
    BY <1>2 DEF At
  <2> HIDE DEF a
  <2> QED
    BY <1>2, <2>1, <2>2 DEF Place
<1>4. Shaped(Qkv, 1, sqlen, w)
  BY <1>2 DEF Shaped
<1> QED
  BY <1>3, <1>4 DEF w

\* The columns of the projection from `from` on, as so many heads.
CutInto(v, from, heads) ==
  /\ Shaped(v, sqlen, heads, HeadDim)
  /\ \A i \in Rows, h \in 0..(heads - 1), c \in Columns :
       At(v, i, h, c) = <<past_sqlen + i, from + h * HeadDim + c>>

LEMMA HeadsAreCut ==
  ASSUME FourToOne, sqlen \in Nat, NEW from \in Nat, NEW heads \in Nat, NEW to \in Nat,
         to = from + heads * HeadDim, to <= QDim + 2 * KvDim
  PROVE  CutInto(View(Slice(Qkv, from, to), sqlen, heads, HeadDim), from, heads)
<1> DEFINE w == QDim + 2 * KvDim
<1> DEFINE s == Slice(Qkv, from, to)
<1>1. w \in Nat /\ HeadDim \in Nat
  BY Widths
<1>2. Shaped(Qkv, 1, sqlen, w)
      /\ \A i \in Rows, k \in 0..(w - 1) : At(Qkv, 0, i, k) = <<past_sqlen + i, k>>
  <2>1. Shaped(Qkv, 1, sqlen, w)
    BY QkvIs
  <2>2. ASSUME NEW i \in Rows, NEW k \in 0..(w - 1) PROVE At(Qkv, 0, i, k) = <<past_sqlen + i, k>>
    BY QkvIs
  <2> QED
    BY <2>1, <2>2
<1>3. heads * HeadDim \in Nat /\ to - from = heads * HeadDim /\ from <= to /\ to <= w
  BY <1>1
<1> HIDE DEF w
<1>4. /\ Shaped(s, 1, sqlen, to - from)
      /\ \A i \in 0..(1 - 1), j \in 0..(sqlen - 1), k \in 0..(to - from - 1) :
           At(s, i, j, k) = At(Qkv, i, j, from + k)
  <2>1. 1 \in Nat /\ Shaped(Qkv, 1, sqlen, w)
    BY <1>2
  <2>2. Shaped(s, 1, sqlen, to - from)
    BY <1>1, <1>3, <2>1, SliceKeepsColumns
  <2>3. ASSUME NEW i \in 0..(1 - 1), NEW j \in 0..(sqlen - 1), NEW k \in 0..(to - from - 1)
        PROVE  At(s, i, j, k) = At(Qkv, i, j, from + k)
    BY <1>1, <1>3, <2>1, SliceKeepsColumns
  <2> QED
    BY <2>2, <2>3
<1> HIDE DEF s
<1>5. /\ Shaped(View(s, sqlen, heads, HeadDim), sqlen, heads, HeadDim)
      /\ \A i \in 0..(sqlen - 1), j \in 0..(heads - 1), k \in 0..(HeadDim - 1) :
           At(View(s, sqlen, heads, HeadDim), i, j, k) = At(s, 0, i, j * HeadDim + k)
  BY <1>1, <1>3, <1>4, ViewCutsRows
<1>6. ASSUME NEW i \in Rows, NEW h \in 0..(heads - 1), NEW c \in Columns
      PROVE  At(View(s, sqlen, heads, HeadDim), i, h, c) = <<past_sqlen + i, from + h * HeadDim + c>>
  <2>1. h * HeadDim + c \in 0..(heads * HeadDim - 1) /\ h * HeadDim \in Nat /\ c \in Nat
    BY <1>1, RowMajor DEF Columns
  <2> DEFINE k == h * HeadDim + c
  <2>2. k \in 0..(to - from - 1) /\ from + k \in 0..(w - 1) /\ from + k = from + h * HeadDim + c
    BY <1>1, <1>3, <2>1
  <2>3. At(View(s, sqlen, heads, HeadDim), i, h, c) = At(s, 0, i, k)
    BY <1>5 DEF Rows, Columns
  <2> HIDE DEF k
  <2>4. At(s, 0, i, k) = At(Qkv, 0, i, from + k)
    BY <1>4, <2>2 DEF Rows
  <2>5. At(Qkv, 0, i, from + k) = <<past_sqlen + i, from + k>>
    BY <1>2, <2>2
  <2> QED
    BY <2>2, <2>3, <2>4, <2>5
<1> QED
  BY <1>5, <1>6 DEF s, CutInto

LEMMA SplitKeepsIInv ==
  ASSUME FourToOne, IInv, SplitQkv
  PROVE  IInv'
<1>1. /\ sqlen \in Nat /\ pc = "split" /\ pc' = "norm" /\ UNCHANGED <<past_sqlen, sqlen>>
      /\ Sizes /\ CachesOK
  BY DEF IInv, Sizes, SplitQkv
<1>2. /\ QDim \in Nat /\ QDim = NumQHead * HeadDim
      /\ KvDim \in Nat /\ KvDim = NumKvHead * HeadDim
      /\ NumQHead \in Nat /\ NumKvHead \in Nat /\ HeadDim \in Nat
  BY Widths
<1>3. CutInto(query_states', 0, NumQHead)
  <2>1. 0 \in Nat /\ QDim = 0 + NumQHead * HeadDim /\ QDim <= QDim + 2 * KvDim
    BY <1>2
  <2> QED
    BY <1>1, <1>2, <2>1, HeadsAreCut DEF SplitQkv
<1>4. CutInto(key_states', QDim, NumKvHead)
  <2>1. /\ QDim + KvDim \in Nat /\ QDim + KvDim = QDim + NumKvHead * HeadDim
        /\ QDim + KvDim <= QDim + 2 * KvDim
    BY <1>2
  <2> QED
    BY <1>1, <1>2, <2>1, HeadsAreCut DEF SplitQkv
<1>5. CutInto(value_states', QDim + KvDim, NumKvHead)
  <2>1. /\ QDim + KvDim \in Nat /\ QDim + 2 * KvDim \in Nat
        /\ QDim + 2 * KvDim = (QDim + KvDim) + NumKvHead * HeadDim
        /\ QDim + 2 * KvDim <= QDim + 2 * KvDim
    BY <1>2
  <2> QED
    BY <1>1, <1>2, <2>1, HeadsAreCut DEF SplitQkv
<1>6. SplitOK'
  <2>1. /\ Shaped(query_states', sqlen', NumQHead, HeadDim)
        /\ Shaped(key_states', sqlen', NumKvHead, HeadDim)
        /\ Shaped(value_states', sqlen', NumKvHead, HeadDim)
    BY <1>1, <1>3, <1>4, <1>5 DEF CutInto
  <2>2. ASSUME NEW i \in Rows, NEW h \in QHeads, NEW c \in Columns
        PROVE  At(query_states', i, h, c) = <<past_sqlen + i, QueryFirst(h) + c>>
    <3>1. 0 + h * HeadDim = QueryFirst(h)
      BY <1>2 DEF QHeads, QueryFirst
    <3> QED
      BY <1>3, <3>1 DEF CutInto, QHeads
  <2>3. ASSUME NEW i \in Rows, NEW g \in KvHeads, NEW c \in Columns
        PROVE  /\ At(key_states', i, g, c) = <<past_sqlen + i, KeyFirst(g) + c>>
               /\ At(value_states', i, g, c) = <<past_sqlen + i, ValueFirst(g) + c>>
    BY <1>4, <1>5 DEF CutInto, KvHeads, KeyFirst, ValueFirst
  <2> QED
    BY <1>1, <2>1, <2>2, <2>3 DEF SplitOK, Rows
<1>7. Sizes'
  BY <1>1 DEF Sizes
<1>8. CachesOK'
  BY <1>1, CachesStay DEF SplitQkv, Cached
<1>9. OutputIsAttention'
  BY <1>1 DEF OutputIsAttention
<1> QED
  BY <1>1, <1>6, <1>7, <1>8, <1>9 DEF IInv

LEMMA NormKeepsIInv ==
  ASSUME FourToOne, IInv, NormPerHead
  PROVE  IInv'
<1>1. /\ sqlen \in Nat /\ pc = "norm" /\ pc' = "rotate" /\ UNCHANGED <<past_sqlen, sqlen>>
      /\ Sizes /\ CachesOK /\ SplitOK
  BY DEF IInv, Sizes, NormPerHead
<1>2. NumQHead \in Nat /\ NumKvHead \in Nat /\ HeadDim \in Nat
  BY Widths
<1>3. /\ Shaped(query_states', NumQHead, sqlen, HeadDim)
      /\ \A h \in QHeads, i \in Rows, c \in Columns :
           At(query_states', h, i, c) = Normed("q_norm", past_sqlen + i, QueryFirst(h), c)
  <2> DEFINE n == RMSNorm("q_norm", query_states)
  <2>1. Shaped(query_states, sqlen, NumQHead, HeadDim)
    BY <1>1 DEF SplitOK
  <2>2. Shaped(n, sqlen, NumQHead, HeadDim)
    BY <1>1, <1>2, <2>1, NormIsRowWise
  <2>3. ASSUME NEW i \in Rows, NEW h \in QHeads, NEW c \in Columns
        PROVE  At(n, i, h, c) = Normed("q_norm", past_sqlen + i, QueryFirst(h), c)
    <3>1. At(n, i, h, c) = <<"q_norm", c, [k \in 0..(HeadDim - 1) |-> At(query_states, i, h, k)]>>
      BY <1>1, <1>2, <2>1, NormIsRowWise DEF Rows, QHeads, Columns
    <3>2. \A k \in 0..(HeadDim - 1) : At(query_states, i, h, k) = <<past_sqlen + i, QueryFirst(h) + k>>
      BY <1>1 DEF SplitOK, Columns
    <3> QED
      BY <3>1, <3>2 DEF Normed
  <2>4. query_states' = Permute01(n)
    BY DEF NormPerHead
  <2> HIDE DEF n
  <2>5. Shaped(query_states', NumQHead, sqlen, HeadDim)
    BY <1>1, <1>2, <2>2, <2>4, Permute01Exchanges
  <2>6. ASSUME NEW h \in QHeads, NEW i \in Rows, NEW c \in Columns
        PROVE  At(query_states', h, i, c) = At(n, i, h, c)
    BY <1>1, <1>2, <2>2, <2>4, Permute01Exchanges DEF Rows, QHeads, Columns
  <2> QED
    BY <2>3, <2>5, <2>6
<1>4. /\ Shaped(key_states', NumKvHead, sqlen, HeadDim)
      /\ \A g \in KvHeads, i \in Rows, c \in Columns :
           At(key_states', g, i, c) = Normed("k_norm", past_sqlen + i, KeyFirst(g), c)
  <2> DEFINE n == RMSNorm("k_norm", key_states)
  <2>1. Shaped(key_states, sqlen, NumKvHead, HeadDim)
    BY <1>1 DEF SplitOK
  <2>2. Shaped(n, sqlen, NumKvHead, HeadDim)
    BY <1>1, <1>2, <2>1, NormIsRowWise
  <2>3. ASSUME NEW i \in Rows, NEW g \in KvHeads, NEW c \in Columns
        PROVE  At(n, i, g, c) = Normed("k_norm", past_sqlen + i, KeyFirst(g), c)
    <3>1. At(n, i, g, c) = <<"k_norm", c, [k \in 0..(HeadDim - 1) |-> At(key_states, i, g, k)]>>
      BY <1>1, <1>2, <2>1, NormIsRowWise DEF Rows, KvHeads, Columns
    <3>2. \A k \in 0..(HeadDim - 1) : At(key_states, i, g, k) = <<past_sqlen + i, KeyFirst(g) + k>>
      BY <1>1 DEF SplitOK, Columns
    <3> QED
      BY <3>1, <3>2 DEF Normed
  <2>4. key_states' = Permute01(n)
    BY DEF NormPerHead
  <2> HIDE DEF n
  <2>5. Shaped(key_states', NumKvHead, sqlen, HeadDim)
    BY <1>1, <1>2, <2>2, <2>4, Permute01Exchanges
  <2>6. ASSUME NEW g \in KvHeads, NEW i \in Rows, NEW c \in Columns
        PROVE  At(key_states', g, i, c) = At(n, i, g, c)
    BY <1>1, <1>2, <2>2, <2>4, Permute01Exchanges DEF Rows, KvHeads, Columns
  <2> QED
    BY <2>3, <2>5, <2>6
<1>5. /\ Shaped(value_states', NumKvHead, sqlen, HeadDim)
      /\ \A g \in KvHeads, i \in Rows, c \in Columns :
           At(value_states', g, i, c) = <<past_sqlen + i, ValueFirst(g) + c>>
  <2>1. Shaped(value_states, sqlen, NumKvHead, HeadDim)
    BY <1>1 DEF SplitOK
  <2>2. value_states' = Permute01(value_states)
    BY DEF NormPerHead
  <2>3. Shaped(value_states', NumKvHead, sqlen, HeadDim)
    BY <1>1, <1>2, <2>1, <2>2, Permute01Exchanges
  <2>4. ASSUME NEW g \in KvHeads, NEW i \in Rows, NEW c \in Columns
        PROVE  At(value_states', g, i, c) = At(value_states, i, g, c)
    BY <1>1, <1>2, <2>1, <2>2, Permute01Exchanges DEF Rows, KvHeads, Columns
  <2> QED
    BY <1>1, <2>3, <2>4 DEF SplitOK
<1>6. NormedOK' /\ ValuesOK'
  BY <1>1, <1>3, <1>4, <1>5 DEF NormedOK, ValuesOK, Rows
<1>7. Sizes'
  BY <1>1 DEF Sizes
<1>8. CachesOK'
  BY <1>1, CachesStay DEF NormPerHead, Cached
<1>9. OutputIsAttention'
  BY <1>1 DEF OutputIsAttention
<1> QED
  BY <1>1, <1>6, <1>7, <1>8, <1>9 DEF IInv

LEMMA RopeKeepsIInv ==
  ASSUME FourToOne, IInv, RopeEmbed
  PROVE  IInv'
<1>1. /\ sqlen \in Nat /\ past_sqlen \in Nat
      /\ pc = "rotate" /\ pc' = "refresh" /\ UNCHANGED <<past_sqlen, sqlen, value_states>>
      /\ Sizes /\ CachesOK /\ NormedOK /\ ValuesOK
  BY DEF IInv, Sizes, RopeEmbed
<1>2. NumQHead \in Nat /\ NumKvHead \in Nat /\ HeadDim \in Nat
  BY Widths
<1>3. /\ Shaped(query_states', NumQHead, sqlen, HeadDim)
      /\ \A h \in QHeads, i \in Rows, c \in Columns :
           At(query_states', h, i, c) = Rotated("q_norm", past_sqlen + i, QueryFirst(h))[c]
  <2>1. Shaped(query_states, NumQHead, sqlen, HeadDim) /\ query_states' = Applied(query_states)
    BY <1>1 DEF NormedOK, RopeEmbed
  <2>2. Shaped(query_states', NumQHead, sqlen, HeadDim)
    BY <1>1, <1>2, <2>1, AppliedIsRowWise
  <2>3. ASSUME NEW h \in QHeads, NEW i \in Rows, NEW c \in Columns
        PROVE  At(query_states', h, i, c) = Rotated("q_norm", past_sqlen + i, QueryFirst(h))[c]
    <3>1. \A k \in 0..(HeadDim - 1) :
            At(query_states, h, i, k) = Normed("q_norm", past_sqlen + i, QueryFirst(h), k)
      BY <1>1 DEF NormedOK, Columns
    <3>2. h \in 0..(NumQHead - 1) /\ i \in 0..(sqlen - 1) /\ c \in 0..(HeadDim - 1)
      BY DEF QHeads, Rows, Columns
    <3> QED
      BY <1>1, <1>2, <2>1, <3>1, <3>2, AppliedRotates
  <2> QED
    BY <2>2, <2>3
<1>4. /\ Shaped(key_states', NumKvHead, sqlen, HeadDim)
      /\ \A g \in KvHeads, i \in Rows, c \in Columns :
           At(key_states', g, i, c) = Rotated("k_norm", past_sqlen + i, KeyFirst(g))[c]
  <2>1. Shaped(key_states, NumKvHead, sqlen, HeadDim) /\ key_states' = Applied(key_states)
    BY <1>1 DEF NormedOK, RopeEmbed
  <2>2. Shaped(key_states', NumKvHead, sqlen, HeadDim)
    BY <1>1, <1>2, <2>1, AppliedIsRowWise
  <2>3. ASSUME NEW g \in KvHeads, NEW i \in Rows, NEW c \in Columns
        PROVE  At(key_states', g, i, c) = Rotated("k_norm", past_sqlen + i, KeyFirst(g))[c]
    <3>1. \A k \in 0..(HeadDim - 1) :
            At(key_states, g, i, k) = Normed("k_norm", past_sqlen + i, KeyFirst(g), k)
      BY <1>1 DEF NormedOK, Columns
    <3>2. g \in 0..(NumKvHead - 1) /\ i \in 0..(sqlen - 1) /\ c \in 0..(HeadDim - 1)
      BY DEF KvHeads, Rows, Columns
    <3> QED
      BY <1>1, <1>2, <2>1, <3>1, <3>2, AppliedRotates
  <2> QED
    BY <2>2, <2>3
<1>5. QueriesOK' /\ KeysOK' /\ ValuesOK'
  BY <1>1, <1>3, <1>4 DEF QueriesOK, KeysOK, ValuesOK, Rows
<1>6. Sizes'
  BY <1>1 DEF Sizes
<1>7. CachesOK'
  BY <1>1, CachesStay DEF RopeEmbed, Cached
<1>8. OutputIsAttention'
  BY <1>1 DEF OutputIsAttention
<1> QED
  BY <1>1, <1>5, <1>6, <1>7, <1>8 DEF IInv

\* The new rows lie behind the past ones, which stay, in every head.
LEMMA RefreshedIs ==
  ASSUME FourToOne, past_sqlen \in Nat, sqlen \in Nat, past_sqlen + sqlen < MaxSqlen,
         NEW cache, DOMAIN cache = 0..(NumKvHead * context_head_stride - 1),
         NEW new, Shaped(new, NumKvHead, sqlen, HeadDim),
         NEW g \in KvHeads, NEW j \in 0..(total_context_sqlen - 1), NEW c \in Columns
  PROVE  Viewed(Refreshed(cache, new), g, j, c) =
           IF j < past_sqlen THEN Viewed(cache, g, j, c) ELSE At(new, g, j - past_sqlen, c)
<1> DEFINE stride == context_head_stride
<1> DEFINE inner == new_head_stride
<1> DEFINE rest == j * HeadDim + c
<1> DEFINE before == past_sqlen * HeadDim
<1> DEFINE a == g * stride + rest
<1>1. /\ NumKvHead \in Nat /\ HeadDim \in Nat \ {0} /\ MaxSqlen \in Nat
      /\ g \in 0..(NumKvHead - 1) /\ c \in 0..(HeadDim - 1)
      /\ j \in 0..(MaxSqlen - 1) /\ j \in 0..((past_sqlen + sqlen) - 1)
  <2>1. /\ NumKvHead \in Nat /\ HeadDim \in Nat \ {0} /\ MaxSqlen \in Nat
        /\ g \in 0..(NumKvHead - 1) /\ c \in 0..(HeadDim - 1)
    BY Widths DEF KvHeads, Columns
  <2> QED
    BY <2>1 DEF total_context_sqlen
<1>2. /\ stride \in Nat /\ stride = MaxSqlen * HeadDim
      /\ inner \in Nat /\ inner = sqlen * HeadDim
      /\ before \in Nat /\ rest \in Nat
  BY <1>1 DEF context_head_stride, new_head_stride
<1>3. rest \in 0..(stride - 1)
  BY <1>1, <1>2, RowMajor
<1>4. /\ a \in 0..(NumKvHead * stride - 1)
      /\ a \div stride = g /\ a % stride = rest
  <2>1. NumKvHead \in Nat /\ stride \in Nat /\ g \in 0..(NumKvHead - 1)
    BY <1>1, <1>2
  <2> HIDE DEF rest, stride
  <2> QED
    BY <1>3, <2>1, RowMajor
<1>5. Viewed(Refreshed(cache, new), g, j, c) = Refreshed(cache, new)[a]
  <2>1. g * context_head_stride + j * HeadDim + c = a
    <3>1. g * stride \in Nat /\ j * HeadDim \in Nat /\ c \in Nat
      BY <1>1, <1>2
    <3> QED
      BY <3>1
  <2> QED
    BY <2>1 DEF Viewed
<1>6. Viewed(cache, g, j, c) = cache[a]
  <2>1. g * context_head_stride + j * HeadDim + c = a
    <3>1. g * stride \in Nat /\ j * HeadDim \in Nat /\ c \in Nat
      BY <1>1, <1>2
    <3> QED
      BY <3>1
  <2> QED
    BY <2>1 DEF Viewed
<1>7. Refreshed(cache, new)[a] =
        IF rest - before \in 0..(inner - 1) THEN new.data[g * inner + (rest - before)] ELSE cache[a]
  <2> HIDE DEF rest, before
  <2>1. a \in DOMAIN cache
    BY <1>4
  <2>2. Refreshed(cache, new)[a] =
          LET head   == a \div context_head_stride
              offset == (a % context_head_stride) - past_sqlen * HeadDim
          IN  IF offset \in 0..(new_head_stride - 1)
              THEN new.data[head * new_head_stride + offset] ELSE cache[a]
    <3> HIDE DEF a, stride, inner
    <3> QED
      BY <2>1 DEF Refreshed
  <2> QED
    BY <1>4, <2>2 DEF before
<1>8. CASE j < past_sqlen
  <2>1. (j + 1) * HeadDim <= before
    <3>1. j + 1 \in Nat /\ j + 1 <= past_sqlen
      BY <1>1, <1>8
    <3> QED
      BY <1>1, <3>1, Monotone
  <2>2. (j + 1) * HeadDim = j * HeadDim + HeadDim /\ j * HeadDim \in Nat
    BY <1>1
  <2>3. rest < before
    BY <1>1, <1>2, <2>1, <2>2
  <2>4. ~(rest - before \in 0..(inner - 1))
    <3> HIDE DEF rest, before, inner
    <3> QED
      BY <1>2, <2>3
  <2> QED
    BY <1>5, <1>6, <1>7, <1>8, <2>4
<1>9. CASE ~(j < past_sqlen)
  <2> DEFINE i == j - past_sqlen
  <2>1. i \in 0..(sqlen - 1) /\ j = past_sqlen + i
    BY <1>1, <1>9
  <2>2. rest - before = i * HeadDim + c
    <3>1. j * HeadDim = before + i * HeadDim /\ i * HeadDim \in Nat
      <4> HIDE DEF i
      <4> QED
        BY <1>1, <2>1
    <3> QED
      BY <1>1, <1>2, <3>1
  <2>3. i * HeadDim + c \in 0..(inner - 1)
    <3> HIDE DEF i
    <3> QED
      BY <1>1, <1>2, <2>1, RowMajor
  <2>4. At(new, g, i, c) = new.data[(g * sqlen * HeadDim) + (i * HeadDim) + c]
    BY DEF At, Shaped
  <2>5. (g * sqlen * HeadDim) + (i * HeadDim) + c = g * inner + (i * HeadDim + c)
    <3> HIDE DEF i
    <3>1. g * sqlen * HeadDim = g * (sqlen * HeadDim) /\ g * (sqlen * HeadDim) \in Nat /\ i * HeadDim \in Nat
      BY <1>1, <2>1
    <3> QED
      BY <1>1, <1>2, <3>1
  <2>6. At(new, g, i, c) = new.data[g * inner + (rest - before)]
    BY <2>2, <2>4, <2>5
  <2>7. rest - before \in 0..(inner - 1)
    BY <2>2, <2>3
  <2> QED
    BY <1>5, <1>7, <1>9, <2>6, <2>7
<1> QED
  BY <1>8, <1>9

LEMMA RefreshKeepsIInv ==
  ASSUME FourToOne, IInv, RefreshKV
  PROVE  IInv'
<1>1. /\ sqlen \in Nat /\ past_sqlen \in Nat /\ past_sqlen + sqlen < MaxSqlen
      /\ pc = "refresh" /\ pc' = "score" /\ UNCHANGED <<past_sqlen, sqlen, states>>
      /\ Sizes /\ CachesOK /\ QueriesOK /\ KeysOK /\ ValuesOK
  BY DEF IInv, Sizes, RefreshKV
<1>2. /\ DOMAIN k_cache = 0..(NumKvHead * context_head_stride - 1)
      /\ DOMAIN v_cache = 0..(NumKvHead * context_head_stride - 1)
      /\ Shaped(key_states, NumKvHead, sqlen, HeadDim)
      /\ Shaped(value_states, NumKvHead, sqlen, HeadDim)
      /\ k_cache' = Refreshed(k_cache, key_states) /\ v_cache' = Refreshed(v_cache, value_states)
  BY <1>1 DEF CachesOK, KeysOK, ValuesOK, RefreshKV
<1>3. ASSUME NEW g \in KvHeads, NEW j \in 0..(total_context_sqlen - 1), NEW c \in Columns
      PROVE  /\ Viewed(k_cache', g, j, c) = Rotated("k_norm", j, KeyFirst(g))[c]
             /\ Viewed(v_cache', g, j, c) = <<j, ValueFirst(g) + c>>
  <2>1. Viewed(k_cache', g, j, c) =
          IF j < past_sqlen THEN Viewed(k_cache, g, j, c) ELSE At(key_states, g, j - past_sqlen, c)
    BY <1>1, <1>2, RefreshedIs
  <2>2. Viewed(v_cache', g, j, c) =
          IF j < past_sqlen THEN Viewed(v_cache, g, j, c) ELSE At(value_states, g, j - past_sqlen, c)
    BY <1>1, <1>2, RefreshedIs
  <2>3. CASE j < past_sqlen
    <3>1. j \in 0..(Cached - 1)
      BY <1>1, <2>3 DEF Cached, total_context_sqlen
    <3> QED
      BY <1>1, <2>1, <2>2, <2>3, <3>1 DEF CachesOK
  <2>4. CASE ~(j < past_sqlen)
    <3>1. j - past_sqlen \in Rows /\ past_sqlen + (j - past_sqlen) = j
      BY <1>1, <2>4 DEF Rows, total_context_sqlen
    <3>2. /\ At(key_states, g, j - past_sqlen, c) =
               Rotated("k_norm", past_sqlen + (j - past_sqlen), KeyFirst(g))[c]
          /\ At(value_states, g, j - past_sqlen, c) =
               <<past_sqlen + (j - past_sqlen), ValueFirst(g) + c>>
      BY <1>1, <3>1 DEF KeysOK, ValuesOK
    <3> QED
      BY <2>1, <2>2, <2>4, <3>1, <3>2
  <2> QED
    BY <2>3, <2>4
<1>4. CachesOK'
  <2>1. /\ DOMAIN k_cache' = 0..(NumKvHead * context_head_stride - 1)
        /\ DOMAIN v_cache' = 0..(NumKvHead * context_head_stride - 1)
    BY <1>2 DEF Refreshed
  <2>2. Cached' = total_context_sqlen
    BY <1>1 DEF Cached, total_context_sqlen
  <2> QED
    BY <1>3, <2>1, <2>2 DEF CachesOK, context_head_stride, Viewed
<1>5. QueriesOK'
  BY <1>1 DEF QueriesOK, states, Rows
<1>6. Sizes'
  BY <1>1 DEF Sizes
<1>7. OutputIsAttention'
  BY <1>1 DEF OutputIsAttention
<1> QED
  BY <1>1, <1>4, <1>5, <1>6, <1>7 DEF IInv

LEMMA ScoreKeepsIInv ==
  ASSUME FourToOne, IInv, QkBmm
  PROVE  IInv'
<1>1. /\ sqlen \in Nat /\ past_sqlen \in Nat /\ total_context_sqlen \in Nat
      /\ pc = "score" /\ pc' = "weigh" /\ UNCHANGED <<past_sqlen, sqlen, states, caches>>
      /\ Sizes /\ CachesOK /\ QueriesOK
  BY DEF IInv, Sizes, QkBmm, total_context_sqlen
<1>2. NumQHead \in Nat
  BY Widths
<1>3. ASSUME NEW h \in QHeads, NEW i \in Rows, NEW j \in 0..(total_context_sqlen - 1)
      PROVE  Score(h, i, j) = <<Rotated("q_norm", past_sqlen + i, QueryFirst(h)),
                                Rotated("k_norm", j, KeyFirst(h \div 4))>>
  <2>1. [c \in 0..(HeadDim - 1) |-> At(query_states, h, i, c)] =
          Rotated("q_norm", past_sqlen + i, QueryFirst(h))
    <3> DEFINE r == Rotated("q_norm", past_sqlen + i, QueryFirst(h))
    <3>1. r = [c \in 0..(HeadDim - 1) |-> r[c]]
      BY RotatedByColumns
    <3>2. \A c \in 0..(HeadDim - 1) : At(query_states, h, i, c) = r[c]
      BY <1>1 DEF QueriesOK, Columns
    <3> HIDE DEF r
    <3> QED
      BY <3>1, <3>2 DEF r
  <2>2. Group(h) = h \div 4 /\ h \div 4 \in KvHeads
    BY Widths DEF QHeads, KvHeads
  <2>3. [c \in 0..(HeadDim - 1) |-> Viewed(k_cache, Group(h), j, c)] =
          Rotated("k_norm", j, KeyFirst(h \div 4))
    <3> DEFINE r == Rotated("k_norm", j, KeyFirst(h \div 4))
    <3>1. r = [c \in 0..(HeadDim - 1) |-> r[c]]
      BY RotatedByColumns
    <3>2. Cached = total_context_sqlen
      BY <1>1 DEF Cached
    <3>3. \A c \in 0..(HeadDim - 1) : Viewed(k_cache, Group(h), j, c) = r[c]
      BY <1>1, <2>2, <3>2 DEF CachesOK, Columns
    <3> HIDE DEF r
    <3> QED
      BY <3>1, <3>3 DEF r
  <2> QED
    BY <2>1, <2>3 DEF Score
<1>4. /\ Shaped(attn_weights', NumQHead, sqlen, total_context_sqlen)
      /\ \A h \in QHeads, i \in Rows, j \in 0..(total_context_sqlen - 1) :
           At(attn_weights', h, i, j) = Score(h, i, j)
  <2> DEFINE t == total_context_sqlen
  <2> DEFINE w == attn_weights'
  <2>1. /\ w.x = NumQHead /\ w.y = sqlen /\ w.z = t
        /\ DOMAIN w = {"x", "y", "z", "data"}
        /\ w.data = [a \in 0..(NumQHead * sqlen * t - 1) |->
                       Score(a \div (sqlen * t), (a \div t) % sqlen, a % t)]
    BY DEF QkBmm, Filled
  <2> HIDE DEF t, w
  <2>2. ASSUME NEW h \in QHeads, NEW i \in Rows, NEW j \in 0..(t - 1)
        PROVE  At(w, h, i, j) = Score(h, i, j)
    <3> DEFINE a == (h * sqlen * t) + (i * t) + j
    <3>1. Place(NumQHead, sqlen, t, h, i, j, a)
      BY <1>1, <1>2, EveryPlace DEF QHeads, Rows, t
    <3>2. At(w, h, i, j) = w.data[a]
      BY <2>1 DEF At
    <3> HIDE DEF a
    <3>3. /\ a \in 0..(NumQHead * sqlen * t - 1)
          /\ a \div (sqlen * t) = h /\ (a \div t) % sqlen = i /\ a % t = j
      BY <3>1 DEF Place
    <3> QED
      BY <2>1, <3>2, <3>3
  <2> QED
    BY <2>1, <2>2 DEF Shaped, t, w
<1>5. ScoresOK'
  BY <1>1, <1>3, <1>4 DEF ScoresOK, Rows, total_context_sqlen
<1>6. Sizes'
  BY <1>1 DEF Sizes
<1>7. CachesOK'
  BY <1>1, CachesStay DEF Cached, total_context_sqlen
<1>8. OutputIsAttention'
  BY <1>1 DEF OutputIsAttention
<1> QED
  BY <1>1, <1>5, <1>6, <1>7, <1>8 DEF IInv

LEMMA WeighKeepsIInv ==
  ASSUME FourToOne, IInv, PvBmm
  PROVE  IInv'
<1>1. /\ sqlen \in Nat /\ past_sqlen \in Nat /\ total_context_sqlen = past_sqlen + sqlen
      /\ pc = "weigh" /\ pc' = "reshape" /\ UNCHANGED <<past_sqlen, sqlen, caches>>
      /\ Sizes /\ CachesOK /\ ScoresOK
  BY DEF IInv, Sizes, PvBmm, total_context_sqlen
<1>2. NumQHead \in Nat /\ HeadDim \in Nat
  BY Widths
<1>3. ASSUME NEW h \in QHeads, NEW i \in Rows, NEW c \in Columns
      PROVE  Weighted(h, i, c) = Attention(past_sqlen + i, h, c)
  <2>1. Visible(i) = 0..(past_sqlen + i) /\ Visible(i) \subseteq 0..(total_context_sqlen - 1)
    BY <1>1 DEF Visible, Rows
  <2>2. Group(h) = h \div 4 /\ h \div 4 \in KvHeads
    BY Widths DEF QHeads, KvHeads
  <2>3. \A j \in 0..(past_sqlen + i) :
          At(attn_weights, h, i, j) = <<Rotated("q_norm", past_sqlen + i, QueryFirst(h)),
                                        Rotated("k_norm", j, KeyFirst(h \div 4))>>
    BY <1>1, <2>1 DEF ScoresOK
  <2>4. Cached = total_context_sqlen
    BY <1>1 DEF Cached
  <2>5. \A j \in 0..(past_sqlen + i) :
          Viewed(v_cache, Group(h), j, c) = <<j, ValueFirst(h \div 4) + c>>
    BY <1>1, <2>1, <2>2, <2>4 DEF CachesOK
  <2>6. Weighted(h, i, c) =
          <<[j \in 0..(past_sqlen + i) |-> At(attn_weights, h, i, j)],
            [j \in 0..(past_sqlen + i) |-> Viewed(v_cache, Group(h), j, c)]>>
    BY <2>1 DEF Weighted
  <2>7. Attention(past_sqlen + i, h, c) =
          <<[j \in 0..(past_sqlen + i) |-> <<Rotated("q_norm", past_sqlen + i, QueryFirst(h)),
                                             Rotated("k_norm", j, KeyFirst(h \div 4))>>],
            [j \in 0..(past_sqlen + i) |-> <<j, ValueFirst(h \div 4) + c>>]>>
    BY DEF Attention, QueryFirst, KeyFirst, ValueFirst
  <2>8. [j \in 0..(past_sqlen + i) |-> At(attn_weights, h, i, j)] =
          [j \in 0..(past_sqlen + i) |-> <<Rotated("q_norm", past_sqlen + i, QueryFirst(h)),
                                           Rotated("k_norm", j, KeyFirst(h \div 4))>>]
    BY <2>3
  <2>9. [j \in 0..(past_sqlen + i) |-> Viewed(v_cache, Group(h), j, c)] =
          [j \in 0..(past_sqlen + i) |-> <<j, ValueFirst(h \div 4) + c>>]
    BY <2>5
  <2> QED
    BY <2>6, <2>7, <2>8, <2>9
<1>4. /\ Shaped(attn_output', NumQHead, sqlen, HeadDim)
      /\ \A h \in QHeads, i \in Rows, c \in Columns : At(attn_output', h, i, c) = Weighted(h, i, c)
  <2> DEFINE w == attn_output'
  <2>1. /\ w.x = NumQHead /\ w.y = sqlen /\ w.z = HeadDim
        /\ DOMAIN w = {"x", "y", "z", "data"}
        /\ w.data = [a \in 0..(NumQHead * sqlen * HeadDim - 1) |->
                       Weighted(a \div (sqlen * HeadDim), (a \div HeadDim) % sqlen, a % HeadDim)]
    BY DEF PvBmm, Filled
  <2> HIDE DEF w
  <2>2. ASSUME NEW h \in QHeads, NEW i \in Rows, NEW c \in Columns
        PROVE  At(w, h, i, c) = Weighted(h, i, c)
    <3> DEFINE a == (h * sqlen * HeadDim) + (i * HeadDim) + c
    <3>1. Place(NumQHead, sqlen, HeadDim, h, i, c, a)
      BY <1>1, <1>2, EveryPlace DEF QHeads, Rows, Columns
    <3>2. At(w, h, i, c) = w.data[a]
      BY <2>1 DEF At
    <3> HIDE DEF a
    <3>3. /\ a \in 0..(NumQHead * sqlen * HeadDim - 1)
          /\ a \div (sqlen * HeadDim) = h /\ (a \div HeadDim) % sqlen = i /\ a % HeadDim = c
      BY <3>1 DEF Place
    <3> QED
      BY <2>1, <3>2, <3>3
  <2> QED
    BY <2>1, <2>2 DEF Shaped, w
<1>5. HeadsOK'
  BY <1>1, <1>3, <1>4 DEF HeadsOK, Rows
<1>6. Sizes'
  BY <1>1 DEF Sizes
<1>7. CachesOK'
  BY <1>1, CachesStay DEF Cached, total_context_sqlen
<1>8. OutputIsAttention'
  BY <1>1 DEF OutputIsAttention
<1> QED
  BY <1>1, <1>5, <1>6, <1>7, <1>8 DEF IInv

LEMMA ReshapeKeepsIInv ==
  ASSUME FourToOne, IInv, Reshape
  PROVE  IInv'
<1>1. /\ sqlen \in Nat /\ past_sqlen \in Nat /\ past_sqlen + sqlen < MaxSqlen
      /\ pc = "reshape" /\ pc' = "idle" /\ UNCHANGED <<sqlen, caches>>
      /\ past_sqlen' = past_sqlen + sqlen
      /\ CachesOK /\ HeadsOK
  BY DEF IInv, Sizes, Reshape, total_context_sqlen
<1>2. /\ NumQHead \in Nat /\ HeadDim \in Nat \ {0} /\ MaxSqlen \in Nat
      /\ QDim = NumQHead * HeadDim
  BY Widths
<1>3. ASSUME NEW i \in Rows, NEW h \in QHeads, NEW c \in Columns
      PROVE  At(attn_output', 0, i, h * HeadDim + c) = Attention(past_sqlen + i, h, c)
  <2> DEFINE p == Permute01(attn_output)
  <2>1. Shaped(attn_output, NumQHead, sqlen, HeadDim)
    BY <1>1 DEF HeadsOK
  <2>2. Shaped(p, sqlen, NumQHead, HeadDim)
    BY <1>1, <1>2, <2>1, Permute01Exchanges
  <2>3. At(p, i, h, c) = At(attn_output, h, i, c)
    BY <1>1, <1>2, <2>1, Permute01Exchanges DEF Rows, QHeads, Columns
  <2>4. attn_output' = View(p, 1, sqlen, NumQHead * HeadDim)
    BY <1>2 DEF Reshape
  <2> HIDE DEF p
  <2>5. At(attn_output', 0, i, h * HeadDim + c) = At(p, i, h, c)
    BY <1>1, <1>2, <2>2, <2>4, ViewJoinsRows DEF Rows, QHeads, Columns
  <2> QED
    BY <1>1, <2>3, <2>5 DEF HeadsOK
<1>4. OutputIsAttention'
  <2> SUFFICES ASSUME NEW i \in Rows, NEW col \in 0..(QDim - 1)
               PROVE  At(attn_output', 0, i, col) =
                        Attention(past_sqlen' - sqlen' + i, col \div HeadDim, col % HeadDim)
    BY <1>1 DEF OutputIsAttention, Rows
  <2>1. /\ col \div HeadDim \in 0..(NumQHead - 1) /\ col % HeadDim \in 0..(HeadDim - 1)
        /\ col = (col \div HeadDim) * HeadDim + (col % HeadDim)
    BY <1>2, RowMajorSplit
  <2>2. past_sqlen' - sqlen' + i = past_sqlen + i
    BY <1>1 DEF Rows
  <2>3. At(attn_output', 0, i, (col \div HeadDim) * HeadDim + (col % HeadDim)) =
          Attention(past_sqlen + i, col \div HeadDim, col % HeadDim)
    BY <1>3, <2>1 DEF QHeads, Columns
  <2> QED
    BY <2>1, <2>2, <2>3
<1>5. Sizes'
  BY <1>1, <1>2 DEF Sizes
<1>6. CachesOK'
  <2>1. Cached' = past_sqlen + sqlen /\ Cached = past_sqlen + sqlen
    BY <1>1 DEF Cached, total_context_sqlen
  <2> QED
    BY <1>1, <2>1 DEF CachesOK, caches, Viewed, context_head_stride
<1> QED
  BY <1>1, <1>4, <1>5, <1>6 DEF IInv

LEMMA StutterKeepsIInv ==
  ASSUME IInv, UNCHANGED vars
  PROVE  IInv'
<1>1. Sizes'
  BY DEF IInv, Sizes, vars
<1>2. CachesOK'
  BY CachesStay DEF IInv, vars, Cached, total_context_sqlen
<1>3. /\ pc' = "norm" => SplitOK'
      /\ pc' = "rotate" => NormedOK'
      /\ pc' \in {"rotate", "refresh"} => ValuesOK'
  BY DEF IInv, vars, states, SplitOK, NormedOK, ValuesOK, Rows
<1>4. /\ pc' \in {"refresh", "score"} => QueriesOK'
      /\ pc' = "refresh" => KeysOK'
      /\ pc' = "weigh" => ScoresOK'
      /\ pc' = "reshape" => HeadsOK'
  BY DEF IInv, vars, states, QueriesOK, KeysOK, ScoresOK, HeadsOK, Rows, total_context_sqlen
<1>5. OutputIsAttention'
  BY DEF IInv, vars, OutputIsAttention
<1> QED
  BY <1>1, <1>2, <1>3, <1>4, <1>5 DEF IInv

-----------------------------------------------------------------------------
(* What a call returns is attention, for every number of heads, columns and *)
(* positions and every sequence of calls: column col of a token's row is    *)
(* head col / head_dim of it over all positions up to its own.              *)
THEOREM CallIsAttention ==
  ASSUME FourToOne
  PROVE  Spec => []OutputIsAttention
<1>1. Init => IInv
  BY InitIInv
<1>2. IInv /\ [Next]_vars => IInv'
  BY CallKeepsIInv, SplitKeepsIInv, NormKeepsIInv, RopeKeepsIInv, RefreshKeepsIInv,
     ScoreKeepsIInv, WeighKeepsIInv, ReshapeKeepsIInv, StutterKeepsIInv DEF Next
<1>3. IInv => OutputIsAttention
  BY DEF IInv
<1> QED
  BY <1>1, <1>2, <1>3, PTL DEF Spec
=============================================================================
