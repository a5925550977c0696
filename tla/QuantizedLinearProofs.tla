----------------------- MODULE QuantizedLinearProofs -----------------------
(***************************************************************************)
(* Theorems about the quantised linear layers, for every number of layers  *)
(* and every shape, block size, team and sequence of passes: what a layer  *)
(* holds was read from its own files, every output is the product of the   *)
(* layer with this call's activation, and no kernel reads outside the      *)
(* shared activation buffer.                                               *)
(*                                                                         *)
(* The buffers are as large as the constructor of the model makes them,    *)
(* which is enough under the two conditions below.                         *)
(***************************************************************************)
EXTENDS QuantizedLinear, Foundations, SequenceTheorems, TLAPS

(* A block of weights, its scales and its offsets take QBlk / 2 + 8 bytes   *)
(* where RepackBytes has 24: blocks of 32, as the code has them, just fit.  *)
BlocksFit == QBlk <= 32

(* The rows that a full tile reads behind the last valid one have to fit    *)
(* into what the buffer has too much: with the code's block of 32 and six   *)
(* rows at once that is so from max_sqlen = 13 on.                          *)
TilesFit == (RowsAtOnce - 1) * (QBlk + 8) <= 16 * MaxLen

-----------------------------------------------------------------------------
(* Shapes                                                                   *)

LEMMA Constants ==
  /\ {QBlk, Pack, Cols, RowsAtOnce, MaxWeights, MaxActCols, MaxLen} \subseteq Nat \ {0}
  /\ QBlk % (2 * Pack) = 0
  /\ 1 \in DOMAIN Layers /\ Len(Layers) \in DOMAIN Layers /\ DOMAIN Layers = 1..Len(Layers)
  /\ RowCounts \subseteq 1..MaxLen
<1>1. Len(Layers) \in Nat /\ Len(Layers) # 0
  BY LinearAssumption, EmptySeq
<1>2. DOMAIN Layers = 1..Len(Layers)
  BY LinearAssumption
<1>3. 1 \in DOMAIN Layers /\ Len(Layers) \in DOMAIN Layers
  BY <1>1, <1>2
<1> QED
  BY <1>2, <1>3, LinearAssumption

(* A row of weights is kb pairs of blocks, and cb groups of columns make    *)
(* the layer.                                                               *)
Shape(l, kb, cb) ==
  /\ kb \in Nat \ {0} /\ cb \in Nat \ {0}
  /\ Layers[l].n \in Nat \ {0} /\ Layers[l].k \in Nat \ {0}
  /\ Layers[l].k = kb * (2 * QBlk) /\ Layers[l].n = cb * Cols
  /\ BlocksAlongK(l) = kb
  /\ Layers[l].k \div 2 = kb * QBlk
  /\ Layers[l].k \div QBlk = 2 * kb
  /\ Layers[l].n \div Cols = cb
  /\ NumRepackBlocks(l) = cb * kb

LEMMA QuotientIs ==
  ASSUME NEW n \in Nat \ {0}, NEW q \in Nat, NEW a, a = q * n
  PROVE  a \div n = q /\ a % n = 0
<1>1. q * n \in Nat /\ q * n = q * n + 0 /\ 0 \in 0..(n - 1)
  OBVIOUS
<1> QED
  BY <1>1, OneQuotient

LEMMA EveryShape ==
  ASSUME NEW l \in DOMAIN Layers
  PROVE  \E kb \in Nat \ {0}, cb \in Nat \ {0} : Shape(l, kb, cb)
<1> DEFINE n == Layers[l].n
<1> DEFINE k == Layers[l].k
<1>1. /\ n \in Nat \ {0} /\ k \in Nat \ {0}
      /\ n % Cols = 0 /\ k % (2 * QBlk) = 0
      /\ QBlk \in Nat \ {0} /\ Cols \in Nat \ {0} /\ 2 * QBlk \in Nat \ {0}
  <2>1. Layers[l] \in [n : Nat \ {0}, k : Nat \ {0}]
    <3>1. Layers \in Seq([n : Nat \ {0}, k : Nat \ {0}])
      BY LinearAssumption
    <3>2. l \in 1..Len(Layers)
      BY Constants
    <3> QED
      BY <3>1, <3>2, ElementOfSeq
  <2>2. n \in Nat \ {0} /\ k \in Nat \ {0}
    BY <2>1
  <2>3. n % Cols = 0 /\ k % (2 * QBlk) = 0
    BY LinearAssumption
  <2>4. QBlk \in Nat \ {0} /\ Cols \in Nat \ {0}
    BY Constants
  <2> HIDE DEF n, k
  <2>5. 2 * QBlk \in Nat \ {0}
    BY <2>4
  <2> QED
    BY <2>2, <2>3, <2>4, <2>5
<1> HIDE DEF n, k
<1>2. PICK cb \in Nat : n = Cols * cb
  BY <1>1, MultipleOf
<1>3. PICK kb \in Nat : k = (2 * QBlk) * kb
  BY <1>1, MultipleOf
<1>4. n = cb * Cols /\ k = kb * (2 * QBlk) /\ cb # 0 /\ kb # 0
  BY <1>1, <1>2, <1>3
<1>5. n \div Cols = cb /\ k \div (2 * QBlk) = kb
  BY <1>1, <1>4, QuotientIs
<1>6. k \div 2 = kb * QBlk
  <2>1. k = (kb * QBlk) * 2 /\ kb * QBlk \in Nat
    BY <1>1, <1>4
  <2> QED
    BY <2>1, QuotientIs
<1>7. k \div QBlk = 2 * kb
  <2>1. k = (2 * kb) * QBlk /\ 2 * kb \in Nat
    BY <1>1, <1>4
  <2> QED
    BY <1>1, <2>1, QuotientIs
<1>8. (n * k) \div (2 * QBlk * Cols) = cb * kb
  <2>1. n * k = (cb * kb) * (2 * QBlk * Cols)
    <3> DEFINE q2 == 2 * QBlk
    <3>1. q2 \in Nat
      BY <1>1
    <3>2. n = cb * Cols /\ k = kb * q2
      BY <1>4
    <3> HIDE DEF q2
    <3>3. n * k = (cb * Cols) * (kb * q2)
      BY <3>2
    <3>4. (cb * Cols) * (kb * q2) = (cb * kb) * (q2 * Cols)
      BY <1>1, <3>1
    <3> QED
      BY <3>3, <3>4 DEF q2
  <2>2. 2 * QBlk * Cols \in Nat \ {0} /\ cb * kb \in Nat
    BY <1>1
  <2> QED
    BY <2>1, <2>2, QuotientIs
<1> QED
  BY <1>1, <1>4, <1>5, <1>6, <1>7, <1>8 DEF n, k, Shape, BlocksAlongK, NumRepackBlocks

-----------------------------------------------------------------------------
(* The sections of the repack buffer                                        *)

\* Pairs of blocks of a layer, each with two scales and two offsets.
Pairs(l) == Layers[l].n * BlocksAlongK(l)

LEMMA FileSizes ==
  /\ DOMAIN Files = 1..4 /\ Len(Files) = 4
  /\ Files[1] = "weight" /\ Files[2] = "scale" /\ Files[3] = "offset" /\ Files[4] = "zero_point"
  /\ ElementBytes(1) = 1 /\ ElementBytes(2) = 4 /\ ElementBytes(3) = 4 /\ ElementBytes(4) = 1
  BY DEF Files, ElementBytes

LEMMA Sections ==
  ASSUME NEW l \in DOMAIN Layers
  PROVE  /\ Pairs(l) \in Nat \ {0} /\ Pairs(l) * QBlk \in Nat
         /\ Length(l, 1) = Pairs(l) * QBlk
         /\ Length(l, 2) = 2 * Pairs(l) /\ Length(l, 3) = 2 * Pairs(l)
         /\ Length(l, 4) = 2 * Pairs(l)
         /\ SectionBytes(l, 1) = Pairs(l) * QBlk
         /\ SectionBytes(l, 2) = 8 * Pairs(l) /\ SectionBytes(l, 3) = 8 * Pairs(l)
         /\ SectionBytes(l, 4) = 2 * Pairs(l)
         /\ Start(l, 1) = 0
         /\ Start(l, 2) = Pairs(l) * QBlk
         /\ Start(l, 3) = Pairs(l) * QBlk + 8 * Pairs(l)
         /\ Start(l, 4) = Pairs(l) * QBlk + 16 * Pairs(l)
<1>1. PICK kb \in Nat \ {0}, cb \in Nat \ {0} : Shape(l, kb, cb)
  BY EveryShape
<1>2. QBlk \in Nat \ {0}
  BY Constants
<1> DEFINE n == Layers[l].n
<1> DEFINE p == Pairs(l)
<1>3. n \in Nat \ {0} /\ p = n * kb
  BY <1>1 DEF Shape, Pairs
<1>4. p \in Nat \ {0}
  BY <1>3
<1>5. Length(l, 1) = n * (kb * QBlk) /\ \A f \in 2..4 : Length(l, f) = n * (2 * kb)
  BY <1>1 DEF Shape, Length
<1> HIDE DEF n, p
<1>6. n * (kb * QBlk) = p * QBlk /\ n * (2 * kb) = 2 * p
  BY <1>2, <1>3
<1>7. p * QBlk \in Nat
  BY <1>2, <1>4
<1>8. Length(l, 1) = p * QBlk /\ Length(l, 2) = 2 * p /\ Length(l, 3) = 2 * p /\ Length(l, 4) = 2 * p
  BY <1>5, <1>6
<1>9. /\ SectionBytes(l, 1) = p * QBlk /\ SectionBytes(l, 2) = 8 * p
      /\ SectionBytes(l, 3) = 8 * p /\ SectionBytes(l, 4) = 2 * p
  BY <1>4, <1>7, <1>8, FileSizes DEF SectionBytes
<1>10. /\ Start(l, 1) = 0 /\ Start(l, 2) = SectionBytes(l, 1)
       /\ Start(l, 3) = SectionBytes(l, 1) + SectionBytes(l, 2)
       /\ Start(l, 4) = SectionBytes(l, 1) + SectionBytes(l, 2) + SectionBytes(l, 3)
  BY DEF Start
<1>11. /\ Start(l, 1) = 0 /\ Start(l, 2) = p * QBlk
       /\ Start(l, 3) = p * QBlk + 8 * p
       /\ Start(l, 4) = p * QBlk + 16 * p
  BY <1>4, <1>7, <1>9, <1>10
<1> QED
  BY <1>4, <1>7, <1>8, <1>9, <1>11 DEF p

(* The three sections that are repacked lie one behind the other.           *)
LEMMA SectionsInARow ==
  ASSUME NEW l \in DOMAIN Layers
  PROVE  /\ \A f \in 1..4 : Start(l, f) \in Nat /\ SectionBytes(l, f) \in Nat
         /\ \A f \in 1..3 : \A g \in (f + 1)..4 : Start(l, f) + SectionBytes(l, f) <= Start(l, g)
<1> DEFINE p == Pairs(l)
<1> DEFINE pq == Pairs(l) * QBlk
<1>1. /\ p \in Nat /\ pq \in Nat
      /\ SectionBytes(l, 1) = pq /\ SectionBytes(l, 2) = 8 * p /\ SectionBytes(l, 3) = 8 * p
      /\ SectionBytes(l, 4) = 2 * p
      /\ Start(l, 1) = 0 /\ Start(l, 2) = pq /\ Start(l, 3) = pq + 8 * p
      /\ Start(l, 4) = pq + 16 * p
  BY Sections
<1> HIDE DEF p, pq
<1>2. \A f \in 1..4 : f \in {1, 2, 3, 4}
  OBVIOUS
<1>3. \A f \in 1..4 : Start(l, f) \in Nat /\ SectionBytes(l, f) \in Nat
  BY <1>1, <1>2
<1>4. ASSUME NEW f \in 1..3, NEW g \in (f + 1)..4
      PROVE  Start(l, f) + SectionBytes(l, f) <= Start(l, g)
  <2>1. \/ f = 1 /\ g \in {2, 3, 4}
        \/ f = 2 /\ g \in {3, 4}
        \/ f = 3 /\ g = 4
    OBVIOUS
  <2> QED
    BY <1>1, <2>1
<1> QED
  BY <1>3, <1>4

(* Weights, scales and offsets of every layer fit the buffer; it is the     *)
(* zero points that may not.                                                *)
LEMMA SectionsFit ==
  ASSUME BlocksFit, NEW l \in DOMAIN Layers
  PROVE  RepackBytes \in Nat /\ Start(l, 4) <= RepackBytes
<1>1. PICK kb \in Nat \ {0}, cb \in Nat \ {0} : Shape(l, kb, cb)
  BY EveryShape
<1>2. QBlk \in 1..32 /\ MaxWeights \in Nat
  <2>1. QBlk \in Nat \ {0} /\ MaxWeights \in Nat
    BY Constants
  <2> QED
    BY <2>1 DEF BlocksFit
<1> DEFINE p == Pairs(l)
<1>3. p \in Nat /\ p * QBlk \in Nat /\ Start(l, 4) = p * QBlk + 16 * p
  BY Sections
<1>4. (2 * p) * QBlk <= MaxWeights
  <2>1. Layers[l].n * Layers[l].k <= MaxWeights
    BY LinearAssumption
  <2>2. Layers[l].k = kb * (2 * QBlk) /\ p = Layers[l].n * kb /\ Layers[l].n \in Nat
    BY <1>1 DEF Shape, Pairs
  <2> HIDE DEF p
  <2>3. Layers[l].n * Layers[l].k = (2 * p) * QBlk
    BY <1>2, <2>2
  <2> QED
    BY <2>1, <2>3
<1> HIDE DEF p
<1> DEFINE blocks == MaxWeights \div QBlk
<1>5. blocks \in Nat /\ 2 * p <= blocks
  <2> DEFINE r == MaxWeights % QBlk
  <2>1. blocks \in Nat /\ r \in 0..(QBlk - 1) /\ MaxWeights = QBlk * blocks + r
    BY <1>2, Division
  <2> HIDE DEF blocks, r
  <2>2. CASE blocks + 1 <= 2 * p
    <3>1. (blocks + 1) * QBlk <= (2 * p) * QBlk
      BY <1>2, <1>3, <2>1, <2>2, Monotone
    <3>2. (blocks + 1) * QBlk = QBlk * blocks + QBlk /\ QBlk * blocks \in Nat /\ (2 * p) * QBlk \in Nat
      BY <1>2, <1>3, <2>1
    <3> QED
      BY <1>2, <1>4, <2>1, <3>1, <3>2
  <2> QED
    BY <1>3, <2>1, <2>2
<1>6. RepackBytes = blocks * 24
  <2>1. 1 \div 2 = 0
    OBVIOUS
  <2>2. RepackBytes = blocks * (2 * 4 + 4 * 4 + 0 * QBlk + 0 * QBlk)
    BY <2>1 DEF RepackBytes
  <2> HIDE DEF blocks
  <2>3. 2 * 4 + 4 * 4 + 0 * QBlk + 0 * QBlk = 24
    BY <1>2
  <2> QED
    BY <2>2, <2>3
<1> HIDE DEF blocks
<1>7. p * QBlk <= p * 32
  BY <1>2, <1>3, Monotone
<1> QED
  BY <1>2, <1>3, <1>5, <1>6, <1>7

LEMMA BufferIsFinite == RepackBytes \in Nat
<1>1. QBlk \in Nat \ {0} /\ MaxWeights \in Nat
  BY Constants
<1>2. MaxWeights \div QBlk \in Nat
  BY <1>1, Division
<1> QED
  BY <1>1, <1>2 DEF RepackBytes

\* The buffer holds file f of layer l as far as it reaches.
Holds(l, f) ==
  \A a \in 0..(RepackBytes - 1) :
    a - Start(l, f) \in 0..(SectionBytes(l, f) - 1) =>
      repack_buffer[a] = <<l, Files[f], (a - Start(l, f)) \div ElementBytes(f)>>

LEMMA HeldElement ==
  ASSUME BlocksFit, NEW l \in DOMAIN Layers, NEW f \in 1..3, Holds(l, f),
         DOMAIN repack_buffer = 0..(RepackBytes - 1), NEW e \in 0..(Length(l, f) - 1)
  PROVE  Element(l, f, e) = <<l, Files[f], e>>
<1> DEFINE bytes == ElementBytes(f)
<1> DEFINE start == Start(l, f)
<1>1. /\ bytes \in {1, 4} /\ start \in Nat /\ Length(l, f) \in Nat /\ RepackBytes \in Nat
      /\ SectionBytes(l, f) = bytes * Length(l, f)
      /\ start + SectionBytes(l, f) <= RepackBytes
  <2>1. SectionBytes(l, f) = bytes * Length(l, f)
    BY DEF SectionBytes
  <2>2. start \in Nat /\ SectionBytes(l, f) \in Nat /\ Start(l, 4) \in Nat
        /\ start + SectionBytes(l, f) <= Start(l, 4)
    <3>1. f \in 1..4 /\ 4 \in 1..4 /\ 4 \in (f + 1)..4
      OBVIOUS
    <3> HIDE DEF start
    <3> QED
      BY <3>1, SectionsInARow DEF start
  <2>3. Start(l, 4) <= RepackBytes /\ RepackBytes \in Nat
    BY SectionsFit
  <2>4. bytes \in {1, 4}
    BY DEF ElementBytes
  <2>5. Length(l, f) \in Nat
    <3>1. f = 1 \/ f = 2 \/ f = 3
      OBVIOUS
    <3>2. \A g \in {1, 2, 3} : Length(l, g) \in Nat
      BY Sections
    <3> QED
      BY <3>1, <3>2
  <2> HIDE DEF bytes, start
  <2> QED
    BY <2>1, <2>2, <2>3, <2>4, <2>5
<1>2. ASSUME NEW d \in 0..(bytes - 1)
      PROVE  /\ start + e * bytes + d \in 0..(RepackBytes - 1)
             /\ repack_buffer[start + e * bytes + d] = <<l, Files[f], e>>
  <2> DEFINE a == start + e * bytes + d
  <2> DEFINE len == Length(l, f)
  <2> HIDE DEF bytes, start, len
  <2>1. e * bytes + d \in 0..(len * bytes - 1) /\ (e * bytes + d) \div bytes = e
    <3>1. len \in Nat /\ bytes \in Nat \ {0} /\ e \in 0..(len - 1)
      BY <1>1 DEF len
    <3> QED
      BY <3>1, RowMajor
  <2>2. a - start = e * bytes + d /\ a - start \in 0..(SectionBytes(l, f) - 1)
    <3>1. SectionBytes(l, f) = len * bytes /\ start \in Nat /\ e * bytes \in Nat
      BY <1>1 DEF len
    <3> QED
      BY <2>1, <3>1
  <2>3. a \in 0..(RepackBytes - 1)
    <3> DEFINE offset == a - start
    <3>1. offset \in 0..(SectionBytes(l, f) - 1)
      BY <2>2
    <3>2. start \in Nat /\ RepackBytes \in Nat /\ SectionBytes(l, f) \in Nat
          /\ start + SectionBytes(l, f) <= RepackBytes
      BY <1>1
    <3>3. a = start + offset
      BY <1>1, <2>2
    <3> HIDE DEF offset, a
    <3> QED
      BY <3>1, <3>2, <3>3
  <2>4. repack_buffer[a] = <<l, Files[f], (a - start) \div bytes>>
    BY <2>2, <2>3 DEF Holds, start, bytes
  <2> QED
    BY <2>1, <2>2, <2>3, <2>4
<1>3. Element(l, f, e) =
        IF start + e * bytes .. (start + e * bytes + bytes - 1) \subseteq DOMAIN repack_buffer
             /\ \A a \in start + e * bytes .. (start + e * bytes + bytes - 1) :
                  repack_buffer[a] = repack_buffer[start + e * bytes]
        THEN repack_buffer[start + e * bytes] ELSE Unset
  BY DEF Element
<1> HIDE DEF bytes, start
<1>4. \A a \in start + e * bytes .. (start + e * bytes + bytes - 1) :
        a \in DOMAIN repack_buffer /\ repack_buffer[a] = <<l, Files[f], e>>
  <2> SUFFICES ASSUME NEW a \in start + e * bytes .. (start + e * bytes + bytes - 1)
               PROVE  a \in DOMAIN repack_buffer /\ repack_buffer[a] = <<l, Files[f], e>>
    OBVIOUS
  <2>1. e * bytes \in Nat
    BY <1>1
  <2> DEFINE d == a - (start + e * bytes)
  <2>2. d \in 0..(bytes - 1) /\ start + e * bytes + d = a
    BY <1>1, <2>1
  <2> HIDE DEF d
  <2> QED
    BY <1>2, <2>2
<1>5. start + e * bytes \in start + e * bytes .. (start + e * bytes + bytes - 1)
  BY <1>1
<1> HIDE DEF Holds
<1> QED
  BY <1>3, <1>4, <1>5

-----------------------------------------------------------------------------
(* The repacked blocks                                                      *)

\* The place in a column and the place in the block of byte b of q_coupled.
LaneOf(b) == (b % (Pack * Cols)) \div Pack
PlaceOf(b) == (b \div (Pack * Cols)) * Pack + ((b % (Pack * Cols)) % Pack)

OwnScale(l, file_name, i, column) == <<l, file_name, column * (Layers[l].k \div QBlk) + i>>
OwnBlock(l, j, i) ==
  [s_low    |-> [jj \in 0..(Cols - 1) |-> OwnScale(l, "scale", 2 * i, j * Cols + jj)],
   s_high   |-> [jj \in 0..(Cols - 1) |-> OwnScale(l, "scale", 2 * i + 1, j * Cols + jj)],
   min_low  |-> [jj \in 0..(Cols - 1) |-> OwnScale(l, "offset", 2 * i, j * Cols + jj)],
   min_high |-> [jj \in 0..(Cols - 1) |-> OwnScale(l, "offset", 2 * i + 1, j * Cols + jj)],
   q_coupled |->
     [b \in 0..(QBlk * Cols - 1) |->
        <<l, "weight", (j * Cols + LaneOf(b)) * (Layers[l].k \div 2) + i * QBlk + PlaceOf(b)>>]]
OwnBlocks(l) ==
  [b \in 0..(NumRepackBlocks(l) - 1) |->
     OwnBlock(l, b \div BlocksAlongK(l), b % BlocksAlongK(l))]

LEMMA PacksFillBlock ==
  \E h \in Nat \ {0} : QBlk = (2 * h) * Pack
<1>1. QBlk \in Nat \ {0} /\ Pack \in Nat \ {0} /\ QBlk % (2 * Pack) = 0 /\ 2 * Pack \in Nat \ {0}
  BY Constants
<1>2. PICK h \in Nat : QBlk = (2 * Pack) * h
  BY <1>1, MultipleOf
<1>3. QBlk = (2 * h) * Pack /\ h # 0
  BY <1>1, <1>2
<1> QED
  BY <1>3

LEMMA LaneAndPlace ==
  ASSUME NEW b \in 0..(QBlk * Cols - 1)
  PROVE  LaneOf(b) \in 0..(Cols - 1) /\ PlaceOf(b) \in 0..(QBlk - 1)
<1>1. QBlk \in Nat \ {0} /\ Pack \in Nat \ {0} /\ Cols \in Nat \ {0}
  BY Constants
<1>2. PICK h \in Nat \ {0} : QBlk = (2 * h) * Pack
  BY PacksFillBlock
<1> DEFINE w == Pack * Cols
<1> DEFINE g == 2 * h
<1>3. g \in Nat /\ w \in Nat \ {0} /\ w = Cols * Pack
  BY <1>1
<1>4. QBlk * Cols = g * w
  BY <1>1, <1>2
<1> DEFINE q == b \div w
<1> DEFINE r == b % w
<1>5. q \in 0..(g - 1) /\ r \in 0..(w - 1)
  <2> HIDE DEF w, g
  <2> QED
    BY <1>3, <1>4, RowMajorSplit
<1>6. LaneOf(b) = r \div Pack /\ PlaceOf(b) = q * Pack + (r % Pack) /\ QBlk = g * Pack
  BY <1>2 DEF LaneOf, PlaceOf
<1> HIDE DEF w, g, q, r
<1>7. r \div Pack \in 0..(Cols - 1) /\ r % Pack \in 0..(Pack - 1)
  BY <1>1, <1>3, <1>5, RowMajorSplit
<1>8. q * Pack + (r % Pack) \in 0..(g * Pack - 1)
  BY <1>1, <1>3, <1>5, <1>7, RowMajor
<1> QED
  BY <1>6, <1>7, <1>8

\* The places a block takes its numbers from lie in the layer's files.
LEMMA OwnPlaces ==
  ASSUME NEW l \in DOMAIN Layers, NEW kb \in Nat \ {0}, NEW cb \in Nat \ {0}, Shape(l, kb, cb),
         NEW j \in 0..(cb - 1), NEW i \in 0..(kb - 1), NEW jj \in 0..(Cols - 1)
  PROVE  /\ j * Cols + jj \in 0..(Layers[l].n - 1)
         /\ \A f \in {2, 3} :
              /\ (j * Cols + jj) * (Layers[l].k \div QBlk) + 2 * i \in 0..(Length(l, f) - 1)
              /\ (j * Cols + jj) * (Layers[l].k \div QBlk) + (2 * i + 1) \in 0..(Length(l, f) - 1)
         /\ \A t \in 0..(QBlk - 1) :
              (j * Cols + jj) * (Layers[l].k \div 2) + i * QBlk + t \in 0..(Length(l, 1) - 1)
<1> DEFINE n == Layers[l].n
<1> DEFINE c == j * Cols + jj
<1> DEFINE halfRow == kb * QBlk
<1>1. /\ n \in Nat /\ n = cb * Cols /\ Layers[l].k \div 2 = kb * QBlk /\ Layers[l].k \div QBlk = 2 * kb
  BY DEF Shape
<1>2. QBlk \in Nat \ {0} /\ Cols \in Nat \ {0}
  BY Constants
<1>3. c \in 0..(n - 1)
  BY <1>1, <1>2, RowMajor
<1>4. halfRow \in Nat \ {0}
  BY <1>2
<1>5. Length(l, 1) = n * halfRow /\ Length(l, 2) = n * (2 * kb) /\ Length(l, 3) = n * (2 * kb)
  BY <1>1 DEF Length
<1> HIDE DEF n, c
<1>6. ASSUME NEW e \in 0..(2 * kb - 1) PROVE c * (2 * kb) + e \in 0..(n * (2 * kb) - 1)
  BY <1>1, <1>3, RowMajor
<1>7. ASSUME NEW t \in 0..(QBlk - 1) PROVE c * halfRow + i * QBlk + t \in 0..(n * halfRow - 1)
  <2>1. i * QBlk + t \in 0..(halfRow - 1)
    BY <1>2, RowMajor
  <2>2. i * QBlk + t \in Nat /\ i * QBlk \in Nat
    BY <1>2
  <2> HIDE DEF halfRow
  <2>3. c * halfRow + (i * QBlk + t) \in 0..(n * halfRow - 1)
    BY <1>1, <1>3, <1>4, <2>1, RowMajor
  <2>4. c * halfRow \in Nat
    BY <1>3, <1>4
  <2> QED
    BY <2>2, <2>3, <2>4
<1>8. 2 * i \in 0..(2 * kb - 1) /\ 2 * i + 1 \in 0..(2 * kb - 1)
  OBVIOUS
<1> QED
  BY <1>1, <1>3, <1>5, <1>6, <1>7, <1>8 DEF n, c

\* The constructor has loaded everything it repacks.
Loaded(l) == \A f \in 1..3 : Holds(l, f)

LEMMA RepackedBlockIsOwn ==
  ASSUME BlocksFit, NEW l \in DOMAIN Layers, Loaded(l),
         DOMAIN repack_buffer = 0..(RepackBytes - 1),
         NEW kb \in Nat \ {0}, NEW cb \in Nat \ {0}, Shape(l, kb, cb),
         NEW j \in 0..(cb - 1), NEW i \in 0..(kb - 1)
  PROVE  RepackedBlock(l, j, i) = OwnBlock(l, j, i)
<1>1. ASSUME NEW f \in 1..3, NEW e \in 0..(Length(l, f) - 1)
      PROVE  Element(l, f, e) = <<l, Files[f], e>>
  <2>1. Holds(l, f)
    BY DEF Loaded
  <2> QED
    BY <2>1, HeldElement
<1>2. ASSUME NEW jj \in 0..(Cols - 1)
      PROVE  /\ Scale(l, 2, 2 * i, j * Cols + jj) = OwnScale(l, "scale", 2 * i, j * Cols + jj)
             /\ Scale(l, 2, 2 * i + 1, j * Cols + jj) = OwnScale(l, "scale", 2 * i + 1, j * Cols + jj)
             /\ Scale(l, 3, 2 * i, j * Cols + jj) = OwnScale(l, "offset", 2 * i, j * Cols + jj)
             /\ Scale(l, 3, 2 * i + 1, j * Cols + jj) = OwnScale(l, "offset", 2 * i + 1, j * Cols + jj)
  <2> DEFINE even == (j * Cols + jj) * (Layers[l].k \div QBlk) + 2 * i
  <2> DEFINE odd == (j * Cols + jj) * (Layers[l].k \div QBlk) + (2 * i + 1)
  <2>1. \A f \in {2, 3} : even \in 0..(Length(l, f) - 1) /\ odd \in 0..(Length(l, f) - 1)
    BY OwnPlaces
  <2> HIDE DEF even, odd
  <2>2. \A f \in {2, 3} : Element(l, f, even) = <<l, Files[f], even>> /\ Element(l, f, odd) = <<l, Files[f], odd>>
    BY <1>1, <2>1
  <2> QED
    BY <2>2, FileSizes DEF Scale, OwnScale, even, odd
<1>3. ASSUME NEW b \in 0..(QBlk * Cols - 1)
      PROVE  Coupled(l, i, j * Cols + LaneOf(b), PlaceOf(b))
             = <<l, "weight", (j * Cols + LaneOf(b)) * (Layers[l].k \div 2) + i * QBlk + PlaceOf(b)>>
  <2>1. LaneOf(b) \in 0..(Cols - 1) /\ PlaceOf(b) \in 0..(QBlk - 1)
    BY LaneAndPlace
  <2>2. (j * Cols + LaneOf(b)) * (Layers[l].k \div 2) + i * QBlk + PlaceOf(b) \in 0..(Length(l, 1) - 1)
    BY <2>1, OwnPlaces
  <2> QED
    BY <1>1, <2>2, FileSizes DEF Coupled
<1> QED
  BY <1>2, <1>3 DEF RepackedBlock, OwnBlock, LaneOf, PlaceOf

LEMMA RepackedIsOwn ==
  ASSUME BlocksFit, NEW l \in DOMAIN Layers, Loaded(l),
         DOMAIN repack_buffer = 0..(RepackBytes - 1)
  PROVE  Repacked(l) = OwnBlocks(l)
<1>1. PICK kb \in Nat \ {0}, cb \in Nat \ {0} : Shape(l, kb, cb)
  BY EveryShape
<1>2. NumRepackBlocks(l) = cb * kb /\ BlocksAlongK(l) = kb
  BY <1>1 DEF Shape
<1>3. ASSUME NEW b \in 0..(NumRepackBlocks(l) - 1)
      PROVE  RepackedBlock(l, b \div BlocksAlongK(l), b % BlocksAlongK(l))
             = OwnBlock(l, b \div BlocksAlongK(l), b % BlocksAlongK(l))
  <2>1. b \div kb \in 0..(cb - 1) /\ b % kb \in 0..(kb - 1)
    BY <1>2, RowMajorSplit
  <2> QED
    BY <1>1, <1>2, <2>1, RepackedBlockIsOwn
<1> QED
  BY <1>3 DEF Repacked, OwnBlocks

-----------------------------------------------------------------------------
(* The inductive invariant                                                  *)

AtWork == phase \in {"multiply", "returned"}

\* The constructors: which files have been loaded behind one another.
LoadingOK ==
  /\ phase \in {"load", "repack", "stopped", "idle", "quantize", "multiply", "returned"}
  /\ layer \in DOMAIN Layers
  /\ file \in 1..4
  /\ DOMAIN repack_buffer = 0..(RepackBytes - 1)
  /\ phase = "load" => \A f \in 1..3 : f < file => Holds(layer, f)
  /\ phase = "repack" => Loaded(layer) /\ file = 1

\* A layer whose constructor has ended holds its own blocks in both formats.
Constructed(l) == phase \in {"load", "repack", "stopped"} => l < layer
WeightsOK ==
  weight_repack =
    [l \in DOMAIN Layers |-> IF Constructed(l) THEN [fmt \in Formats |-> OwnBlocks(l)] ELSE Unset]

\* The activation buffer is in the format the kernel of this call reads.
CallOK ==
  /\ call \in Nat
  /\ phase = "quantize" \/ AtWork => m \in RowCounts
  /\ AtWork => activation_buffer =
                 [format |-> Format, call |-> call, blocks |-> (m * K) \div (2 * QBlk)]

TeamOK ==
  /\ busy \in [Threads -> [j : Int, i : Int]]
  /\ AtWork => next \in 0..(N \div Cols)
  /\ \A t \in Threads : busy[t] # Idle =>
       /\ phase = "multiply"
       /\ busy[t].j \in 0..(next - 1) /\ busy[t].i \in 0..(m - 1)
  /\ phase = "returned" => next = N \div Cols

\* Nobody has row r of column block j still to compute.
Passed(j, r) == \A t \in Threads : busy[t].j = j => r < busy[t].i

OutputOK ==
  /\ ~AtWork => output = << >>
  /\ AtWork =>
       /\ DOMAIN output \subseteq 0..(m * N - 1)
       /\ \A a \in DOMAIN output : output[a] = Product(a \div N, a % N)
       /\ \A j \in 0..(next - 1), r \in 0..(m - 1), jj \in 0..(Cols - 1) :
            Passed(j, r) => Address(r, j, jj) \in DOMAIN output

IInv == LoadingOK /\ WeightsOK /\ CallOK /\ TeamOK /\ OutputOK

-----------------------------------------------------------------------------
(* What the registers add up to                                             *)

(* The two packs and the permutation put every quantised value back where   *)
(* it was.                                                                  *)
LEMMA PermutationRestores ==
  ASSUME NEW t \in 0..(QBlk - 1)
  PROVE  PermutedOrder(t) = t
<1>1. QBlk \in Nat \ {0} /\ Pack \in Nat \ {0}
  BY Constants
<1>2. PICK h \in Nat \ {0} : QBlk = (2 * h) * Pack
  BY PacksFillBlock
<1>3. HalfOfGroups = h
  <2>1. QBlk = h * (2 * Pack) /\ 2 * Pack \in Nat \ {0}
    BY <1>1, <1>2
  <2>2. QBlk \div (2 * Pack) = h
    BY <2>1, QuotientIs
  <2> QED
    BY <2>2 DEF HalfOfGroups
<1> DEFINE group == t \div Pack
<1> DEFINE u == t % Pack
<1>4. group \in 0..(2 * h - 1) /\ u \in 0..(Pack - 1) /\ t = group * Pack + u
  <2>1. 2 * h \in Nat /\ t \in 0..((2 * h) * Pack - 1)
    BY <1>2
  <2> QED
    BY <1>1, <2>1, RowMajorSplit
<1>5. PermutedOrder(t) =
        ((((group % 2) * h + group \div 2) % h) * 2) * Pack
          + (((group % 2) * h + group \div 2) \div h) * Pack + u
  BY <1>3 DEF PermutedOrder, PackedOrder
<1> HIDE DEF group, u
<1> DEFINE odd == group % 2
<1> DEFINE pair == group \div 2
<1>6. odd \in 0..1 /\ pair \in 0..(h - 1) /\ group = pair * 2 + odd
  <2>1. 2 * h = h * 2 /\ 2 \in Nat \ {0}
    OBVIOUS
  <2>2. group \in 0..(h * 2 - 1)
    BY <1>4, <2>1
  <2> QED
    BY <2>1, <2>2, RowMajorSplit
<1> HIDE DEF odd, pair
<1>7. (odd * h + pair) % h = pair /\ (odd * h + pair) \div h = odd
  <2>1. odd \in 0..(2 - 1)
    BY <1>6
  <2> QED
    BY <1>6, <2>1, RowMajor
<1>8. PermutedOrder(t) = (pair * 2) * Pack + odd * Pack + u
  BY <1>5, <1>7 DEF odd, pair
<1>9. (pair * 2) * Pack + odd * Pack = (pair * 2 + odd) * Pack
  BY <1>1, <1>6
<1> QED
  BY <1>4, <1>6, <1>8, <1>9

\* The first position in a row of half h of pair `pair` of blocks.
HalfStart(pair, h) == 2 * QBlk * pair + (IF h = "high" THEN QBlk ELSE 0)
BlockIndex(pair, h) == 2 * pair + (IF h = "high" THEN 1 ELSE 0)
Half == {"low", "high"}

\* The two nibbles of a byte are weights of the two halves of a pair of blocks.
LEMMA WeightOfByte ==
  ASSUME NEW l \in DOMAIN Layers, NEW kb \in Nat \ {0}, NEW cb \in Nat \ {0}, Shape(l, kb, cb),
         NEW column \in Nat, NEW pair \in 0..(kb - 1), NEW t \in 0..(QBlk - 1), NEW h \in Half
  PROVE  Weight(<<l, "weight", column * (Layers[l].k \div 2) + pair * QBlk + t>>, h)
         = <<l, column, HalfStart(pair, h) + t>>
<1> DEFINE rowBytes == Layers[l].k \div 2
<1> DEFINE r == pair * QBlk + t
<1> DEFINE place == column * rowBytes + pair * QBlk + t
<1>1. QBlk \in Nat \ {0}
  BY Constants
<1>2. rowBytes = kb * QBlk /\ rowBytes \in Nat \ {0}
  BY <1>1 DEF Shape
<1>3. r \in 0..(rowBytes - 1) /\ r \div QBlk = pair /\ r % QBlk = t
  BY <1>1, <1>2, RowMajor
<1> HIDE DEF rowBytes
<1>4. place = column * rowBytes + r /\ place \in Nat
  <2>1. column * rowBytes \in Nat /\ pair * QBlk \in Nat
    BY <1>1, <1>2
  <2> QED
    BY <2>1
<1> HIDE DEF place, r
<1>5. place \div rowBytes = column /\ place % rowBytes = r
  <2>1. rowBytes \in Nat \ {0} /\ r \in 0..(rowBytes - 1) /\ place \in Nat
        /\ place = column * rowBytes + r
    BY <1>2, <1>3, <1>4
  <2> QED
    BY <2>1, OneQuotient
<1>6. Weight(<<l, "weight", place>>, h) =
        <<l, place \div rowBytes,
          2 * QBlk * ((place % rowBytes) \div QBlk) + ((place % rowBytes) % QBlk)
            + (IF h = "high" THEN QBlk ELSE 0)>>
  BY DEF Weight, rowBytes
<1>7. 2 * QBlk * pair + t + (IF h = "high" THEN QBlk ELSE 0) = HalfStart(pair, h) + t
  <2>1. 2 * QBlk * pair \in Nat
    BY <1>1
  <2> QED
    BY <1>1, <2>1 DEF HalfStart
<1>8. Weight(<<l, "weight", place>>, h) = <<l, column, HalfStart(pair, h) + t>>
  BY <1>3, <1>5, <1>6, <1>7
<1> QED
  BY <1>8 DEF place, rowBytes

\* Place t of a half of a pair lies in block 2 * pair or behind, of any row.
PlaceInRow(row, kb, pair, h, t) ==
  /\ 2 * QBlk * (row * kb + pair) + (IF h = "high" THEN QBlk ELSE 0) + t
       = row * (kb * (2 * QBlk)) + (HalfStart(pair, h) + t)
  /\ (row * (kb * (2 * QBlk)) + (HalfStart(pair, h) + t)) \div QBlk
       = BlockIndex(row * kb + pair, h)
  /\ BlockIndex(row * kb + pair, h) = row * (2 * kb) + BlockIndex(pair, h)
  /\ HalfStart(pair, h) + t \in 0..(kb * (2 * QBlk) - 1)
  /\ BlockIndex(pair, h) \in 0..(2 * kb - 1)

LEMMA BlockOfPlace ==
  ASSUME NEW kb \in Nat \ {0}, NEW row \in Nat, NEW pair \in 0..(kb - 1), NEW h \in Half,
         NEW t \in 0..(QBlk - 1)
  PROVE  PlaceInRow(row, kb, pair, h, t)
<1>1. QBlk \in Nat \ {0}
  BY Constants
<1> DEFINE bit == IF h = "high" THEN 1 ELSE 0
<1>2. bit \in 0..1 /\ (IF h = "high" THEN QBlk ELSE 0) = bit * QBlk
  BY <1>1
<1>3. HalfStart(pair, h) = 2 * QBlk * pair + bit * QBlk
  BY <1>2 DEF HalfStart
<1>4. \A x \in Nat : BlockIndex(x, h) = 2 * x + bit
  BY DEF BlockIndex
<1> HIDE DEF bit
<1> DEFINE b == row * kb + pair
<1>5. b \in Nat
  OBVIOUS
<1>6. 2 * QBlk * b + bit * QBlk + t = row * (kb * (2 * QBlk)) + (HalfStart(pair, h) + t)
  <2>1. row * kb \in Nat
    OBVIOUS
  <2>2. 2 * QBlk * b = row * (kb * (2 * QBlk)) + 2 * QBlk * pair
    BY <1>1, <2>1
  <2>3. 2 * QBlk * pair \in Nat /\ bit * QBlk \in Nat /\ row * (kb * (2 * QBlk)) \in Nat
    BY <1>1, <1>2
  <2> HIDE DEF b
  <2> QED
    BY <1>3, <2>2, <2>3
<1>7. 2 * QBlk * b + bit * QBlk + t = (2 * b + bit) * QBlk + t
  BY <1>1, <1>2, <1>5
<1>8. BlockIndex(b, h) = 2 * b + bit /\ BlockIndex(pair, h) = 2 * pair + bit
  BY <1>4, <1>5
<1>9. (row * (kb * (2 * QBlk)) + (HalfStart(pair, h) + t)) \div QBlk = 2 * b + bit
  <2>1. 2 * b + bit \in Nat /\ (2 * b + bit) * QBlk \in Nat
    BY <1>1, <1>2, <1>5
  <2> DEFINE a == row * (kb * (2 * QBlk)) + (HalfStart(pair, h) + t)
  <2> HIDE DEF b
  <2>2. a = (2 * b + bit) * QBlk + t
    BY <1>6, <1>7
  <2> HIDE DEF a
  <2>3. a \in Nat
    BY <2>1, <2>2
  <2>4. a \div QBlk = 2 * b + bit
    BY <1>1, <2>1, <2>2, <2>3, OneQuotient
  <2> QED
    BY <2>4 DEF a
<1>10. 2 * b + bit = row * (2 * kb) + (2 * pair + bit)
  <2>1. 2 * (row * kb) = row * (2 * kb) /\ row * kb \in Nat
    OBVIOUS
  <2> QED
    BY <1>2, <2>1
<1>11. HalfStart(pair, h) + t \in 0..(kb * (2 * QBlk) - 1)
  <2>1. bit * QBlk + t \in 0..(2 * QBlk - 1)
    BY <1>1, <1>2, RowMajor
  <2> DEFINE rest == bit * QBlk + t
  <2> DEFINE wide == 2 * QBlk
  <2>2. wide \in Nat /\ bit * QBlk \in Nat /\ pair * wide = 2 * QBlk * pair
    BY <1>1, <1>2
  <2>3. pair * wide + rest \in 0..(kb * wide - 1)
    <3> HIDE DEF rest, wide
    <3> QED
      BY <2>1, <2>2, RowMajor DEF rest, wide
  <2> QED
    BY <1>1, <1>3, <2>2, <2>3
<1> QED
  BY <1>2, <1>6, <1>8, <1>9, <1>10, <1>11 DEF PlaceInRow

\* The two kinds of products a sum is made of.
Term(row, column, p) ==
  <<<<call, row * K + p>>, <<layer, column, p>>, <<call, (row * K + p) \div QBlk>>,
    <<layer, "scale", (column * K + p) \div QBlk>>>>
MinTerm(row, column, b) ==
  <<<<call, row * (K \div QBlk) + b>>, <<layer, "offset", column * (K \div QBlk) + b>>>>

LEMMA ProductTerms ==
  ASSUME NEW row, NEW column
  PROVE  Product(row, column) = {Term(row, column, p) : p \in 0..(K - 1)}
                                \cup {MinTerm(row, column, b) : b \in 0..((K \div QBlk) - 1)}
  BY DEF Product, Term, MinTerm

\* What the kernel reads of its weights for one column, pair of blocks and half.
HalfOfBlock(w, jj, h) ==
  IF h = "low" THEN [h |-> "low", s |-> w.s_low[jj], min |-> w.min_low[jj]]
  ELSE [h |-> "high", s |-> w.s_high[jj], min |-> w.min_high[jj]]

LEMMA HalvesAre ==
  ASSUME NEW w, NEW jj
  PROVE  Halves(w, jj) = {HalfOfBlock(w, jj, h) : h \in Half}
  BY DEF Halves, HalfOfBlock, Half

LEMMA ByteOfLane ==
  ASSUME NEW jj \in 0..(Cols - 1), NEW t \in 0..(QBlk - 1)
  PROVE  LET byte == (t \div Pack) * Pack * Cols + jj * Pack + (t % Pack)
         IN  byte \in 0..(QBlk * Cols - 1) /\ LaneOf(byte) = jj /\ PlaceOf(byte) = t
<1>1. QBlk \in Nat \ {0} /\ Pack \in Nat \ {0} /\ Cols \in Nat \ {0}
  BY Constants
<1>2. PICK h \in Nat \ {0} : QBlk = (2 * h) * Pack
  BY PacksFillBlock
<1> DEFINE g == 2 * h
<1> DEFINE w == Pack * Cols
<1> DEFINE q == t \div Pack
<1> DEFINE u == t % Pack
<1> DEFINE byte == q * Pack * Cols + jj * Pack + u
<1>3. g \in Nat /\ w \in Nat \ {0} /\ w = Cols * Pack /\ QBlk = g * Pack /\ QBlk * Cols = g * w
  BY <1>1, <1>2
<1>4. q \in 0..(g - 1) /\ u \in 0..(Pack - 1) /\ t = q * Pack + u
  <2> HIDE DEF g
  <2> QED
    BY <1>1, <1>3, RowMajorSplit
<1> HIDE DEF q, u, g
<1>5. jj * Pack + u \in 0..(w - 1) /\ (jj * Pack + u) \div Pack = jj /\ (jj * Pack + u) % Pack = u
  <2> HIDE DEF w
  <2> QED
    BY <1>1, <1>3, <1>4, RowMajor
<1>6. byte = q * w + (jj * Pack + u)
  <2>1. q * Pack * Cols = q * (Pack * Cols) /\ q * (Pack * Cols) \in Nat /\ jj * Pack \in Nat
    BY <1>1, <1>4
  <2> QED
    BY <1>4, <2>1
<1> HIDE DEF byte, w
<1>7. byte \in 0..(g * w - 1) /\ byte \div w = q /\ byte % w = jj * Pack + u
  <2> DEFINE rest == jj * Pack + u
  <2>1. rest \in 0..(w - 1) /\ byte = q * w + rest
    BY <1>5, <1>6
  <2> HIDE DEF rest
  <2>2. /\ q * w + rest \in 0..(g * w - 1)
        /\ (q * w + rest) \div w = q /\ (q * w + rest) % w = rest
    <3>1. g \in Nat /\ w \in Nat
      BY <1>3
    <3>2. q \in 0..(g - 1) /\ rest \in 0..(w - 1)
      BY <1>4, <2>1
    <3> QED
      BY <3>1, <3>2, RowMajor
  <2>3. byte \in 0..(g * w - 1) /\ byte \div w = q /\ byte % w = rest
    BY <2>1, <2>2
  <2> QED
    BY <2>3 DEF rest
<1>8. LaneOf(byte) = (byte % w) \div Pack /\ PlaceOf(byte) = (byte \div w) * Pack + ((byte % w) % Pack)
  BY DEF LaneOf, PlaceOf, w
<1>9. byte \in 0..(QBlk * Cols - 1) /\ LaneOf(byte) = jj /\ PlaceOf(byte) = t
  <2>1. byte \in 0..(QBlk * Cols - 1)
    BY <1>3, <1>7
  <2>2. LaneOf(byte) = jj
    BY <1>5, <1>7, <1>8
  <2>3. PlaceOf(byte) = t
    <3>1. PlaceOf(byte) = q * Pack + ((jj * Pack + u) % Pack)
      BY <1>7, <1>8
    <3>2. PlaceOf(byte) = q * Pack + u
      BY <1>5, <3>1
    <3> QED
      BY <1>4, <3>2
  <2> QED
    BY <2>1, <2>2, <2>3
<1> QED
  BY <1>9 DEF byte, q, u

\* The kernel is at row `row` and lane jj of column block j.
Computing(row, j, jj) ==
  /\ layer \in DOMAIN Layers /\ phase = "multiply"
  /\ WeightsOK /\ CallOK
  /\ row \in 0..(m - 1) /\ j \in 0..(N \div Cols - 1) /\ jj \in 0..(Cols - 1)

\* One half of one pair of blocks: what is read for it, and what that is.
LEMMA HalfIsRead ==
  ASSUME NEW row, NEW j, NEW jj, Computing(row, j, jj),
         NEW kb \in Nat \ {0}, NEW cb \in Nat \ {0}, Shape(layer, kb, cb),
         NEW pair \in 0..(kb - 1), NEW h \in Half
  PROVE  LET w == weight_repack[layer][Format][j * BlocksAlongK(layer) + pair]
             b == row * BlocksAlongK(layer) + pair
             half == HalfOfBlock(w, jj, h)
             column == j * Cols + jj
         IN  /\ half.h = h
             /\ <<ActScale(Format, b, h), half.min>> = MinTerm(row, column, BlockIndex(pair, h))
             /\ \A t \in 0..(QBlk - 1) :
                  <<ActValue(Format, b, h, t),
                    Weight(w.q_coupled[(t \div Pack) * Pack * Cols + jj * Pack + (t % Pack)], h),
                    ActScale(Format, b, h), half.s>>
                  = Term(row, column, HalfStart(pair, h) + t)
<1> DEFINE w == weight_repack[layer][Format][j * BlocksAlongK(layer) + pair]
<1> DEFINE b == row * BlocksAlongK(layer) + pair
<1> DEFINE half == HalfOfBlock(w, jj, h)
<1> DEFINE column == j * Cols + jj
<1>1. QBlk \in Nat \ {0} /\ Cols \in Nat \ {0}
  BY Constants
<1>2. /\ BlocksAlongK(layer) = kb /\ NumRepackBlocks(layer) = cb * kb /\ N \div Cols = cb
      /\ K = kb * (2 * QBlk) /\ K \div QBlk = 2 * kb /\ N = cb * Cols
  BY DEF Shape, N, K
<1>3. /\ layer \in DOMAIN Layers /\ phase = "multiply" /\ WeightsOK /\ CallOK
      /\ row \in 0..(m - 1) /\ j \in 0..(cb - 1) /\ jj \in 0..(Cols - 1)
  BY <1>2 DEF Computing
<1>4. m \in Nat
  <2>1. m \in RowCounts
    BY <1>3 DEF CallOK, AtWork
  <2> QED
    BY <2>1, Constants
<1>5. w = OwnBlock(layer, j, pair)
  <2>1. weight_repack[layer] = [fmt \in Formats |-> OwnBlocks(layer)]
    BY <1>3 DEF WeightsOK, Constructed
  <2>2. Format \in Formats
    BY DEF Format, Formats
  <2> DEFINE index == j * kb + pair
  <2>3. index \in 0..(cb * kb - 1) /\ index \div kb = j /\ index % kb = pair
    BY <1>3, RowMajor
  <2> HIDE DEF index
  <2>4. OwnBlocks(layer)[index] = OwnBlock(layer, j, pair)
    BY <1>2, <2>3 DEF OwnBlocks
  <2>5. w = OwnBlocks(layer)[index]
    BY <1>2, <2>1, <2>2 DEF index
  <2> QED
    BY <2>4, <2>5
<1> HIDE DEF w
<1>6. /\ half.h = h
      /\ half.s = <<layer, "scale", column * (2 * kb) + BlockIndex(pair, h)>>
      /\ half.min = <<layer, "offset", column * (2 * kb) + BlockIndex(pair, h)>>
  <2>1. Layers[layer].k \div QBlk = 2 * kb
    BY <1>2 DEF K
  <2>2. CASE h = "low"
    <3>1. BlockIndex(pair, h) = 2 * pair
      BY <2>2 DEF BlockIndex
    <3> QED
      BY <1>3, <1>5, <2>1, <2>2, <3>1 DEF HalfOfBlock, OwnBlock, OwnScale
  <2>3. CASE h = "high"
    <3>1. BlockIndex(pair, h) = 2 * pair + 1
      BY <2>3 DEF BlockIndex
    <3> QED
      BY <1>3, <1>5, <2>1, <2>3, <3>1 DEF HalfOfBlock, OwnBlock, OwnScale
  <2> QED
    BY <2>2, <2>3 DEF Half
<1> HIDE DEF half
<1>7. b = row * kb + pair /\ b \in 0..(m * kb - 1) /\ row \in Nat /\ column \in Nat
  BY <1>1, <1>2, <1>3, <1>4, RowMajor
<1> HIDE DEF b
<1>8. activation_buffer.format = Format /\ activation_buffer.call = call /\ b < activation_buffer.blocks
  <2>1. activation_buffer = [format |-> Format, call |-> call, blocks |-> (m * K) \div (2 * QBlk)]
    BY <1>3 DEF CallOK, AtWork
  <2>2. (m * K) \div (2 * QBlk) = m * kb
    <3>1. m * K = (m * kb) * (2 * QBlk) /\ m * kb \in Nat /\ 2 * QBlk \in Nat \ {0}
      BY <1>1, <1>2, <1>4
    <3> QED
      BY <3>1, QuotientIs
  <2>3. activation_buffer.blocks = m * kb
    BY <2>1, <2>2
  <2>4. m * kb \in Nat
    BY <1>4
  <2> QED
    BY <1>7, <2>1, <2>3, <2>4
<1>9. ActScale(Format, b, h) = <<call, BlockIndex(b, h)>>
  BY <1>8 DEF ActScale, BlockIndex
<1>10. ASSUME NEW t \in 0..(QBlk - 1)
       PROVE  /\ ActValue(Format, b, h, t) = <<call, row * K + (HalfStart(pair, h) + t)>>
              /\ BlockIndex(b, h) = (row * K + (HalfStart(pair, h) + t)) \div QBlk
              /\ column * (2 * kb) + BlockIndex(pair, h)
                   = (column * K + (HalfStart(pair, h) + t)) \div QBlk
  <2>1. PlaceInRow(row, kb, pair, h, t)
    <3>1. row \in Nat
      BY <1>7
    <3> QED
      BY <3>1, BlockOfPlace
  <2> HIDE DEF column
  <2>2. PlaceInRow(column, kb, pair, h, t)
    <3>1. column \in Nat
      BY <1>7
    <3> QED
      BY <3>1, BlockOfPlace
  <2>3. ActValue(Format, b, h, t)
          = <<call, 2 * QBlk * b + (IF h = "high" THEN QBlk ELSE 0) + PermutedOrder(t)>>
    BY <1>8 DEF ActValue
  <2>4. PermutedOrder(t) = t
    BY PermutationRestores
  <2> QED
    BY <1>2, <1>7, <2>1, <2>2, <2>3, <2>4 DEF PlaceInRow
<1>11. BlockIndex(b, h) = row * (K \div QBlk) + BlockIndex(pair, h)
  <2>1. 0 \in 0..(QBlk - 1)
    BY <1>1
  <2>2. PlaceInRow(row, kb, pair, h, 0)
    <3>1. row \in Nat
      BY <1>7
    <3> QED
      BY <2>1, <3>1, BlockOfPlace
  <2> QED
    BY <1>2, <1>7, <2>2 DEF PlaceInRow
<1>12. ASSUME NEW t \in 0..(QBlk - 1)
       PROVE  Weight(w.q_coupled[(t \div Pack) * Pack * Cols + jj * Pack + (t % Pack)], h)
              = <<layer, column, HalfStart(pair, h) + t>>
  <2> DEFINE byte == (t \div Pack) * Pack * Cols + jj * Pack + (t % Pack)
  <2>1. byte \in 0..(QBlk * Cols - 1) /\ LaneOf(byte) = jj /\ PlaceOf(byte) = t
    BY <1>3, ByteOfLane
  <2> HIDE DEF byte
  <2>2. w.q_coupled[byte] = <<layer, "weight", column * (Layers[layer].k \div 2) + pair * QBlk + t>>
    BY <1>5, <2>1 DEF OwnBlock
  <2> HIDE DEF column
  <2>3. Weight(w.q_coupled[byte], h) = <<layer, column, HalfStart(pair, h) + t>>
    BY <1>3, <1>7, <2>2, WeightOfByte
  <2> QED
    BY <2>3 DEF byte
<1> HIDE DEF column
<1>13. <<ActScale(Format, b, h), half.min>> = MinTerm(row, column, BlockIndex(pair, h))
  BY <1>2, <1>6, <1>9, <1>11 DEF MinTerm
<1>14. ASSUME NEW t \in 0..(QBlk - 1)
       PROVE  <<ActValue(Format, b, h, t),
                Weight(w.q_coupled[(t \div Pack) * Pack * Cols + jj * Pack + (t % Pack)], h),
                ActScale(Format, b, h), half.s>>
              = Term(row, column, HalfStart(pair, h) + t)
  BY <1>6, <1>9, <1>10, <1>12 DEF Term
<1> QED
  BY <1>6, <1>13, <1>14 DEF w, b, half, column

\* Every position of a row is a place of one half of one pair of blocks.
LEMMA PlaceOfPosition ==
  ASSUME NEW kb \in Nat \ {0}, NEW p \in 0..(kb * (2 * QBlk) - 1)
  PROVE  \E pair \in 0..(kb - 1), h \in Half, t \in 0..(QBlk - 1) : p = HalfStart(pair, h) + t
<1>1. QBlk \in Nat \ {0}
  BY Constants
<1> DEFINE wide == 2 * QBlk
<1>2. wide \in Nat \ {0}
  BY <1>1
<1> DEFINE pair == p \div wide
<1> DEFINE r == p % wide
<1>3. pair \in 0..(kb - 1) /\ r \in 0..(wide - 1) /\ p = pair * wide + r
  <2> HIDE DEF wide
  <2> QED
    BY <1>2, RowMajorSplit DEF wide
<1> HIDE DEF pair, r
<1>4. pair * wide = 2 * QBlk * pair /\ 2 * QBlk * pair \in Nat
  BY <1>1, <1>3
<1>5. CASE r < QBlk
  <2>1. r \in 0..(QBlk - 1) /\ HalfStart(pair, "low") = 2 * QBlk * pair
    BY <1>1, <1>3, <1>4, <1>5 DEF HalfStart
  <2>2. p = HalfStart(pair, "low") + r
    BY <1>3, <1>4, <2>1
  <2> QED
    BY <1>3, <2>1, <2>2 DEF Half
<1>6. CASE ~(r < QBlk)
  <2> DEFINE t == r - QBlk
  <2>1. t \in 0..(QBlk - 1) /\ HalfStart(pair, "high") = 2 * QBlk * pair + QBlk
    BY <1>1, <1>3, <1>4, <1>6 DEF HalfStart
  <2>2. p = HalfStart(pair, "high") + t
    BY <1>1, <1>3, <1>4, <2>1
  <2> QED
    BY <1>3, <2>1, <2>2 DEF Half
<1> QED
  BY <1>5, <1>6

LEMMA IndexOfBlock ==
  ASSUME NEW kb \in Nat \ {0}, NEW b \in 0..(2 * kb - 1)
  PROVE  \E pair \in 0..(kb - 1), h \in Half : b = BlockIndex(pair, h)
<1> DEFINE pair == b \div 2
<1> DEFINE r == b % 2
<1>1. pair \in 0..(kb - 1) /\ r \in 0..1 /\ b = pair * 2 + r
  <2>1. 2 * kb = kb * 2 /\ 2 \in Nat \ {0}
    OBVIOUS
  <2>2. b \in 0..(kb * 2 - 1)
    BY <2>1
  <2> QED
    BY <2>1, <2>2, RowMajorSplit
<1> HIDE DEF pair, r
<1>2. CASE r = 0
  <2>1. b = BlockIndex(pair, "low")
    BY <1>1, <1>2 DEF BlockIndex
  <2> QED
    BY <1>1, <2>1 DEF Half
<1>3. CASE r = 1
  <2>1. b = BlockIndex(pair, "high")
    BY <1>1, <1>3 DEF BlockIndex
  <2> QED
    BY <1>1, <2>1 DEF Half
<1> QED
  BY <1>1, <1>2, <1>3

(* What a tile of the kernel adds up for one element is the product of the  *)
(* row of the activation with the column of the layer, number for number    *)
(* and scale for scale.                                                     *)
LEMMA AccumulatedIsProduct ==
  ASSUME NEW row, NEW j, NEW jj, Computing(row, j, jj)
  PROVE  Accumulated(Format, row, j, jj) = Product(row, j * Cols + jj)
<1>1. layer \in DOMAIN Layers
  BY DEF Computing
<1>2. PICK kb \in Nat \ {0}, cb \in Nat \ {0} : Shape(layer, kb, cb)
  BY <1>1, EveryShape
<1>3. BlocksAlongK(layer) = kb /\ K = kb * (2 * QBlk) /\ K \div QBlk = 2 * kb
  BY <1>2 DEF Shape, K
<1> DEFINE w(pair) == weight_repack[layer][Format][j * BlocksAlongK(layer) + pair]
<1> DEFINE b(pair) == row * BlocksAlongK(layer) + pair
<1> DEFINE column == j * Cols + jj
<1> DEFINE Read(pair, half) ==
      {<<ActValue(Format, b(pair), half.h, t),
         Weight(w(pair).q_coupled[(t \div Pack) * Pack * Cols + jj * Pack + (t % Pack)], half.h),
         ActScale(Format, b(pair), half.h), half.s>> : t \in 0..(QBlk - 1)}
      \cup {<<ActScale(Format, b(pair), half.h), half.min>>}
<1>4. Accumulated(Format, row, j, jj) =
        UNION {UNION {Read(pair, half) : half \in Halves(w(pair), jj)} : pair \in 0..(kb - 1)}
  BY <1>3 DEF Accumulated
<1>5. ASSUME NEW pair \in 0..(kb - 1), NEW h \in Half
      PROVE  Read(pair, HalfOfBlock(w(pair), jj, h)) =
               {Term(row, column, HalfStart(pair, h) + t) : t \in 0..(QBlk - 1)}
               \cup {MinTerm(row, column, BlockIndex(pair, h))}
  <2> DEFINE half == HalfOfBlock(w(pair), jj, h)
  <2>1. /\ half.h = h
        /\ <<ActScale(Format, b(pair), h), half.min>> = MinTerm(row, column, BlockIndex(pair, h))
        /\ \A t \in 0..(QBlk - 1) :
             <<ActValue(Format, b(pair), h, t),
               Weight(w(pair).q_coupled[(t \div Pack) * Pack * Cols + jj * Pack + (t % Pack)], h),
               ActScale(Format, b(pair), h), half.s>>
             = Term(row, column, HalfStart(pair, h) + t)
    BY <1>2, HalfIsRead
  <2> HIDE DEF half, w, b, column
  <2> QED
    BY <2>1 DEF half
<1> DEFINE Share(pair, h) ==
      {Term(row, column, HalfStart(pair, h) + t) : t \in 0..(QBlk - 1)}
      \cup {MinTerm(row, column, BlockIndex(pair, h))}
<1>6. Accumulated(Format, row, j, jj) =
        UNION {UNION {Share(pair, h) : h \in Half} : pair \in 0..(kb - 1)}
  <2>1. ASSUME NEW pair \in 0..(kb - 1)
        PROVE  UNION {Read(pair, half) : half \in Halves(w(pair), jj)}
               = UNION {Share(pair, h) : h \in Half}
    <3>1. Halves(w(pair), jj) = {HalfOfBlock(w(pair), jj, h) : h \in Half}
      BY HalvesAre
    <3>2. \A h \in Half : Read(pair, HalfOfBlock(w(pair), jj, h)) = Share(pair, h)
      BY <1>5
    <3> HIDE DEF Read, Share, w
    <3> QED
      BY <3>1, <3>2
  <2> HIDE DEF Read, Share, w
  <2> QED
    BY <1>4, <2>1
<1> HIDE DEF Read, w, b, column
<1>7. ASSUME NEW pair \in 0..(kb - 1), NEW h \in Half
      PROVE  /\ \A t \in 0..(QBlk - 1) : HalfStart(pair, h) + t \in 0..(K - 1)
             /\ BlockIndex(pair, h) \in 0..((K \div QBlk) - 1)
  <2>1. ASSUME NEW t \in 0..(QBlk - 1) PROVE PlaceInRow(0, kb, pair, h, t)
    BY BlockOfPlace
  <2>2. 0 \in 0..(QBlk - 1)
    BY Constants
  <2> QED
    BY <1>3, <2>1, <2>2 DEF PlaceInRow
<1> DEFINE Whole == {Term(row, column, p) : p \in 0..(K - 1)}
                    \cup {MinTerm(row, column, x) : x \in 0..((K \div QBlk) - 1)}
<1>8. ASSUME NEW pair \in 0..(kb - 1), NEW h \in Half PROVE Share(pair, h) \subseteq Whole
  BY <1>7
<1>9. ASSUME NEW p \in 0..(K - 1)
      PROVE  \E pair \in 0..(kb - 1), h \in Half : Term(row, column, p) \in Share(pair, h)
  <2>1. PICK pair \in 0..(kb - 1), h \in Half, t \in 0..(QBlk - 1) : p = HalfStart(pair, h) + t
    BY <1>3, PlaceOfPosition
  <2> QED
    BY <2>1
<1>10. ASSUME NEW x \in 0..((K \div QBlk) - 1)
       PROVE  \E pair \in 0..(kb - 1), h \in Half : MinTerm(row, column, x) \in Share(pair, h)
  <2>1. PICK pair \in 0..(kb - 1), h \in Half : x = BlockIndex(pair, h)
    <3>1. x \in 0..(2 * kb - 1)
      BY <1>3
    <3> QED
      BY <3>1, IndexOfBlock
  <2>2. MinTerm(row, column, BlockIndex(pair, h)) \in Share(pair, h)
    OBVIOUS
  <2> HIDE DEF Share
  <2> QED
    BY <2>1, <2>2
<1>11. Product(row, column) = Whole
  BY ProductTerms
<1>12. Whole \subseteq UNION {UNION {Share(pair, h) : h \in Half} : pair \in 0..(kb - 1)}
  <2> HIDE DEF Share
  <2> QED
    BY <1>9, <1>10
<1>13. UNION {UNION {Share(pair, h) : h \in Half} : pair \in 0..(kb - 1)} \subseteq Whole
  <2> HIDE DEF Share, Whole
  <2> QED
    BY <1>8
<1>14. Accumulated(Format, row, j, jj) = Product(row, column)
  <2> HIDE DEF Share, Whole
  <2> QED
    BY <1>6, <1>11, <1>12, <1>13
<1> QED
  BY <1>14 DEF column

-----------------------------------------------------------------------------
(* Every step keeps the invariant                                           *)

LEMMA InitIInv == Init => IInv
<1> SUFFICES ASSUME Init PROVE IInv
  OBVIOUS
<1> USE DEF Init
<1>1. RepackBytes \in Nat /\ 1 \in DOMAIN Layers /\ DOMAIN Layers = 1..Len(Layers)
  BY BufferIsFinite, Constants
<1>2. LoadingOK
  BY <1>1 DEF LoadingOK
<1>3. WeightsOK
  <2>1. \A l \in DOMAIN Layers : ~Constructed(l)
    BY <1>1 DEF Constructed
  <2> QED
    BY <2>1 DEF WeightsOK
<1>4. CallOK
  BY DEF CallOK, AtWork
<1>5. TeamOK
  BY DEF TeamOK, AtWork, Idle
<1>6. OutputOK
  BY DEF OutputOK, AtWork
<1> QED
  BY <1>2, <1>3, <1>4, <1>5, <1>6 DEF IInv

\* Outside the parallel region nobody is at work on a column block.
LEMMA IdleOutside ==
  ASSUME TeamOK, phase # "multiply"
  PROVE  \A t \in Threads : busy[t] = Idle
  BY DEF TeamOK

\* A step outside of a call of forward leaves the team and the output alone.
LEMMA QuietStep ==
  ASSUME IInv, ~AtWork, ~AtWork', phase' # "quantize" \/ m' \in RowCounts,
         UNCHANGED <<call, team>>, output' = output \/ output' = << >>
  PROVE  CallOK' /\ TeamOK' /\ OutputOK'
<1>1. CallOK /\ TeamOK /\ OutputOK /\ phase # "multiply"
  BY DEF IInv, AtWork
<1>2. \A t \in Threads : busy[t] = Idle
  BY <1>1, IdleOutside
<1>3. CallOK'
  BY <1>1 DEF CallOK
<1>4. TeamOK'
  BY <1>1, <1>2 DEF TeamOK, AtWork, team, Idle
<1>5. OutputOK'
  BY <1>1 DEF OutputOK
<1> QED
  BY <1>3, <1>4, <1>5

(* A file that is read whole fills its own section and no other.            *)
LEMMA ReadFills ==
  ASSUME NEW l \in DOMAIN Layers, NEW f \in 1..4,
         DOMAIN repack_buffer = 0..(RepackBytes - 1),
         repack_buffer' = ReadInto(l, f, Length(l, f))
  PROVE  /\ Holds(l, f)'
         /\ \A g \in 1..3 : g < f /\ Holds(l, g) => Holds(l, g)'
<1>1. SectionBytes(l, f) = ElementBytes(f) * Length(l, f)
  BY DEF SectionBytes
<1>2. ASSUME NEW a \in 0..(RepackBytes - 1)
      PROVE  repack_buffer'[a] =
               IF a - Start(l, f) \in 0..(SectionBytes(l, f) - 1)
               THEN <<l, Files[f], (a - Start(l, f)) \div ElementBytes(f)>>
               ELSE repack_buffer[a]
  BY <1>1 DEF ReadInto
<1>3. Holds(l, f)'
  BY <1>2 DEF Holds
<1>4. ASSUME NEW g \in 1..3, g < f, Holds(l, g) PROVE Holds(l, g)'
  <2>1. /\ Start(l, g) \in Nat /\ SectionBytes(l, g) \in Nat /\ Start(l, f) \in Nat
        /\ Start(l, g) + SectionBytes(l, g) <= Start(l, f)
    <3>1. g \in 1..4 /\ f \in (g + 1)..4
      BY <1>4
    <3> QED
      BY <3>1, SectionsInARow
  <2>2. ASSUME NEW a \in 0..(RepackBytes - 1), a - Start(l, g) \in 0..(SectionBytes(l, g) - 1)
        PROVE  repack_buffer'[a] = <<l, Files[g], (a - Start(l, g)) \div ElementBytes(g)>>
    <3>1. ~(a - Start(l, f) \in 0..(SectionBytes(l, f) - 1))
      BY <2>1, <2>2, BufferIsFinite
    <3>2. repack_buffer'[a] = repack_buffer[a]
      BY <1>2, <3>1
    <3> QED
      BY <1>4, <2>2, <3>2 DEF Holds
  <2> QED
    BY <2>2 DEF Holds
<1> QED
  BY <1>3, <1>4

LEMMA LoadFileKeeps == IInv /\ LoadFile => IInv'
<1> SUFFICES ASSUME IInv, LoadFile PROVE IInv'
  OBVIOUS
<1>1. /\ phase = "load" /\ repack_buffer' = ReadInto(layer, file, Length(layer, file))
      /\ Advance /\ UNCHANGED <<layer, weight_repack, m, call, team, output>>
  BY DEF LoadFile
<1>2. LoadingOK /\ WeightsOK
  BY DEF IInv
<1>3. \/ file < 4 /\ phase' = "load" /\ file' = file + 1
      \/ file = 4 /\ phase' = "repack" /\ file' = 1
  BY <1>1, <1>2, FileSizes DEF Advance, LoadingOK
<1>4. LoadingOK'
  <2>1. layer \in DOMAIN Layers /\ file \in 1..4 /\ DOMAIN repack_buffer = 0..(RepackBytes - 1)
    BY <1>2 DEF LoadingOK
  <2>2. DOMAIN repack_buffer' = 0..(RepackBytes - 1)
    BY <1>1, <2>1 DEF ReadInto
  <2>3. PICK l \in DOMAIN Layers, f \in 1..4 : l = layer /\ f = file
    BY <2>1
  <2>4. repack_buffer' = ReadInto(l, f, Length(l, f))
    BY <1>1, <2>3
  <2>5. Holds(l, f)' /\ \A g \in 1..3 : g < f /\ Holds(l, g) => Holds(l, g)'
    BY <2>1, <2>4, ReadFills
  <2>6. \A g \in 1..3 : g < f => Holds(l, g)
    BY <1>1, <1>2, <2>3 DEF LoadingOK
  <2>7. \A g \in 1..3 : g <= f => Holds(l, g)'
    <3>1. \A g \in 1..3 : g <= f => g < f \/ g = f
      OBVIOUS
    <3> QED
      BY <2>5, <2>6, <3>1
  <2>8. layer' = l
    BY <1>1, <2>3
  <2>9. \A g \in 1..3 : g <= f => Holds(layer, g)'
    BY <2>7, <2>8 DEF Holds
  <2>10. CASE phase' = "load" /\ file' = f + 1
    <3>1. \A g \in 1..3 : g < file' => Holds(layer, g)'
      BY <2>9, <2>10
    <3> QED
      BY <1>1, <1>3, <2>1, <2>2, <2>3, <2>10, <3>1 DEF LoadingOK
  <2>11. CASE f = 4 /\ phase' = "repack" /\ file' = 1
    <3>1. Loaded(layer)'
      BY <2>9, <2>11 DEF Loaded
    <3> QED
      BY <1>1, <2>1, <2>2, <2>11, <3>1 DEF LoadingOK
  <2> QED
    BY <1>3, <2>3, <2>10, <2>11
<1>5. WeightsOK'
  BY <1>1, <1>2, <1>3 DEF WeightsOK, Constructed
<1>6. CallOK' /\ TeamOK' /\ OutputOK'
  BY <1>1, <1>3, QuietStep DEF AtWork
<1> QED
  BY <1>4, <1>5, <1>6 DEF IInv

LEMMA ReadFailsKeeps == IInv /\ ReadFails => IInv'
<1> SUFFICES ASSUME IInv, ReadFails PROVE IInv'
  OBVIOUS
<1>1. /\ phase = "load" /\ phase' = "stopped"
      /\ \E got \in {0, Length(layer, file) \div 2} : repack_buffer' = ReadInto(layer, file, got)
      /\ UNCHANGED <<layer, file, weight_repack, m, call, team, output>>
  BY DEF ReadFails
<1>2. LoadingOK /\ WeightsOK
  BY DEF IInv
<1>3. LoadingOK'
  <2>1. DOMAIN repack_buffer' = DOMAIN repack_buffer
    BY <1>1 DEF ReadInto
  <2> QED
    BY <1>1, <1>2, <2>1 DEF LoadingOK
<1>4. WeightsOK'
  BY <1>1, <1>2 DEF WeightsOK, Constructed
<1>5. CallOK' /\ TeamOK' /\ OutputOK'
  BY <1>1, QuietStep DEF AtWork
<1> QED
  BY <1>3, <1>4, <1>5 DEF IInv

LEMMA RepackKeeps ==
  ASSUME BlocksFit, IInv, Repack
  PROVE  IInv'
<1>1. /\ phase = "repack"
      /\ weight_repack' = [weight_repack EXCEPT ![layer] = [fmt \in Formats |-> Repacked(layer)]]
      /\ \/ layer < Len(Layers) /\ phase' = "load" /\ layer' = layer + 1
         \/ ~(layer < Len(Layers)) /\ phase' = "idle" /\ layer' = layer
      /\ UNCHANGED <<file, repack_buffer, m, call, team, output>>
  BY DEF Repack
<1>2. LoadingOK /\ WeightsOK /\ file = 1 /\ Loaded(layer)
  BY <1>1 DEF IInv, LoadingOK
<1>3. layer \in DOMAIN Layers /\ DOMAIN Layers = 1..Len(Layers) /\ Len(Layers) \in Nat
  BY <1>2, Constants, LinearAssumption DEF LoadingOK
<1>4. LoadingOK'
  BY <1>1, <1>2, <1>3 DEF LoadingOK
<1>5. WeightsOK'
  <2>1. Repacked(layer) = OwnBlocks(layer)
    BY <1>2, <1>3, RepackedIsOwn DEF LoadingOK
  <2>2. \A l \in DOMAIN Layers : Constructed(l)' <=> Constructed(l) \/ l = layer
    BY <1>1, <1>3 DEF Constructed
  <2>3. weight_repack' =
          [l \in DOMAIN Layers |->
             IF Constructed(l)' THEN [fmt \in Formats |-> OwnBlocks(l)] ELSE Unset]
    BY <1>1, <1>2, <1>3, <2>1, <2>2 DEF WeightsOK
  <2> QED
    BY <2>3 DEF WeightsOK
<1>6. CallOK' /\ TeamOK' /\ OutputOK'
  BY <1>1, QuietStep DEF AtWork
<1> QED
  BY <1>4, <1>5, <1>6 DEF IInv

\* While a call runs, the layer's shape and the number of rows are known.
LEMMA ShapeAtWork ==
  ASSUME LoadingOK, CallOK, phase = "quantize" \/ AtWork
  PROVE  /\ m \in Nat \ {0} /\ Cols \in Nat \ {0} /\ RowStep \in Nat \ {0}
         /\ N \in Nat \ {0} /\ N \div Cols \in Nat \ {0} /\ N = (N \div Cols) * Cols
<1>1. layer \in DOMAIN Layers /\ m \in RowCounts
  BY DEF LoadingOK, CallOK
<1>2. PICK kb \in Nat \ {0}, cb \in Nat \ {0} : Shape(layer, kb, cb)
  BY <1>1, EveryShape
<1>3. N \in Nat \ {0} /\ N \div Cols \in Nat \ {0} /\ N = (N \div Cols) * Cols
  BY <1>2 DEF Shape, N
<1>4. m \in Nat \ {0} /\ Cols \in Nat \ {0} /\ RowStep \in Nat \ {0}
  BY <1>1, Constants DEF RowStep
<1> QED
  BY <1>3, <1>4

LEMMA BeginPassKeeps == IInv /\ BeginPass => IInv'
<1> SUFFICES ASSUME IInv, BeginPass PROVE IInv'
  OBVIOUS
<1>1. /\ phase = "idle" /\ phase' = "quantize" /\ layer' = 1 /\ m' \in RowCounts
      /\ UNCHANGED <<loading, call, team, output>>
  BY DEF BeginPass
<1>2. LoadingOK /\ WeightsOK
  BY DEF IInv
<1>3. LoadingOK'
  BY <1>1, <1>2, Constants DEF LoadingOK, loading
<1>4. WeightsOK'
  BY <1>1, <1>2 DEF WeightsOK, Constructed, loading
<1>5. CallOK' /\ TeamOK' /\ OutputOK'
  BY <1>1, QuietStep DEF AtWork
<1> QED
  BY <1>3, <1>4, <1>5 DEF IInv

LEMMA QuantizeKeeps == IInv /\ Quantize => IInv'
<1> SUFFICES ASSUME IInv, Quantize PROVE IInv'
  OBVIOUS
<1>1. /\ phase = "quantize" /\ phase' = "multiply" /\ next' = 0 /\ call' = call + 1
      /\ activation_buffer' =
           [format |-> Format, call |-> call + 1, blocks |-> (m * K) \div (2 * QBlk)]
      /\ UNCHANGED <<layer, loading, m, busy, output>>
  BY DEF Quantize
<1>2. LoadingOK /\ WeightsOK /\ CallOK /\ TeamOK /\ OutputOK
  BY DEF IInv
<1>3. LoadingOK'
  BY <1>1, <1>2 DEF LoadingOK, loading
<1>4. WeightsOK'
  BY <1>1, <1>2 DEF WeightsOK, Constructed, loading
<1>5. CallOK'
  <2>1. Format' = Format /\ K' = K
    BY <1>1 DEF Format, K
  <2>2. call' \in Nat /\ m' \in RowCounts
    BY <1>1, <1>2 DEF CallOK
  <2>3. activation_buffer' = [format |-> Format, call |-> call, blocks |-> (m * K) \div (2 * QBlk)]'
    BY <1>1, <2>1
  <2> QED
    BY <2>2, <2>3 DEF CallOK
<1>6. AtWork'
  BY <1>1 DEF AtWork
<1>7. TeamOK'
  <2>1. \A t \in Threads : busy'[t] = Idle'
    BY <1>1, <1>2, IdleOutside DEF Idle
  <2>2. (N \div Cols)' \in Nat
    <3>1. N \div Cols \in Nat /\ N' = N
      BY <1>1, <1>2, ShapeAtWork DEF N
    <3> QED
      BY <3>1
  <2> QED
    BY <1>1, <1>2, <2>1, <2>2 DEF TeamOK
<1>8. OutputOK'
  <2>1. output' = << >>
    BY <1>1, <1>2 DEF OutputOK, AtWork
  <2>2. DOMAIN output' = {} /\ 0..(next' - 1) = {}
    BY <1>1, <2>1
  <2> QED
    BY <1>6, <2>2 DEF OutputOK
<1> QED
  BY <1>3, <1>4, <1>5, <1>7, <1>8 DEF IInv

\* In the parallel region only the team's counters and the output change.
LEMMA CallGoesOn ==
  ASSUME IInv, phase = "multiply", phase' \in {"multiply", "returned"},
         UNCHANGED <<layer, loading, m, call, activation_buffer>>
  PROVE  /\ LoadingOK' /\ WeightsOK' /\ CallOK' /\ AtWork /\ AtWork'
         /\ N' = N /\ \A row, column : Product(row, column)' = Product(row, column)
<1>1. LoadingOK /\ WeightsOK /\ CallOK
  BY DEF IInv
<1>2. LoadingOK'
  BY <1>1 DEF LoadingOK, loading
<1>3. WeightsOK'
  BY <1>1 DEF WeightsOK, Constructed, loading
<1>4. Format' = Format /\ K' = K /\ N' = N
  BY DEF Format, K, N
<1>5. CallOK'
  BY <1>1, <1>4 DEF CallOK, AtWork
<1>6. \A row, column : Product(row, column)' = Product(row, column)
  BY <1>4 DEF Product
<1> QED
  BY <1>2, <1>3, <1>4, <1>5, <1>6 DEF AtWork

LEMMA TakeKeeps ==
  ASSUME IInv, NEW t \in Threads, Take(t)
  PROVE  IInv'
<1>1. /\ phase = "multiply" /\ phase' = "multiply" /\ busy[t] = Idle /\ next < N \div Cols
      /\ busy' = [busy EXCEPT ![t] = [j |-> next, i |-> 0]] /\ next' = next + 1
      /\ UNCHANGED <<layer, loading, m, call, activation_buffer, output>>
  BY DEF Take
<1>2. LoadingOK /\ CallOK /\ TeamOK /\ OutputOK
  BY DEF IInv
<1>3. /\ LoadingOK' /\ WeightsOK' /\ CallOK' /\ AtWork /\ AtWork'
      /\ N' = N /\ \A row, column : Product(row, column)' = Product(row, column)
  BY <1>1, CallGoesOn
<1>4. /\ m \in Nat \ {0} /\ N \div Cols \in Nat
      /\ next \in 0..(N \div Cols)
      /\ busy \in [Threads -> [j : Int, i : Int]]
  BY <1>2, <1>3, ShapeAtWork DEF TeamOK
<1>5. /\ busy'[t] = [j |-> next, i |-> 0]
      /\ \A s \in Threads : s # t => busy'[s] = busy[s]
  BY <1>1, <1>4
<1>6. TeamOK'
  <2>1. busy' \in [Threads -> [j : Int, i : Int]]
    BY <1>1, <1>4
  <2>2. next' \in 0..(N \div Cols)'
    <3> DEFINE cb == N \div Cols
    <3>1. cb' = cb /\ cb \in Nat /\ next \in 0..cb /\ next < cb /\ next' = next + 1
      BY <1>1, <1>3, <1>4
    <3> HIDE DEF cb
    <3>2. next' \in 0..cb'
      BY <3>1
    <3> QED
      BY <3>2 DEF cb
  <2>3. ASSUME NEW s \in Threads, busy'[s] # Idle
        PROVE  busy'[s].j \in 0..(next' - 1) /\ busy'[s].i \in 0..(m' - 1)
    <3>1. CASE s = t
      BY <1>1, <1>4, <1>5, <3>1
    <3>2. CASE s # t
      <4>1. busy'[s] = busy[s] /\ busy[s].j \in 0..(next - 1) /\ busy[s].i \in 0..(m - 1)
        BY <1>2, <1>5, <2>3, <3>2 DEF TeamOK
      <4> QED
        BY <1>1, <1>4, <4>1
    <3> QED
      BY <3>1, <3>2
  <2>4. Idle' = Idle
    BY DEF Idle
  <2> QED
    BY <1>1, <2>1, <2>2, <2>3, <2>4 DEF TeamOK
<1>7. OutputOK'
  <2>1. /\ DOMAIN output' \subseteq 0..(m' * N' - 1)
        /\ (\A a \in DOMAIN output : output[a] = Product(a \div N, a % N))'
    <3>1. \A a \in DOMAIN output : Product(a \div N, a % N)' = Product(a \div N, a % N)
      BY <1>1 DEF Product, K, N
    <3> QED
      BY <1>1, <1>2, <1>3, <3>1 DEF OutputOK
  <2>2. ASSUME NEW j \in 0..(next' - 1), NEW r \in 0..(m' - 1), NEW jj \in 0..(Cols - 1), Passed(j, r)'
        PROVE  Address(r, j, jj)' \in DOMAIN output'
    <3>1. j # next
      BY <1>4, <1>5, <2>2 DEF Passed
    <3>2. j \in 0..(next - 1) /\ r \in 0..(m - 1)
      BY <1>1, <1>4, <3>1
    <3>3. Passed(j, r)
      <4>1. busy[t].j # j
        BY <1>1, <3>2 DEF Idle
      <4>2. \A s \in Threads : s # t /\ busy[s].j = j => r < busy[s].i
        BY <1>5, <2>2 DEF Passed
      <4> QED
        BY <4>1, <4>2 DEF Passed
    <3>4. Address(r, j, jj) \in DOMAIN output
      BY <1>2, <1>3, <3>2, <3>3 DEF OutputOK
    <3> QED
      BY <1>1, <1>3, <3>4 DEF Address
  <2> QED
    BY <1>3, <2>1, <2>2 DEF OutputOK
<1> QED
  BY <1>3, <1>6, <1>7 DEF IInv

(* The places of the output: one for each row of the activation and each    *)
(* column of the layer, whose block and lane say where it is.               *)
LEMMA AddressIs ==
  ASSUME LoadingOK, CallOK, AtWork,
         NEW r \in 0..(m - 1), NEW j \in 0..(N \div Cols - 1), NEW jj \in 0..(Cols - 1)
  PROVE  /\ Address(r, j, jj) \in 0..(m * N - 1)
         /\ Address(r, j, jj) \div N = r /\ Address(r, j, jj) % N = j * Cols + jj
<1> DEFINE cb == N \div Cols
<1> DEFINE column == j * Cols + jj
<1>1. /\ m \in Nat \ {0} /\ Cols \in Nat \ {0} /\ N \in Nat \ {0}
      /\ cb \in Nat \ {0} /\ N = cb * Cols
  BY ShapeAtWork
<1>2. Address(r, j, jj) = r * N + column
  <2>1. r * N \in Nat /\ j * Cols \in Nat
    BY <1>1
  <2> QED
    BY <2>1 DEF Address
<1> HIDE DEF cb
<1>3. column \in 0..(N - 1)
  <2>1. j \in 0..(cb - 1)
    BY DEF cb
  <2> QED
    BY <1>1, <2>1, RowMajor
<1> HIDE DEF column
<1>4. /\ r * N + column \in 0..(m * N - 1)
      /\ (r * N + column) \div N = r /\ (r * N + column) % N = column
  BY <1>1, <1>3, RowMajor
<1> QED
  BY <1>2, <1>4 DEF column

LEMMA EveryAddress ==
  ASSUME LoadingOK, CallOK, AtWork, NEW a \in 0..(m * N - 1)
  PROVE  \E r \in 0..(m - 1), j \in 0..(N \div Cols - 1), jj \in 0..(Cols - 1) :
           a = Address(r, j, jj)
<1> DEFINE cb == N \div Cols
<1>1. /\ m \in Nat \ {0} /\ Cols \in Nat \ {0} /\ N \in Nat \ {0}
      /\ cb \in Nat \ {0} /\ N = cb * Cols
  BY ShapeAtWork
<1> HIDE DEF cb
<1> DEFINE r == a \div N
<1> DEFINE column == a % N
<1>2. r \in 0..(m - 1) /\ column \in 0..(N - 1) /\ a = r * N + column
  BY <1>1, RowMajorSplit
<1> HIDE DEF r, column
<1> DEFINE j == column \div Cols
<1> DEFINE jj == column % Cols
<1>3. j \in 0..(cb - 1) /\ jj \in 0..(Cols - 1) /\ column = j * Cols + jj
  <2>1. column \in 0..(cb * Cols - 1)
    BY <1>1, <1>2
  <2> QED
    BY <1>1, <2>1, RowMajorSplit
<1> HIDE DEF j, jj
<1>4. r * N \in Nat /\ j * Cols \in Nat
  BY <1>1, <1>2, <1>3
<1>5. a = Address(r, j, jj)
  BY <1>2, <1>3, <1>4 DEF Address
<1> QED
  BY <1>2, <1>3, <1>5 DEF cb

LEMMA ComputeTileKeeps ==
  ASSUME IInv, NEW t \in Threads, ComputeTile(t)
  PROVE  IInv'
<1> DEFINE i == busy[t].i
<1> DEFINE j == busy[t].j
<1> DEFINE tile == (0..(ValidRows(i) - 1)) \X (0..(Cols - 1))
<1> DEFINE At(cell) == Address(i + cell[1], j, cell[2])
<1> DEFINE sums == [cell \in tile |-> Accumulated(Format, i + cell[1], j, cell[2])]
<1> DEFINE stored == {At(cell) : cell \in tile}
<1>1. /\ phase = "multiply" /\ phase' = "multiply" /\ busy[t] # Idle
      /\ output' = [a \in DOMAIN output \cup stored |->
                      IF a \in stored THEN sums[CHOOSE cell \in tile : At(cell) = a] ELSE output[a]]
      /\ busy' = [busy EXCEPT ![t] =
                    IF i + RowStep < m THEN [j |-> j, i |-> i + RowStep] ELSE Idle]
      /\ UNCHANGED <<layer, loading, m, call, activation_buffer, next>>
  BY DEF ComputeTile
<1>2. LoadingOK /\ WeightsOK /\ CallOK /\ TeamOK /\ OutputOK
  BY DEF IInv
<1>3. /\ LoadingOK' /\ WeightsOK' /\ CallOK' /\ AtWork /\ AtWork'
      /\ N' = N /\ \A row, column : Product(row, column)' = Product(row, column)
  BY <1>1, CallGoesOn
<1>4. /\ m \in Nat \ {0} /\ Cols \in Nat \ {0} /\ RowStep \in Nat \ {0}
      /\ N \div Cols \in Nat /\ next \in 0..(N \div Cols)
      /\ busy \in [Threads -> [j : Int, i : Int]]
      /\ i \in 0..(m - 1) /\ j \in 0..(next - 1)
  BY <1>1, <1>2, <1>3, ShapeAtWork DEF TeamOK
<1>5. j \in 0..(N \div Cols - 1) /\ j # -1
  <2> DEFINE cb == N \div Cols
  <2>1. cb \in Nat /\ next \in 0..cb /\ j \in 0..(next - 1)
    BY <1>4
  <2> HIDE DEF cb, j
  <2>2. j \in 0..(cb - 1) /\ j # -1
    BY <2>1
  <2> QED
    BY <2>2 DEF cb
<1>6. /\ ValidRows(i) \in 1..(m - i)
      /\ i + RowStep < m => ValidRows(i) = RowStep
      /\ ~(i + RowStep < m) => ValidRows(i) = m - i
  BY <1>4 DEF ValidRows
<1>7. /\ busy'[t] = IF i + RowStep < m THEN [j |-> j, i |-> i + RowStep] ELSE Idle
      /\ \A s \in Threads : s # t => busy'[s] = busy[s]
  BY <1>1, <1>4
<1>8. ASSUME NEW cell \in tile
      PROVE  /\ cell[1] \in 0..(ValidRows(i) - 1) /\ cell[2] \in 0..(Cols - 1)
             /\ i + cell[1] \in 0..(m - 1)
             /\ At(cell) \in 0..(m * N - 1)
             /\ At(cell) \div N = i + cell[1] /\ At(cell) % N = j * Cols + cell[2]
  <2>1. cell[1] \in 0..(ValidRows(i) - 1) /\ cell[2] \in 0..(Cols - 1)
    OBVIOUS
  <2>2. i + cell[1] \in 0..(m - 1)
    BY <1>4, <1>6, <2>1
  <2> HIDE DEF i, j
  <2> QED
    BY <1>2, <1>3, <1>5, <2>1, <2>2, AddressIs
<1> HIDE DEF i, j
<1>9. ASSUME NEW a \in stored
      PROVE  a \in 0..(m * N - 1) /\ output'[a] = Product(a \div N, a % N)
  <2> DEFINE c == CHOOSE cell \in tile : At(cell) = a
  <2>1. c \in tile /\ At(c) = a
    <3> HIDE DEF tile, At
    <3> QED
      BY DEF stored
  <2>2. output'[a] = sums[c]
    BY <1>1
  <2> HIDE DEF c
  <2>3. output'[a] = Accumulated(Format, i + c[1], j, c[2])
    BY <2>1, <2>2
  <2>4. /\ i + c[1] \in 0..(m - 1) /\ c[2] \in 0..(Cols - 1) /\ a \in 0..(m * N - 1)
        /\ a \div N = i + c[1] /\ a % N = j * Cols + c[2]
    BY <1>8, <2>1
  <2>5. Computing(i + c[1], j, c[2])
    BY <1>1, <1>2, <1>5, <2>4 DEF Computing, LoadingOK
  <2>6. output'[a] = Product(i + c[1], j * Cols + c[2])
    BY <2>3, <2>5, AccumulatedIsProduct
  <2> QED
    BY <2>4, <2>6
<1>10. TeamOK'
  <2>1. Idle \in [j : Int, i : Int] /\ Idle' = Idle
    BY DEF Idle
  <2>2. busy' \in [Threads -> [j : Int, i : Int]]
    BY <1>1, <1>4, <2>1
  <2>3. next' \in 0..(N \div Cols)'
    BY <1>1, <1>3, <1>4
  <2>4. ASSUME NEW s \in Threads, busy'[s] # Idle
        PROVE  busy'[s].j \in 0..(next' - 1) /\ busy'[s].i \in 0..(m' - 1)
    <3>1. CASE s = t
      <4>1. busy'[s] = [j |-> j, i |-> i + RowStep] /\ i + RowStep < m
        BY <1>7, <2>4, <3>1
      <4> QED
        BY <1>1, <1>4, <4>1
    <3>2. CASE s # t
      BY <1>1, <1>2, <1>7, <2>4, <3>2 DEF TeamOK
    <3> QED
      BY <3>1, <3>2
  <2> QED
    BY <1>1, <2>1, <2>2, <2>3, <2>4 DEF TeamOK
<1>11. DOMAIN output' = DOMAIN output \cup stored
  BY <1>1
<1>12. ASSUME NEW a \in DOMAIN output'
       PROVE  a \in 0..(m * N - 1) /\ output'[a] = Product(a \div N, a % N)
  <2>1. CASE a \in stored
    BY <1>9, <2>1
  <2>2. CASE a \notin stored
    <3>1. a \in DOMAIN output /\ output'[a] = output[a]
      BY <1>1, <1>11, <2>2
    <3> QED
      BY <1>2, <1>3, <3>1 DEF OutputOK
  <2> QED
    BY <2>1, <2>2
<1>13. ASSUME NEW jOf \in 0..(next - 1), NEW r \in 0..(m - 1), NEW jj \in 0..(Cols - 1),
              Passed(jOf, r)'
       PROVE  Address(r, jOf, jj) \in DOMAIN output'
  <2>1. CASE Passed(jOf, r)
    BY <1>2, <1>3, <1>11, <2>1 DEF OutputOK
  <2>2. CASE ~Passed(jOf, r)
    <3>1. PICK s \in Threads : busy[s].j = jOf /\ ~(r < busy[s].i)
      BY <2>2 DEF Passed
    <3>2. s = t
      BY <1>7, <1>13, <3>1 DEF Passed
    <3>3. jOf = j /\ ~(r < i)
      BY <3>1, <3>2 DEF i, j
    <3>4. r - i \in 0..(ValidRows(i) - 1)
      <4>1. CASE i + RowStep < m
        <5>1. busy'[t].j = j /\ busy'[t].i = i + RowStep
          BY <1>7, <4>1
        <5>2. r < i + RowStep
          BY <1>13, <3>3, <5>1 DEF Passed
        <5> QED
          BY <1>4, <1>6, <3>3, <4>1, <5>2
      <4>2. CASE ~(i + RowStep < m)
        BY <1>4, <1>6, <3>3, <4>2
      <4> QED
        BY <4>1, <4>2
    <3>5. <<r - i, jj>> \in tile /\ i + (r - i) = r
      BY <1>4, <3>4
    <3>6. Address(r, jOf, jj) = At(<<r - i, jj>>)
      BY <3>3, <3>5
    <3>7. Address(r, jOf, jj) \in stored
      BY <3>5, <3>6
    <3> QED
      BY <1>11, <3>7
  <2> QED
    BY <2>1, <2>2
<1>14. OutputOK'
  <2> HIDE DEF stored, tile, sums
  <2>1. \A a \in DOMAIN output' : Product(a \div N, a % N)' = Product(a \div N, a % N)
    BY <1>1 DEF Product, K, N
  <2>2. DOMAIN output' \subseteq 0..(m' * N' - 1)
        /\ (\A a \in DOMAIN output : output[a] = Product(a \div N, a % N))'
    BY <1>1, <1>3, <1>12, <2>1
  <2>3. (\A jOf \in 0..(next - 1), r \in 0..(m - 1), jj \in 0..(Cols - 1) :
           Passed(jOf, r) => Address(r, jOf, jj) \in DOMAIN output)'
    <3>1. \A r, jOf, jj : Address(r, jOf, jj)' = Address(r, jOf, jj)
      BY <1>3 DEF Address
    <3> QED
      BY <1>1, <1>13, <3>1
  <2> QED
    BY <1>3, <2>2, <2>3 DEF OutputOK
<1> QED
  BY <1>3, <1>10, <1>14 DEF IInv

LEMMA ReturnKeeps == IInv /\ Return => IInv'
<1> SUFFICES ASSUME IInv, Return PROVE IInv'
  OBVIOUS
<1>1. /\ phase = "multiply" /\ phase' = "returned" /\ Joined
      /\ UNCHANGED <<layer, loading, m, call, activation_buffer, team, output>>
  BY DEF Return
<1>2. TeamOK /\ OutputOK
  BY DEF IInv
<1>3. /\ LoadingOK' /\ WeightsOK' /\ CallOK' /\ AtWork /\ AtWork'
      /\ N' = N /\ \A row, column : Product(row, column)' = Product(row, column)
  BY <1>1, CallGoesOn
<1>4. TeamOK'
  BY <1>1, <1>2, <1>3 DEF TeamOK, Joined, AllTaken, team, Idle
<1>5. OutputOK'
  BY <1>1, <1>2, <1>3 DEF OutputOK, Passed, Address, Product, K, N, team
<1> QED
  BY <1>3, <1>4, <1>5 DEF IInv

LEMMA NextLayerKeeps == IInv /\ NextLayer => IInv'
<1> SUFFICES ASSUME IInv, NextLayer PROVE IInv'
  OBVIOUS
<1>1. /\ phase = "returned" /\ output' = << >>
      /\ \/ layer < Len(Layers) /\ phase' = "quantize" /\ layer' = layer + 1
         \/ ~(layer < Len(Layers)) /\ phase' = "idle" /\ layer' = layer
      /\ UNCHANGED <<loading, m, call, team>>
  BY DEF NextLayer
<1>2. LoadingOK /\ WeightsOK /\ CallOK /\ TeamOK
  BY DEF IInv
<1>3. layer \in DOMAIN Layers /\ DOMAIN Layers = 1..Len(Layers) /\ Len(Layers) \in Nat
  BY <1>2, Constants, LinearAssumption DEF LoadingOK
<1>4. LoadingOK'
  BY <1>1, <1>2, <1>3 DEF LoadingOK, loading
<1>5. WeightsOK'
  BY <1>1, <1>2 DEF WeightsOK, Constructed, loading
<1>6. \A t \in Threads : busy[t] = Idle
  BY <1>1, <1>2, IdleOutside
<1>7. CallOK'
  BY <1>1, <1>2 DEF CallOK, AtWork
<1>8. TeamOK'
  BY <1>1, <1>2, <1>6 DEF TeamOK, AtWork, team, Idle
<1>9. OutputOK'
  BY <1>1 DEF OutputOK, AtWork
<1> QED
  BY <1>4, <1>5, <1>7, <1>8, <1>9 DEF IInv

LEMMA StutterKeeps == IInv /\ UNCHANGED vars => IInv'
<1> SUFFICES ASSUME IInv, UNCHANGED vars PROVE IInv'
  OBVIOUS
<1>1. UNCHANGED <<phase, layer, loading, m, call, activation_buffer, team, output>>
  BY DEF vars
<1>2. LoadingOK /\ WeightsOK /\ CallOK /\ TeamOK /\ OutputOK
  BY DEF IInv
<1>3. LoadingOK'
  BY <1>1, <1>2 DEF LoadingOK, Loaded, Holds, loading
<1>4. WeightsOK'
  BY <1>1, <1>2 DEF WeightsOK, Constructed, loading
<1>5. CallOK'
  BY <1>1, <1>2 DEF CallOK, AtWork, Format, K
<1>6. TeamOK'
  BY <1>1, <1>2 DEF TeamOK, AtWork, team, Idle, N
<1>7. OutputOK'
  BY <1>1, <1>2 DEF OutputOK, AtWork, Passed, Address, Product, K, N, team
<1> QED
  BY <1>3, <1>4, <1>5, <1>6, <1>7 DEF IInv

LEMMA SpecKeepsIInv ==
  ASSUME BlocksFit
  PROVE  Spec => []IInv
<1>1. Init => IInv
  BY InitIInv
<1>2. IInv /\ [Next]_vars => IInv'
  <2> SUFFICES ASSUME IInv, [Next]_vars PROVE IInv'
    OBVIOUS
  <2>1. CASE LoadFile
    BY <2>1, LoadFileKeeps
  <2>2. CASE ReadFails
    BY <2>2, ReadFailsKeeps
  <2>3. CASE Repack
    BY <2>3, RepackKeeps
  <2>4. CASE BeginPass
    BY <2>4, BeginPassKeeps
  <2>5. CASE Quantize
    BY <2>5, QuantizeKeeps
  <2>6. CASE Return
    BY <2>6, ReturnKeeps
  <2>7. CASE NextLayer
    BY <2>7, NextLayerKeeps
  <2>8. ASSUME NEW t \in Threads, Take(t) PROVE IInv'
    BY <2>8, TakeKeeps
  <2>9. ASSUME NEW t \in Threads, ComputeTile(t) PROVE IInv'
    BY <2>9, ComputeTileKeeps
  <2>10. CASE UNCHANGED vars
    BY <2>10, StutterKeeps
  <2> QED
    BY <2>1, <2>2, <2>3, <2>4, <2>5, <2>6, <2>7, <2>8, <2>9, <2>10 DEF Next, Work
<1> QED
  BY <1>1, <1>2, PTL DEF Spec

(* Whatever earlier calls left in the activation buffer and whoever takes   *)
(* which columns: an output that gemm or gemv has stored is the product of  *)
(* the layer's own weights with this call's activation, every number with   *)
(* the scale of its own block, and forward returns with every output        *)
(* stored.                                                                  *)
THEOREM ForwardIsProduct ==
  ASSUME BlocksFit
  PROVE  Spec => []OutputIsProduct
<1>1. IInv => OutputIsProduct
  <2> SUFFICES ASSUME IInv PROVE OutputIsProduct
    OBVIOUS
  <2>1. LoadingOK /\ CallOK /\ TeamOK /\ OutputOK
    BY DEF IInv
  <2>2. phase \in {"multiply", "returned"} =>
          \A a \in DOMAIN output : output[a] = Product(a \div N, a % N)
    BY <2>1 DEF OutputOK, AtWork
  <2>3. ASSUME phase = "returned" PROVE DOMAIN output = 0..(m * N - 1)
    <3>1. AtWork /\ next = N \div Cols /\ \A t \in Threads : busy[t] = Idle
      BY <2>1, <2>3, IdleOutside DEF AtWork, TeamOK
    <3>2. ASSUME NEW a \in 0..(m * N - 1) PROVE a \in DOMAIN output
      <4>1. PICK r \in 0..(m - 1), j \in 0..(N \div Cols - 1), jj \in 0..(Cols - 1) :
              a = Address(r, j, jj)
        BY <2>1, <3>1, EveryAddress
      <4>2. j # -1 /\ j \in 0..(next - 1)
        BY <3>1
      <4>3. Passed(j, r)
        BY <3>1, <4>2 DEF Passed, Idle
      <4> QED
        BY <2>1, <3>1, <4>1, <4>2, <4>3 DEF OutputOK
    <3>3. DOMAIN output \subseteq 0..(m * N - 1)
      BY <2>1, <3>1 DEF OutputOK
    <3> QED
      BY <3>2, <3>3
  <2> QED
    BY <2>2, <2>3 DEF OutputIsProduct
<1> QED
  BY <1>1, SpecKeepsIInv, PTL

(* All constructors load through one buffer and a file may be missing or    *)
(* short: a layer that was constructed holds numbers of its own files only, *)
(* in both of its formats, and none from behind their ends.                 *)
THEOREM WeightsAreOwn ==
  ASSUME BlocksFit
  PROVE  Spec => []PackedIsOwn
<1>1. IInv => PackedIsOwn
  <2> SUFFICES ASSUME IInv,
                      NEW l \in DOMAIN Layers, weight_repack[l] # Unset,
                      NEW fmt \in Formats, NEW b \in 0..(NumRepackBlocks(l) - 1)
               PROVE  LET w == weight_repack[l][fmt][b]
                      IN  /\ \A jj \in 0..(Cols - 1) :
                               /\ {w.s_low[jj], w.s_high[jj]}
                                    \subseteq {l} \X {"scale"} \X (0..(Length(l, 2) - 1))
                               /\ {w.min_low[jj], w.min_high[jj]}
                                    \subseteq {l} \X {"offset"} \X (0..(Length(l, 3) - 1))
                          /\ \A p \in DOMAIN w.q_coupled :
                               w.q_coupled[p] \in {l} \X {"weight"} \X (0..(Length(l, 1) - 1))
    BY DEF PackedIsOwn
  <2>1. PICK kb \in Nat \ {0}, cb \in Nat \ {0} : Shape(l, kb, cb)
    BY EveryShape
  <2> DEFINE w == weight_repack[l][fmt][b]
  <2> DEFINE j == b \div kb
  <2> DEFINE i == b % kb
  <2>2. BlocksAlongK(l) = kb /\ NumRepackBlocks(l) = cb * kb
    BY <2>1 DEF Shape
  <2>3. j \in 0..(cb - 1) /\ i \in 0..(kb - 1)
    BY <2>2, RowMajorSplit
  <2>4. w = OwnBlock(l, j, i)
    <3>1. weight_repack[l] = [form \in Formats |-> OwnBlocks(l)]
      BY DEF IInv, WeightsOK
    <3> QED
      BY <2>2, <3>1 DEF OwnBlocks
  <2> HIDE DEF w, j, i
  <2>5. ASSUME NEW jj \in 0..(Cols - 1)
        PROVE  /\ {w.s_low[jj], w.s_high[jj]} \subseteq {l} \X {"scale"} \X (0..(Length(l, 2) - 1))
               /\ {w.min_low[jj], w.min_high[jj]}
                    \subseteq {l} \X {"offset"} \X (0..(Length(l, 3) - 1))
    <3> DEFINE even == (j * Cols + jj) * (Layers[l].k \div QBlk) + 2 * i
    <3> DEFINE odd == (j * Cols + jj) * (Layers[l].k \div QBlk) + (2 * i + 1)
    <3>1. \A f \in {2, 3} : even \in 0..(Length(l, f) - 1) /\ odd \in 0..(Length(l, f) - 1)
      BY <2>1, <2>3, OwnPlaces
    <3>2. /\ w.s_low[jj] = <<l, "scale", even>> /\ w.s_high[jj] = <<l, "scale", odd>>
          /\ w.min_low[jj] = <<l, "offset", even>> /\ w.min_high[jj] = <<l, "offset", odd>>
      BY <2>4 DEF OwnBlock, OwnScale
    <3> HIDE DEF even, odd
    <3> QED
      BY <3>1, <3>2
  <2>6. ASSUME NEW p \in DOMAIN w.q_coupled
        PROVE  w.q_coupled[p] \in {l} \X {"weight"} \X (0..(Length(l, 1) - 1))
    <3>1. p \in 0..(QBlk * Cols - 1)
      BY <2>4 DEF OwnBlock
    <3>2. LaneOf(p) \in 0..(Cols - 1) /\ PlaceOf(p) \in 0..(QBlk - 1)
      BY <3>1, LaneAndPlace
    <3> DEFINE place == (j * Cols + LaneOf(p)) * (Layers[l].k \div 2) + i * QBlk + PlaceOf(p)
    <3>3. place \in 0..(Length(l, 1) - 1)
      BY <2>1, <2>3, <3>2, OwnPlaces
    <3>4. w.q_coupled[p] = <<l, "weight", place>>
      BY <2>4, <3>1 DEF OwnBlock
    <3> HIDE DEF place
    <3> QED
      BY <3>3, <3>4
  <2> QED
    BY <2>5, <2>6 DEF w
<1> QED
  BY <1>1, SpecKeepsIInv, PTL

-----------------------------------------------------------------------------
(* The reads of the activation buffer, whatever the size of the blocks      *)

\* Which layer computes, on how many rows, and where the threads are.
RowsInv ==
  /\ layer \in DOMAIN Layers
  /\ phase = "quantize" \/ AtWork => m \in RowCounts
  /\ DOMAIN busy = Threads
  /\ \A t \in Threads : busy[t] # Idle => phase = "multiply" /\ busy[t].i \in 0..(m - 1)

LEMMA StepKeepsRowsInv == RowsInv /\ [Next]_vars => RowsInv'
<1> SUFFICES ASSUME RowsInv, [Next]_vars PROVE RowsInv'
  OBVIOUS
<1> USE DEF RowsInv, AtWork, Idle
<1>1. DOMAIN Layers = 1..Len(Layers) /\ Len(Layers) \in Nat /\ 1 \in DOMAIN Layers
  BY Constants, LinearAssumption
<1>2. AtWork => m \in Nat \ {0} /\ RowStep \in Nat \ {0}
  <2>1. RowCounts \subseteq 1..MaxLen /\ MaxLen \in Nat /\ RowsAtOnce \in Nat \ {0}
    BY Constants
  <2>2. AtWork => m \in RowCounts
    OBVIOUS
  <2>3. m \in RowCounts => m \in Nat \ {0}
    BY <2>1
  <2>4. RowStep \in Nat \ {0}
    BY <2>1 DEF RowStep
  <2> QED
    BY <2>2, <2>3, <2>4
<1>3. CASE LoadFile
  BY <1>3 DEF LoadFile, Advance, team
<1>4. CASE ReadFails
  BY <1>4 DEF ReadFails, team
<1>5. CASE Repack
  BY <1>1, <1>5 DEF Repack, team
<1>6. CASE BeginPass
  BY <1>1, <1>6 DEF BeginPass, team
<1>7. CASE Quantize
  BY <1>7 DEF Quantize
<1>8. CASE Return
  BY <1>8 DEF Return, Joined, team
<1>9. CASE NextLayer
  BY <1>1, <1>9 DEF NextLayer, team
<1>10. ASSUME NEW t \in Threads, Take(t) PROVE RowsInv'
  <2>1. /\ phase = "multiply" /\ busy' = [busy EXCEPT ![t] = [j |-> next, i |-> 0]]
        /\ UNCHANGED <<phase, layer, m>>
    BY <1>10 DEF Take
  <2>2. ASSUME NEW s \in Threads, busy'[s] # Idle PROVE busy'[s].i \in 0..(m - 1)
    <3>1. CASE s = t
      <4>1. busy'[s].i = 0
        BY <2>1, <3>1
      <4> QED
        BY <1>2, <2>1, <4>1
    <3>2. CASE s # t
      BY <2>1, <2>2, <3>2
    <3> QED
      BY <3>1, <3>2
  <2> QED
    BY <2>1, <2>2
<1>11. ASSUME NEW t \in Threads, ComputeTile(t) PROVE RowsInv'
  <2> DEFINE there == IF busy[t].i + RowStep < m
                      THEN [j |-> busy[t].j, i |-> busy[t].i + RowStep] ELSE Idle
  <2>1. /\ phase = "multiply" /\ busy[t] # Idle /\ busy' = [busy EXCEPT ![t] = there]
        /\ UNCHANGED <<phase, layer, m>>
    BY <1>11 DEF ComputeTile
  <2>2. ASSUME NEW s \in Threads, busy'[s] # Idle PROVE busy'[s].i \in 0..(m - 1)
    <3>1. CASE s = t
      <4>1. busy[t].i + RowStep < m /\ busy'[s].i = busy[t].i + RowStep
        BY <2>1, <2>2, <3>1
      <4> QED
        BY <1>2, <2>1, <4>1
    <3>2. CASE s # t
      BY <2>1, <2>2, <3>2
    <3> QED
      BY <3>1, <3>2
  <2> HIDE DEF there
  <2> QED
    BY <2>1, <2>2
<1>12. CASE UNCHANGED vars
  BY <1>12 DEF vars, team
<1> QED
  BY <1>3, <1>4, <1>5, <1>6, <1>7, <1>8, <1>9, <1>10, <1>11, <1>12 DEF Next, Work

(* A number of rows fits the buffer when it does at the width of the widest *)
(* layer.                                                                   *)
LEMMA RowsFit ==
  ASSUME layer \in DOMAIN Layers, NEW fmt \in Formats, NEW rows \in Nat,
         rows * (QBlk + 8) <= MaxLen * (QBlk + 24)
  PROVE  QuantizedBytes(fmt, rows) <= ActivationBytes
<1>1. PICK kb \in Nat \ {0}, cb \in Nat \ {0} : Shape(layer, kb, cb)
  BY EveryShape
<1>2. QBlk \in Nat \ {0} /\ MaxLen \in Nat /\ MaxActCols \in Nat
  BY Constants
<1>3. K = kb * (2 * QBlk) /\ K <= MaxActCols
  BY <1>1, LinearAssumption DEF Shape, K
<1> DEFINE pairs == 2 * kb
<1> DEFINE blocks == (MaxLen * MaxActCols) \div QBlk
<1>4. QuantizedBytes(fmt, rows) <= (rows * (QBlk + 8)) * pairs
  <2>1. (rows * K) \div (2 * QBlk) = rows * kb
    <3>1. rows * K = (rows * kb) * (2 * QBlk) /\ rows * kb \in Nat /\ 2 * QBlk \in Nat \ {0}
      BY <1>2, <1>3
    <3> QED
      BY <3>1, QuotientIs
  <2>2. BlockBytes(fmt) \in Nat /\ BlockBytes(fmt) <= 2 * (QBlk + 8)
    BY <1>2 DEF BlockBytes, FloatBytes, Formats
  <2>3. QuantizedBytes(fmt, rows) = (rows * kb) * BlockBytes(fmt)
    BY <2>1 DEF QuantizedBytes
  <2> DEFINE wide == 2 * (QBlk + 8)
  <2>4. rows * kb \in Nat /\ wide \in Nat
    BY <1>2
  <2>5. (rows * kb) * wide = (rows * (QBlk + 8)) * pairs
    BY <1>2
  <2> HIDE DEF wide
  <2>6. (rows * kb) * BlockBytes(fmt) <= (rows * kb) * wide
    BY <2>2, <2>4, Monotone DEF wide
  <2> QED
    BY <2>3, <2>5, <2>6
<1>5. blocks \in Nat /\ MaxLen * pairs <= blocks
  <2> DEFINE all == MaxLen * MaxActCols
  <2> DEFINE r == all % QBlk
  <2>1. all \in Nat
    BY <1>2
  <2>2. MaxLen * K <= all
    <3>1. K \in Nat
      BY <1>2, <1>3
    <3> QED
      BY <1>2, <1>3, <3>1, Monotone
  <2>3. MaxLen * K = (MaxLen * pairs) * QBlk
    BY <1>2, <1>3
  <2> HIDE DEF all
  <2>4. blocks \in Nat /\ r \in 0..(QBlk - 1) /\ all = QBlk * blocks + r
    BY <1>2, <2>1, Division DEF all
  <2> HIDE DEF blocks, r
  <2> DEFINE used == MaxLen * pairs
  <2>5. used \in Nat
    BY <1>2
  <2> HIDE DEF used, pairs
  <2>6. used * QBlk <= all
    BY <2>2, <2>3 DEF used
  <2>7. CASE blocks + 1 <= used
    <3>1. (blocks + 1) * QBlk <= used * QBlk
      BY <1>2, <2>4, <2>5, <2>7, Monotone
    <3>2. (blocks + 1) * QBlk = QBlk * blocks + QBlk /\ QBlk * blocks \in Nat /\ used * QBlk \in Nat
      BY <1>2, <2>4, <2>5
    <3> QED
      BY <1>2, <2>1, <2>4, <2>6, <3>1, <3>2
  <2> QED
    BY <2>4, <2>5, <2>7 DEF used
<1>6. ActivationBytes = blocks * (QBlk + 24)
  <2>1. 4 * 4 + 2 * 4 + QBlk = QBlk + 24
    BY <1>2
  <2> QED
    BY <2>1 DEF ActivationBytes
<1> HIDE DEF blocks
<1>7. pairs \in Nat /\ rows * (QBlk + 8) \in Nat /\ MaxLen * (QBlk + 24) \in Nat
      /\ MaxLen * pairs \in Nat /\ QBlk + 24 \in Nat
  BY <1>2
<1> HIDE DEF pairs
<1>8. (rows * (QBlk + 8)) * pairs <= (MaxLen * (QBlk + 24)) * pairs
  BY <1>7, Monotone
<1>9. (MaxLen * (QBlk + 24)) * pairs = (MaxLen * pairs) * (QBlk + 24)
  BY <1>2, <1>7
<1>10. (MaxLen * pairs) * (QBlk + 24) <= blocks * (QBlk + 24)
  BY <1>5, <1>7, Monotone
<1>11. QuantizedBytes(fmt, rows) \in Int
  <2>1. rows * K \in Nat /\ 2 * QBlk \in Nat \ {0}
    BY <1>2, <1>3
  <2>2. (rows * K) \div (2 * QBlk) \in Nat
    BY <2>1, Division
  <2>3. BlockBytes(fmt) \in Nat
    BY <1>2 DEF BlockBytes, FloatBytes, Formats
  <2> QED
    BY <2>2, <2>3 DEF QuantizedBytes
<1> DEFINE low == (rows * (QBlk + 8)) * pairs
<1> DEFINE high == blocks * (QBlk + 24)
<1>12. low \in Int /\ high \in Int /\ low <= high
  <2> DEFINE middle == (MaxLen * pairs) * (QBlk + 24)
  <2>1. low \in Int /\ middle \in Int /\ high \in Int
    BY <1>5, <1>7
  <2>2. low <= middle /\ middle <= high
    BY <1>8, <1>9, <1>10
  <2> HIDE DEF low, middle, high
  <2> QED
    BY <2>1, <2>2
<1> QED
  BY <1>4, <1>6, <1>11, <1>12

(* The tile that starts in the last rows reads a full set of rows, however  *)
(* few are valid: neither it nor the quantisation leaves the shared         *)
(* activation buffer.                                                       *)
THEOREM KernelStaysInside ==
  ASSUME TilesFit
  PROVE  Spec => []KernelReadsInside
<1>1. Init => RowsInv
  BY Constants DEF Init, RowsInv, AtWork
<1>2. RowsInv /\ [Next]_vars => RowsInv'
  BY StepKeepsRowsInv
<1>3. RowsInv => KernelReadsInside
  <2> SUFFICES ASSUME RowsInv, phase = "multiply"
               PROVE  /\ QuantizedBytes(Format, m) <= ActivationBytes
                      /\ \A t \in Threads : busy[t] # Idle =>
                           QuantizedBytes(Format, busy[t].i + RowStep) <= ActivationBytes
    BY DEF KernelReadsInside
  <2>1. /\ QBlk \in Nat /\ MaxLen \in Nat \ {0} /\ RowsAtOnce \in Nat \ {0}
        /\ m \in 1..MaxLen /\ layer \in DOMAIN Layers
    BY Constants DEF RowsInv, AtWork
  <2>2. Format \in Formats
    BY DEF Format, Formats
  <2> DEFINE tall == QBlk + 8
  <2>3. tall \in Nat /\ MaxLen * (QBlk + 24) = MaxLen * tall + 16 * MaxLen
    BY <2>1
  <2>4. MaxLen * tall \in Nat
    BY <2>1
  <2>5. ASSUME NEW rows \in 0..MaxLen PROVE rows * tall <= MaxLen * (QBlk + 24)
    <3>1. rows * tall <= MaxLen * tall
      BY <2>1, <2>3, Monotone
    <3>2. rows * tall \in Nat
      BY <2>3
    <3> HIDE DEF tall
    <3> QED
      BY <2>1, <2>3, <2>4, <3>1, <3>2
  <2>6. QuantizedBytes(Format, m) <= ActivationBytes
    <3>1. m \in 0..MaxLen /\ m \in Nat
      BY <2>1
    <3>2. m * tall <= MaxLen * (QBlk + 24)
      BY <2>5, <3>1
    <3> QED
      BY <2>1, <2>2, <3>1, <3>2, RowsFit
  <2>7. ASSUME NEW t \in Threads, busy[t] # Idle
        PROVE  QuantizedBytes(Format, busy[t].i + RowStep) <= ActivationBytes
    <3> DEFINE i == busy[t].i
    <3>1. i \in 0..(m - 1)
      BY <2>7 DEF RowsInv
    <3> HIDE DEF i
    <3>2. CASE m > 1
      <4> DEFINE more == RowsAtOnce - 1
      <4>1. RowStep = RowsAtOnce
        BY <3>2 DEF RowStep
      <4>2. more \in Nat /\ i + 1 \in 0..MaxLen /\ i + RowStep = (i + 1) + more
        BY <2>1, <3>1, <4>1
      <4>3. more * tall <= 16 * MaxLen
        BY DEF TilesFit
      <4> HIDE DEF more, tall
      <4>4. (i + 1) * tall <= MaxLen * tall
        BY <2>1, <2>3, <4>2, Monotone
      <4>5. ((i + 1) + more) * tall = (i + 1) * tall + more * tall
        BY <2>3, <4>2
      <4>6. (i + 1) * tall \in Nat /\ more * tall \in Nat
        BY <2>3, <4>2
      <4>7. (i + RowStep) * tall <= MaxLen * (QBlk + 24)
        BY <2>1, <2>3, <2>4, <4>2, <4>3, <4>4, <4>5, <4>6
      <4>8. i + RowStep \in Nat
        BY <4>2
      <4> QED
        BY <2>1, <2>2, <4>7, <4>8, RowsFit DEF i, tall
    <3>3. CASE ~(m > 1)
      <4>1. i + RowStep = 1 /\ 1 \in 0..MaxLen /\ 1 \in Nat
        BY <2>1, <3>1, <3>3 DEF RowStep
      <4>2. 1 * tall <= MaxLen * (QBlk + 24)
        BY <2>5, <4>1
      <4>3. QuantizedBytes(Format, 1) <= ActivationBytes
        BY <2>1, <2>2, <4>1, <4>2, RowsFit
      <4> QED
        BY <4>1, <4>3 DEF i
    <3> QED
      BY <3>2, <3>3
  <2> QED
    BY <2>6, <2>7
<1> QED
  BY <1>1, <1>2, <1>3, PTL DEF Spec

(* What the constructors write behind the repack buffer are zero points,    *)
(* the one file repack never reads: weights, scales and offsets always fit. *)
ZeroPointsSpill == \A x \in spilled : x[2] = "zero_point"

THEOREM OnlyZeroPointsSpill ==
  ASSUME BlocksFit
  PROVE  Spec => []ZeroPointsSpill
<1>1. Init => ZeroPointsSpill
  BY DEF Init, ZeroPointsSpill
<1>2. IInv /\ ZeroPointsSpill /\ [Next]_vars => ZeroPointsSpill'
  <2> SUFFICES ASSUME IInv, ZeroPointsSpill, [Next]_vars PROVE ZeroPointsSpill'
    OBVIOUS
  <2>1. CASE LoadFile
    <3>1. layer \in DOMAIN Layers /\ file \in 1..4
      BY DEF IInv, LoadingOK
    <3>2. CASE file = 4
      BY <2>1, <3>2, FileSizes DEF LoadFile, ZeroPointsSpill
    <3>3. CASE file # 4
      <4>1. file \in 1..3 /\ 4 \in (file + 1)..4 /\ 4 \in 1..4
        BY <3>1, <3>3
      <4>2. RepackBytes \in Nat /\ Start(layer, 4) <= RepackBytes
        BY <3>1, SectionsFit
      <4>3. /\ Start(layer, file) \in Nat /\ SectionBytes(layer, file) \in Nat
            /\ Start(layer, 4) \in Nat
            /\ Start(layer, file) + SectionBytes(layer, file) <= Start(layer, 4)
        BY <3>1, <4>1, SectionsInARow
      <4>4. ~(Start(layer, file) + SectionBytes(layer, file) > RepackBytes)
        BY <4>2, <4>3
      <4> QED
        BY <2>1, <4>4 DEF LoadFile, ZeroPointsSpill
    <3> QED
      BY <3>2, <3>3
  <2>2. ASSUME ReadFails \/ Repack PROVE ZeroPointsSpill'
    BY <2>2 DEF ReadFails, Repack, ZeroPointsSpill
  <2>3. ASSUME BeginPass \/ Quantize \/ Return \/ NextLayer PROVE ZeroPointsSpill'
    BY <2>3 DEF BeginPass, Quantize, Return, NextLayer, loading, ZeroPointsSpill
  <2>4. ASSUME NEW t \in Threads, Work(t) PROVE ZeroPointsSpill'
    <3>1. UNCHANGED loading
      BY <2>4 DEF Work, Take, ComputeTile
    <3> QED
      BY <3>1 DEF loading, ZeroPointsSpill
  <2>5. CASE UNCHANGED vars
    BY <2>5 DEF vars, loading, ZeroPointsSpill
  <2> QED
    BY <2>1, <2>2, <2>3, <2>4, <2>5 DEF Next
<1> QED
  BY <1>1, <1>2, SpecKeepsIInv, PTL DEF Spec
=============================================================================
