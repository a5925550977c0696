----------------------- MODULE AttentionKernelProofs -----------------------
(***************************************************************************)
(* Theorems about the kernels of attention.  The batched products, for     *)
(* every team of threads, number of heads, tile, block and shape: IInv     *)
(* says how far every element of C has come (Depth), which panels hold     *)
(* their own block already, and that no two threads are in the same        *)
(* iteration.  Then what happens between them, for every number of heads,  *)
(* keys and queries, every score that is not NaN and every schedule of the *)
(* rows: Computed says what each step has made of the raw scores.          *)
(***************************************************************************)
EXTENDS AttentionGemm, AttentionWeights, Foundations, SequenceTheorems, TLAPS

\* The first d products of the sum at address a of head h.
Prefix(h, a, d) == [p \in 1..d |-> FullSum(h, a)[p]]

-----------------------------------------------------------------------------
(* The inductive invariant                                                  *)

MasterOK ==
  /\ shape \in Shapes
  /\ region \in {"start", "packA", "packB", "multiply", "gemv", "done"}
  /\ head \in Heads
  /\ ic \in 0..(shape.m - 1) /\ pk \in 0..(shape.k - 1) /\ jc \in 0..(shape.n - 1)
  /\ next \in Nat /\ next % Stride = 0
  /\ region = "start" => head = 0 /\ ic = 0 /\ pk = 0 /\ jc = 0
  /\ region = "gemv" => shape.m = 1

\* The sums a tile has when its thread loads it.
Sums(ir, jr) == [rc \in Tile(ir, jr) |-> Prefix(head, TileAddress(ir, jr, rc), pk)]

AtWork(t) ==
  \E s \in 0..(next - 1), j \in 0..(ValidNC - 1) : \E g \in {Unset, Sums(s, j)} :
    /\ busy[t] = [start |-> s, jr |-> j, regs |-> g]
    /\ s < Limit /\ s % Stride = 0 /\ j % NR = 0
    /\ region # "multiply" => j = 0 /\ g = Unset

TeamOK ==
  /\ busy = [t \in Threads |-> busy[t]]
  /\ \A t \in Threads : busy[t] = Idle \/ AtWork(t)
  /\ \A t, u \in Threads : busy[t] # Idle /\ busy[t].start = busy[u].start => t = u

\* The iteration that starts at s has ended.
Ended(s) == s < next /\ \A t \in Threads : busy[t].start # s

HoldsA(ir) ==
  \A r \in 0..(ValidMR(ir) - 1), p \in 0..(ValidKC - 1) :
    blockA_packed[PanelStart(ir) + p * ValidMR(ir) + r] = AElement(ic + ir + r, pk + p)
HoldsB(jr) ==
  \A c \in 0..(ValidNR(jr) - 1), p \in 0..(ValidKC - 1) :
    blockB_packed[PanelStart(jr) + p * ValidNR(jr) + c] = BElement(head, pk + p, jc + jr + c)

PanelsOK ==
  /\ blockA_packed = [a \in 0..(MC * KC - 1) |-> blockA_packed[a]]
  /\ blockB_packed = [a \in 0..(KC * NC - 1) |-> blockB_packed[a]]
  /\ \A ir \in 0..(ValidMC - 1) :
       ir % MR = 0 /\ (region \in {"packB", "multiply"} \/ (region = "packA" /\ Ended(ir))) => HoldsA(ir)
  /\ \A jr \in 0..(ValidNC - 1) :
       jr % NR = 0 /\ (region = "multiply" \/ (region = "packB" /\ Ended(jr))) => HoldsB(jr)

\* The tile that row r and column c of the block belong to has been stored.
TileStored(r, c) ==
  /\ region = "multiply" /\ r < next
  /\ \A t \in Threads : busy[t] # Idle /\ busy[t].start <= r /\ r < busy[t].start + MR => c < busy[t].jr

\* How many products the element in row i and column j of head h has taken.
Depth(h, i, j) ==
  IF region = "start" THEN 0
  ELSE IF region = "done" THEN shape.k
  ELSE IF region = "gemv" THEN (IF Ended(h) THEN shape.k ELSE 0)
  ELSE IF h < head \/ (h = head /\ i < ic) THEN shape.k
  ELSE IF h > head \/ i >= ic + MC THEN 0
  ELSE IF j < jc \/ (j < jc + NC /\ TileStored(i - ic, j - jc)) THEN pk + ValidKC
  ELSE pk

Addresses == 0..(shape.m * shape.n - 1)
SumsOK ==
  /\ C = [ha \in Heads \X Addresses |-> C[ha]]
  /\ \A h \in Heads, a \in Addresses :
       C[<<h, a>>] = Prefix(h, a, Depth(h, a \div shape.n, a % shape.n))

IInv == MasterOK /\ TeamOK /\ PanelsOK /\ SumsOK
-----------------------------------------------------------------------------
(* The panels in their buffer                                               *)

LEMMA Sizes ==
  ASSUME MasterOK
  PROVE  /\ {NumHeads, GroupSize, MR, NR, MC, NC, KC, Lanes} \subseteq Nat \ {0}
         /\ MC % MR = 0 /\ NC % NR = 0
         /\ {shape.m, shape.n, shape.k} \subseteq Nat \ {0}
         /\ shape.layout \in {"rrr", "rcr"}
         /\ shape.layout = "rcr" => shape.k % Lanes = 0
         /\ {ic, pk, jc, head, next} \subseteq Nat
         /\ ValidMC \in 1..MC /\ ValidNC \in 1..NC /\ ValidKC \in 1..KC
         /\ ic + ValidMC <= shape.m /\ jc + ValidNC <= shape.n /\ pk + ValidKC <= shape.k
         /\ ic + MC < shape.m => ValidMC = MC
         /\ ic + MC >= shape.m => ic + ValidMC = shape.m
         /\ jc + NC < shape.n => ValidNC = NC
         /\ jc + NC >= shape.n => jc + ValidNC = shape.n
         /\ pk + KC < shape.k => ValidKC = KC
         /\ pk + KC >= shape.k => pk + ValidKC = shape.k
<1>1. {NumHeads, GroupSize, MR, NR, MC, NC, KC, Lanes} \subseteq Nat \ {0} /\ MC % MR = 0 /\ NC % NR = 0
  BY GemmAssumption
<1>2. shape \in Shape /\ (shape.layout = "rcr" => shape.k % Lanes = 0)
  BY GemmAssumption DEF MasterOK
<1>3. {shape.m, shape.n, shape.k} \subseteq Nat \ {0} /\ shape.layout \in {"rrr", "rcr"}
  BY <1>2 DEF Shape
<1>4. {ic, pk, jc, head, next} \subseteq Nat
  BY <1>1, <1>3 DEF MasterOK, Heads
<1>5. ic < shape.m /\ pk < shape.k /\ jc < shape.n
  BY <1>1, <1>3 DEF MasterOK
<1>6. /\ ValidMC \in 1..MC /\ ic + ValidMC <= shape.m
      /\ ic + MC < shape.m => ValidMC = MC
      /\ ic + MC >= shape.m => ic + ValidMC = shape.m
  BY <1>1, <1>3, <1>4, <1>5 DEF ValidMC, Least
<1>7. /\ ValidNC \in 1..NC /\ jc + ValidNC <= shape.n
      /\ jc + NC < shape.n => ValidNC = NC
      /\ jc + NC >= shape.n => jc + ValidNC = shape.n
  BY <1>1, <1>3, <1>4, <1>5 DEF ValidNC, Least
<1>8. /\ ValidKC \in 1..KC /\ pk + ValidKC <= shape.k
      /\ pk + KC < shape.k => ValidKC = KC
      /\ pk + KC >= shape.k => pk + ValidKC = shape.k
  BY <1>1, <1>3, <1>4, <1>5 DEF ValidKC, Least
<1> QED
  BY <1>1, <1>2, <1>3, <1>4, <1>6, <1>7, <1>8

\* Where the p-th group of a panel of width w keeps its element r.
LEMMA PanelOffset ==
  ASSUME NEW v \in Nat \ {0}, NEW w \in Nat \ {0}, NEW r \in 0..(w - 1), NEW p \in 0..(v - 1)
  PROVE  /\ p * w + r \in 0..(w * v - 1)
         /\ (p * w + r) \div w = p /\ (p * w + r) % w = r
<1>1. p * w <= (v - 1) * w
  BY Monotone
<1>2. (v - 1) * w = w * v - w
  OBVIOUS
<1>3. p * w \in Nat /\ w * v \in Nat
  OBVIOUS
<1>4. p * w + r \in 0..(w * v - 1)
  BY <1>1, <1>2, <1>3
<1>5. \A a \in Nat : a = p * w + r => a \div w = p /\ a % w = r
  BY OneQuotient
<1> QED
  BY <1>3, <1>4, <1>5

\* A panel of w lines that lies within a block fits in the block's buffer.
LEMMA PanelFits ==
  ASSUME NEW v \in Nat \ {0}, NEW w \in Nat \ {0}, NEW i \in Nat, NEW block \in Nat, NEW depth \in Nat,
         i + w <= block, v <= depth, NEW x \in 0..(w * v - 1)
  PROVE  i * v + x \in 0..(block * depth - 1)
<1>1. (i + w) * v <= block * depth
  BY Monotone
<1>2. (i + w) * v = i * v + w * v
  OBVIOUS
<1>3. i * v \in Nat /\ w * v \in Nat /\ block * depth \in Nat
  OBVIOUS
<1> QED
  BY <1>1, <1>2, <1>3

\* Panels of different lines do not meet.
LEMMA PanelsApart ==
  ASSUME NEW v \in Nat \ {0}, NEW w \in Nat \ {0}, NEW i \in Nat,
         NEW u \in Nat \ {0}, NEW k \in Nat, i + w <= k \/ k + u <= i,
         NEW x \in 0..(u * v - 1)
  PROVE  k * v + x \notin (i * v) .. (i * v + w * v - 1)
<1>1. CASE i + w <= k
  <2>1. {i * v, w * v, k * v} \subseteq Nat /\ i * v + w * v <= k * v
    BY <1>1, MonotoneSum
  <2>2. u * v \in Nat
    OBVIOUS
  <2> QED
    BY <2>1, <2>2
<1>2. CASE k + u <= i
  <2>1. {k * v, u * v, i * v} \subseteq Nat /\ k * v + u * v <= i * v
    BY <1>2, MonotoneSum
  <2>2. w * v \in Nat
    OBVIOUS
  <2> QED
    BY <2>1, <2>2
<1> QED
  BY <1>1, <1>2

\* Lines that start at a multiple of the tile's height lie within the block.
LEMMA LinesOfPanel ==
  ASSUME NEW unit \in Nat \ {0}, NEW block \in Nat, NEW total \in Nat, total <= block, block % unit = 0,
         NEW i \in 0..(total - 1), i % unit = 0
  PROVE  /\ Least(total - i, unit) \in 1..unit
         /\ i + Least(total - i, unit) <= total
         /\ i + unit <= block
<1>1. i \in Nat /\ i < block
  OBVIOUS
<1>2. i + unit <= block
  BY <1>1, MultiplesApart, Zenon
<1> QED
  BY <1>2 DEF Least

\* Two iterations work on different lines.
LEMMA LinesApart ==
  ASSUME NEW unit \in Nat \ {0}, NEW total \in Nat,
         NEW i \in 0..(total - 1), i % unit = 0, NEW k \in 0..(total - 1), k % unit = 0, i # k
  PROVE  i + Least(total - i, unit) <= k \/ k + Least(total - k, unit) <= i
<1> i \in Nat /\ k \in Nat
  OBVIOUS
<1>1. CASE i < k
  <2>1. i + unit <= k
    BY <1>1, MultiplesApart, Zenon
  <2> QED
    BY <2>1 DEF Least
<1>2. CASE k < i
  <2>1. k + unit <= i
    BY <1>2, MultiplesApart, Zenon
  <2> QED
    BY <2>1 DEF Least
<1> QED
  BY <1>1, <1>2

-----------------------------------------------------------------------------
(* Rows, columns and sums of C                                              *)

\* A factor of a sum is a head and an offset.
Factor == Int \X Int
Product == Factor \X Factor

LEMMA AddressFacts ==
  ASSUME NEW m \in Nat \ {0}, NEW n \in Nat \ {0}, NEW a \in 0..(m * n - 1)
  PROVE  a \div n \in 0..(m - 1) /\ a % n \in 0..(n - 1) /\ a = (a \div n) * n + (a % n)
<1> DEFINE i == a \div n
<1> DEFINE j == a % n
<1>1. m * n \in Nat
  OBVIOUS
<1>2. a \in Nat /\ a < m * n
  BY <1>1
<1>3. i \in Nat /\ j \in 0..(n - 1) /\ a = n * i + j
  BY <1>2, Division
<1> HIDE DEF i, j
<1>4. n * i = i * n /\ n * i \in Nat
  BY <1>3
<1>5. i < m
  <2>1. CASE m <= i
    <3>1. m * n <= i * n
      BY <1>3, <2>1, Monotone
    <3> QED
      BY <1>1, <1>2, <1>3, <1>4, <3>1
  <2> QED
    BY <1>3, <2>1
<1>6. i \in 0..(m - 1) /\ j \in 0..(n - 1) /\ a = i * n + j
  BY <1>3, <1>4, <1>5
<1> QED
  BY <1>6 DEF i, j

LEMMA AddressOf ==
  ASSUME NEW m \in Nat \ {0}, NEW n \in Nat \ {0}, NEW i \in 0..(m - 1), NEW j \in 0..(n - 1)
  PROVE  /\ i * n + j \in 0..(m * n - 1)
         /\ (i * n + j) \div n = i /\ (i * n + j) % n = j
<1>1. {i * n, 1 * n, m * n} \subseteq Nat /\ i * n + 1 * n <= m * n
  BY MonotoneSum
<1>2. i * n + j \in 0..(m * n - 1)
  BY <1>1
<1>3. \A a \in Nat : a = i * n + j => a \div n = i /\ a % n = j
  BY OneQuotient
<1> QED
  BY <1>1, <1>2, <1>3

LEMMA FullSumIsSequence ==
  ASSUME MasterOK, NEW h \in Heads, NEW a \in Addresses
  PROVE  FullSum(h, a) \in Seq(Product) /\ Len(FullSum(h, a)) = shape.k
<1> DEFINE n == shape.n
           k == shape.k
           i == a \div n
           j == a % n
           BAddress(p) == IF shape.layout = "rrr" THEN (p - 1) * n + j ELSE j * k + p - 1
<1>1. n \in Nat \ {0} /\ k \in Nat \ {0} /\ i \in Nat /\ j \in Nat
  <2>1. shape.m \in Nat \ {0} /\ n \in Nat \ {0} /\ k \in Nat \ {0}
    BY Sizes
  <2>2. a \in 0..(shape.m * n - 1)
    BY DEF Addresses
  <2>3. i \in 0..(shape.m - 1) /\ j \in 0..(n - 1)
    BY <2>1, <2>2, AddressFacts, Zenon
  <2> QED
    BY <2>1, <2>3
<1>2. h \in Nat /\ Group(h) \in Int
  BY Sizes DEF Heads, Group
<1> HIDE DEF n, k, i, j
<1>3. \A p \in 1..k : i * k + p - 1 \in Int
  <2>1. i * k \in Int
    BY <1>1
  <2> QED
    BY <1>1, <2>1
<1>4. \A p \in 1..k : BAddress(p) \in Int
  <2>1. \A p \in 1..k : (p - 1) * n \in Int
    BY <1>1
  <2>2. j * k \in Int
    BY <1>1
  <2> QED
    BY <1>1, <2>1, <2>2
<1> HIDE DEF BAddress
<1>5. FullSum(h, a) = [p \in 1..k |-> <<<<h, i * k + p - 1>>, <<Group(h), BAddress(p)>>>>]
  BY DEF FullSum, n, k, i, j, BAddress, Group
<1>6. \A p \in 1..k : <<<<h, i * k + p - 1>>, <<Group(h), BAddress(p)>>>> \in Product
  BY <1>2, <1>3, <1>4 DEF Product, Factor
<1>7. FullSum(h, a) \in [1..k -> Product]
  BY <1>5, <1>6
<1> QED
  BY <1>1, <1>7 DEF k

LEMMA PrefixFacts ==
  ASSUME MasterOK, NEW h \in Heads, NEW a \in Addresses, NEW d \in 0..shape.k
  PROVE  /\ Prefix(h, a, d) \in Seq(Product) /\ Len(Prefix(h, a, d)) = d
         /\ Prefix(h, a, d) = SubSeq(FullSum(h, a), 1, d)
<1>1. shape.k \in Nat
  BY Sizes
<1>2. FullSum(h, a) \in Seq(Product) /\ Len(FullSum(h, a)) = shape.k
  BY FullSumIsSequence
<1>3. \A p \in 1..d : FullSum(h, a)[p] \in Product
  BY <1>1, <1>2, ElementOfSeq
<1>4. Prefix(h, a, d) \in [1..d -> Product]
  BY <1>3 DEF Prefix
<1>5. SubSeq(FullSum(h, a), 1, d) = [p \in 1..d |-> FullSum(h, a)[p]]
  BY <1>1, <1>2
<1> QED
  BY <1>1, <1>4, <1>5 DEF Prefix

LEMMA EmptyPrefix ==
  ASSUME MasterOK, NEW h \in Heads, NEW a \in Addresses
  PROVE  Prefix(h, a, 0) = << >> /\ Prefix(h, a, shape.k) = FullSum(h, a)
<1>1. shape.k \in Nat /\ 0 \in 0..shape.k /\ shape.k \in 0..shape.k
  BY Sizes
<1>2. FullSum(h, a) \in Seq(Product) /\ Len(FullSum(h, a)) = shape.k
  BY FullSumIsSequence
<1>3. Prefix(h, a, 0) \in Seq(Product) /\ Len(Prefix(h, a, 0)) = 0
  BY <1>1, PrefixFacts
<1>4. Prefix(h, a, shape.k) = SubSeq(FullSum(h, a), 1, shape.k)
  BY <1>1, PrefixFacts
<1> QED
  BY <1>1, <1>2, <1>3, <1>4, EmptySeq

-----------------------------------------------------------------------------
(* Tiles                                                                    *)

\* A tile of the block that is being multiplied.
TileOrigin(s, j) ==
  /\ s \in 0..(ValidMC - 1) /\ s % MR = 0
  /\ j \in 0..(ValidNC - 1) /\ j % NR = 0

LEMMA TileSizes ==
  ASSUME MasterOK, NEW s, NEW j, TileOrigin(s, j)
  PROVE  /\ s \in Nat /\ j \in Nat
         /\ ValidMR(s) \in 1..MR /\ s + ValidMR(s) <= ValidMC /\ s + MR <= MC
         /\ ValidNR(j) \in 1..NR /\ j + ValidNR(j) <= ValidNC /\ j + NR <= NC
         /\ \/ s + ValidMR(s) = ValidMC
            \/ ValidMR(s) = MR
         /\ \/ j + ValidNR(j) = ValidNC
            \/ ValidNR(j) = NR
<1>1. {MR, NR, MC, NC} \subseteq Nat \ {0} /\ MC % MR = 0 /\ NC % NR = 0
      /\ ValidMC \in 1..MC /\ ValidNC \in 1..NC
  BY Sizes
<1>2. s \in 0..(ValidMC - 1) /\ s % MR = 0 /\ j \in 0..(ValidNC - 1) /\ j % NR = 0
  BY DEF TileOrigin
<1>3. ValidMC \in Nat /\ ValidNC \in Nat /\ MC \in Nat /\ NC \in Nat /\ ValidMC <= MC /\ ValidNC <= NC
  BY <1>1
<1>4. Least(ValidMC - s, MR) \in 1..MR /\ s + Least(ValidMC - s, MR) <= ValidMC /\ s + MR <= MC
  BY <1>1, <1>2, <1>3, LinesOfPanel, Zenon
<1>5. Least(ValidNC - j, NR) \in 1..NR /\ j + Least(ValidNC - j, NR) <= ValidNC /\ j + NR <= NC
  BY <1>1, <1>2, <1>3, LinesOfPanel, Zenon
<1>6. /\ Least(ValidMC - s, MR) = ValidMC - s \/ Least(ValidMC - s, MR) = MR
      /\ Least(ValidNC - j, NR) = ValidNC - j \/ Least(ValidNC - j, NR) = NR
  BY DEF Least
<1> HIDE DEF ValidMC, ValidNC
<1> QED
  BY <1>1, <1>2, <1>4, <1>5, <1>6 DEF ValidMR, ValidNR

\* The row and the column that an element of a tile has in C.
LEMMA TileElement ==
  ASSUME MasterOK, NEW s, NEW j, TileOrigin(s, j), NEW rc \in Tile(s, j)
  PROVE  /\ rc[1] \in 0..(ValidMR(s) - 1) /\ rc[2] \in 0..(ValidNR(j) - 1)
         /\ TileAddress(s, j, rc) \in Addresses
         /\ TileAddress(s, j, rc) \div shape.n = ic + s + rc[1]
         /\ TileAddress(s, j, rc) % shape.n = jc + j + rc[2]
<1>1. rc[1] \in 0..(ValidMR(s) - 1) /\ rc[2] \in 0..(ValidNR(j) - 1)
  BY DEF Tile
<1>2. /\ s \in Nat /\ j \in Nat
      /\ ValidMR(s) \in Nat /\ s + ValidMR(s) <= ValidMC
      /\ ValidNR(j) \in Nat /\ j + ValidNR(j) <= ValidNC
  <2>1. {MR, NR} \subseteq Nat
    BY Sizes
  <2> QED
    BY <2>1, TileSizes
<1>3. /\ ic \in Nat /\ jc \in Nat /\ ValidMC \in Nat /\ ValidNC \in Nat
      /\ shape.m \in Nat \ {0} /\ shape.n \in Nat \ {0}
      /\ ic + ValidMC <= shape.m /\ jc + ValidNC <= shape.n
  BY Sizes
<1> HIDE DEF ValidMC, ValidNC, ValidMR, ValidNR
<1> DEFINE x == ic + s + rc[1]
           y == jc + j + rc[2]
<1>4. x \in 0..(shape.m - 1) /\ y \in 0..(shape.n - 1)
  BY <1>1, <1>2, <1>3
<1>5. TileAddress(s, j, rc) = x * shape.n + y
  BY DEF TileAddress, CAddress
<1> HIDE DEF x, y
<1>6. /\ x * shape.n + y \in 0..(shape.m * shape.n - 1)
      /\ (x * shape.n + y) \div shape.n = x
      /\ (x * shape.n + y) % shape.n = y
  <2> DEFINE m == shape.m
             n == shape.n
  <2>1. m \in Nat \ {0} /\ n \in Nat \ {0} /\ x \in 0..(m - 1) /\ y \in 0..(n - 1)
    BY <1>3, <1>4
  <2> HIDE DEF m, n
  <2>2. x * n + y \in 0..(m * n - 1) /\ (x * n + y) \div n = x /\ (x * n + y) % n = y
    BY <2>1, AddressOf
  <2> QED
    BY <2>2 DEF m, n
<1>7. /\ TileAddress(s, j, rc) \in 0..(shape.m * shape.n - 1)
      /\ TileAddress(s, j, rc) \div shape.n = x
      /\ TileAddress(s, j, rc) % shape.n = y
  BY <1>5, <1>6
<1> QED
  BY <1>1, <1>7 DEF Addresses, x, y

\* The addresses that a tile covers.
InTile(s, j, a) ==
  /\ ic + s <= a \div shape.n /\ a \div shape.n < ic + s + ValidMR(s)
  /\ jc + j <= a % shape.n /\ a % shape.n < jc + j + ValidNR(j)

LEMMA TileCovers ==
  ASSUME MasterOK, NEW s, NEW j, TileOrigin(s, j), NEW a \in Addresses
  PROVE  InTile(s, j, a) <=> \E rc \in Tile(s, j) : a = TileAddress(s, j, rc)
<1>1. /\ s \in Nat /\ j \in Nat /\ ValidMR(s) \in Nat /\ ValidNR(j) \in Nat
  <2>1. {MR, NR} \subseteq Nat
    BY Sizes
  <2> QED
    BY <2>1, TileSizes
<1>2. /\ ic \in Nat /\ jc \in Nat /\ shape.m \in Nat \ {0} /\ shape.n \in Nat \ {0}
  BY Sizes
<1> DEFINE i == a \div shape.n
           c == a % shape.n
<1>3. i \in 0..(shape.m - 1) /\ c \in 0..(shape.n - 1) /\ a = i * shape.n + c
  <2>1. a \in 0..(shape.m * shape.n - 1)
    BY DEF Addresses
  <2> QED
    BY <1>2, <2>1, AddressFacts, Zenon
<1>4. ASSUME InTile(s, j, a) PROVE \E rc \in Tile(s, j) : a = TileAddress(s, j, rc)
  <2>1. ic + s <= i /\ i < ic + s + ValidMR(s) /\ jc + j <= c /\ c < jc + j + ValidNR(j)
    BY <1>4 DEF InTile
  <2> HIDE DEF i, c
  <2>2. PICK x \in 0..(ValidMR(s) - 1) : i = ic + s + x
    <3>1. i - ic - s \in 0..(ValidMR(s) - 1) /\ i = ic + s + (i - ic - s)
      BY <1>1, <1>2, <1>3, <2>1
    <3> QED
      BY <3>1
  <2>3. PICK y \in 0..(ValidNR(j) - 1) : c = jc + j + y
    <3>1. c - jc - j \in 0..(ValidNR(j) - 1) /\ c = jc + j + (c - jc - j)
      BY <1>1, <1>2, <1>3, <2>1
    <3> QED
      BY <3>1
  <2>4. <<x, y>> \in Tile(s, j)
    BY DEF Tile
  <2>5. a = TileAddress(s, j, <<x, y>>)
    BY <1>3, <2>2, <2>3 DEF TileAddress, CAddress
  <2> QED
    BY <2>4, <2>5
<1>5. ASSUME NEW rc \in Tile(s, j), a = TileAddress(s, j, rc) PROVE InTile(s, j, a)
  <2>1. /\ rc[1] \in 0..(ValidMR(s) - 1) /\ rc[2] \in 0..(ValidNR(j) - 1)
        /\ i = ic + s + rc[1] /\ c = jc + j + rc[2]
    BY <1>5, TileElement
  <2> HIDE DEF i, c
  <2>2. ic + s <= i /\ i < ic + s + ValidMR(s) /\ jc + j <= c /\ c < jc + j + ValidNR(j)
    BY <1>1, <1>2, <2>1
  <2> QED
    BY <2>2 DEF InTile, i, c
<1> QED
  BY <1>4, <1>5

\* Tiles of one block are the same or have no element in common.
LEMMA TilesApart ==
  ASSUME MasterOK, NEW s, NEW j, TileOrigin(s, j), NEW s2, NEW j2, TileOrigin(s2, j2), s # s2,
         NEW a \in Addresses, InTile(s, j, a), InTile(s2, j2, a)
  PROVE  FALSE
<1>1. /\ MR \in Nat \ {0} /\ ValidMC \in Nat /\ ic \in Nat
  BY Sizes
<1>2. s \in 0..(ValidMC - 1) /\ s % MR = 0 /\ s2 \in 0..(ValidMC - 1) /\ s2 % MR = 0
  BY DEF TileOrigin
<1>3. s + Least(ValidMC - s, MR) <= s2 \/ s2 + Least(ValidMC - s2, MR) <= s
  BY <1>1, <1>2, LinesApart, Zenon
<1>4. s + ValidMR(s) <= s2 \/ s2 + ValidMR(s2) <= s
  BY <1>3 DEF ValidMR
<1>5. ValidMR(s) \in Nat /\ ValidMR(s2) \in Nat /\ s \in Nat /\ s2 \in Nat
  BY <1>1, TileSizes
<1> DEFINE i == a \div shape.n
<1>6. ic + s <= i /\ i < ic + s + ValidMR(s) /\ ic + s2 <= i /\ i < ic + s2 + ValidMR(s2)
  BY DEF InTile
<1>7. i \in Int
  <2>1. shape.m \in Nat \ {0} /\ shape.n \in Nat \ {0}
    BY Sizes
  <2>2. a \in 0..(shape.m * shape.n - 1)
    BY DEF Addresses
  <2>3. i \in 0..(shape.m - 1)
    BY <2>1, <2>2, AddressFacts, Zenon
  <2> QED
    BY <2>1, <2>3
<1> HIDE DEF i
<1> QED
  BY <1>1, <1>4, <1>5, <1>6, <1>7

\* The products of one panel of A with one of B continue the tile's sums.
LEMMA PanelsContinueSums ==
  ASSUME MasterOK, NEW s, NEW j, TileOrigin(s, j), HoldsA(s), HoldsB(j), NEW rc \in Tile(s, j)
  PROVE  Multiplied(Sums(s, j), s, j)[rc] = Prefix(head, TileAddress(s, j, rc), pk + ValidKC)
<1> DEFINE a == TileAddress(s, j, rc)
           full == FullSum(head, a)
           v == ValidKC
           added == [p \in 1..v |->
                       <<blockA_packed[PanelStart(s) + (p - 1) * ValidMR(s) + rc[1]],
                         blockB_packed[PanelStart(j) + (p - 1) * ValidNR(j) + rc[2]]>>]
<1>1. /\ pk \in Nat /\ v \in Nat \ {0} /\ pk + v <= shape.k /\ shape.k \in Nat /\ head \in Heads
      /\ pk \in 0..shape.k /\ pk + v \in 0..shape.k
  BY Sizes DEF MasterOK
<1>2. /\ rc[1] \in 0..(ValidMR(s) - 1) /\ rc[2] \in 0..(ValidNR(j) - 1)
      /\ a \in Addresses
      /\ a \div shape.n = ic + s + rc[1] /\ a % shape.n = jc + j + rc[2]
  BY TileElement
<1>3. Multiplied(Sums(s, j), s, j)[rc] = Prefix(head, a, pk) \o added
  BY DEF Multiplied, Sums
<1>4. full \in Seq(Product) /\ Len(full) = shape.k
  BY <1>1, <1>2, FullSumIsSequence
<1>5. /\ Prefix(head, a, pk) \in Seq(Product) /\ Len(Prefix(head, a, pk)) = pk
  BY <1>1, <1>2, PrefixFacts
<1>6. \A p \in 1..v : added[p] = full[pk + p]
  <2>1. SUFFICES ASSUME NEW p \in 1..v PROVE added[p] = full[pk + p]
    OBVIOUS
  <2>2. PICK q \in 0..(v - 1) : q = p - 1
    BY <1>1
  <2>3. blockA_packed[PanelStart(s) + q * ValidMR(s) + rc[1]] = AElement(ic + s + rc[1], pk + q)
    BY <1>2, <2>2 DEF HoldsA
  <2>4. blockB_packed[PanelStart(j) + q * ValidNR(j) + rc[2]] = BElement(head, pk + q, jc + j + rc[2])
    BY <1>2, <2>2 DEF HoldsB
  <2>5. added[p] = <<AElement(ic + s + rc[1], pk + q), BElement(head, pk + q, jc + j + rc[2])>>
    BY <2>2, <2>3, <2>4
  <2>6. PICK r \in 1..shape.k : r = pk + p /\ r - 1 = pk + q
    BY <1>1, <2>2
  <2> DEFINE i == a \div shape.n
             c == a % shape.n
  <2>7. full[r] = <<<<head, i * shape.k + r - 1>>,
                    <<head \div GroupSize, IF shape.layout = "rrr" THEN (r - 1) * shape.n + c
                                           ELSE c * shape.k + r - 1>>>>
    BY DEF FullSum
  <2>8. i = ic + s + rc[1] /\ c = jc + j + rc[2]
    BY <1>2
  <2> HIDE DEF i, c, a, full, added
  <2>9. i \in Int /\ c \in Int /\ i * shape.k \in Int /\ c * shape.k \in Int
    <3>1. i \in Int /\ c \in Int
      <4>1. ic \in Nat /\ jc \in Nat
        BY Sizes
      <4>2. s \in Nat /\ j \in Nat
        BY TileSizes
      <4>3. rc[1] \in Int /\ rc[2] \in Int
        BY <1>2
      <4> QED
        BY <2>8, <4>1, <4>2, <4>3
    <3> QED
      BY <1>1, <3>1
  <2>10. AElement(i, pk + q) = <<head, i * shape.k + r - 1>>
    <3>1. i * shape.k + (pk + q) = i * shape.k + r - 1
      BY <1>1, <2>6, <2>9
    <3> QED
      BY <3>1 DEF AElement
  <2>11. BElement(head, pk + q, c) = <<head \div GroupSize, IF shape.layout = "rrr" THEN (r - 1) * shape.n + c
                                                            ELSE c * shape.k + r - 1>>
    <3>1. c * shape.k + (pk + q) = c * shape.k + r - 1
      BY <1>1, <2>6, <2>9
    <3>2. (pk + q) * shape.n + c = (r - 1) * shape.n + c
      BY <2>6
    <3> QED
      BY <3>1, <3>2 DEF BElement, BOffset, Group
  <2>12. full[r] = <<AElement(i, pk + q), BElement(head, pk + q, c)>>
    BY <2>7, <2>10, <2>11
  <2> QED
    BY <2>5, <2>6, <2>8, <2>12
<1> HIDE DEF added, full, a
<1>7. added \in [1..v -> Product]
  <2>1. \A p \in 1..v : full[pk + p] \in Product
    <3>1. \A r \in 1..shape.k : full[r] \in Product
      BY <1>4, ElementOfSeq
    <3> QED
      BY <1>1, <3>1
  <2>2. added = [p \in 1..v |-> added[p]]
    BY DEF added
  <2> QED
    BY <1>6, <2>1, <2>2
<1>8. added \in Seq(Product) /\ Len(added) = v
  BY <1>1, <1>7
<1>9. /\ (Prefix(head, a, pk) \o added) \in Seq(Product)
      /\ Len(Prefix(head, a, pk) \o added) = pk + v
      /\ \A r \in 1..(pk + v) : (Prefix(head, a, pk) \o added)[r] =
             IF r <= pk THEN Prefix(head, a, pk)[r] ELSE added[r - pk]
  <2> DEFINE before == Prefix(head, a, pk)
  <2>1. before \in Seq(Product) /\ Len(before) = pk
    BY <1>5
  <2> HIDE DEF before
  <2>2. before \o added \in Seq(Product) /\ Len(before \o added) = Len(before) + Len(added)
    BY <1>8, <2>1, ConcatProperties
  <2>3. \A r \in 1..(Len(before) + Len(added)) :
            (before \o added)[r] = IF r <= Len(before) THEN before[r] ELSE added[r - Len(before)]
    BY <1>8, <2>1, ConcatProperties
  <2>4. /\ before \o added \in Seq(Product)
        /\ Len(before \o added) = pk + v
        /\ \A r \in 1..(pk + v) : (before \o added)[r] = IF r <= pk THEN before[r] ELSE added[r - pk]
    BY <1>8, <2>1, <2>2, <2>3
  <2> QED
    BY <2>4 DEF before
<1>10. \A r \in 1..(pk + v) : (Prefix(head, a, pk) \o added)[r] = full[r]
  <2>1. SUFFICES ASSUME NEW r \in 1..(pk + v) PROVE (Prefix(head, a, pk) \o added)[r] = full[r]
    OBVIOUS
  <2>2. CASE r <= pk
    BY <1>1, <1>9, <2>2 DEF Prefix, full
  <2>3. CASE ~(r <= pk)
    <3>1. PICK p \in 1..v : p = r - pk /\ pk + p = r
      BY <1>1, <2>3
    <3> QED
      BY <1>6, <1>9, <2>3, <3>1
  <2> QED
    BY <2>2, <2>3
<1>11. Prefix(head, a, pk) \o added = [r \in 1..(pk + v) |-> full[r]]
  <2> DEFINE sum == Prefix(head, a, pk) \o added
  <2>1. sum \in Seq(Product) /\ Len(sum) = pk + v /\ \A r \in 1..(pk + v) : sum[r] = full[r]
    BY <1>9, <1>10
  <2> HIDE DEF sum
  <2>2. sum = [r \in 1..(pk + v) |-> full[r]]
    BY <1>1, <2>1
  <2> QED
    BY <2>2 DEF sum
<1> QED
  BY <1>3, <1>11 DEF Prefix, full, a

-----------------------------------------------------------------------------
(* The initial state, and what a step leaves alone                          *)

NoOne == \A t \in Threads : busy[t] = Idle

LEMMA NoOneIsTeam ==
  ASSUME busy = [t \in Threads |-> busy[t]], NoOne
  PROVE  TeamOK
  BY DEF NoOne, TeamOK, Idle

\* The row and the column of an address.
LEMMA RowAndColumn ==
  ASSUME MasterOK, NEW a \in Addresses
  PROVE  a \div shape.n \in 0..(shape.m - 1) /\ a % shape.n \in 0..(shape.n - 1)
<1>1. shape.m \in Nat \ {0} /\ shape.n \in Nat \ {0}
  BY Sizes
<1>2. a \in 0..(shape.m * shape.n - 1)
  BY DEF Addresses
<1> QED
  BY <1>1, <1>2, AddressFacts, Zenon

LEMMA SumsKept ==
  ASSUME MasterOK, SumsOK, shape' = shape, C' = C,
         \A h \in Heads, i \in 0..(shape.m - 1), j \in 0..(shape.n - 1) : Depth(h, i, j)' = Depth(h, i, j)
  PROVE  SumsOK'
<1>1. Addresses' = Addresses
  BY DEF Addresses
<1>2. C' = [ha \in Heads \X Addresses' |-> C'[ha]]
  BY <1>1 DEF SumsOK
<1>3. ASSUME NEW h \in Heads, NEW a \in Addresses'
      PROVE  C'[<<h, a>>] = Prefix(h, a, Depth(h, a \div shape.n, a % shape.n))'
  <2>1. C[<<h, a>>] = Prefix(h, a, Depth(h, a \div shape.n, a % shape.n))
    BY <1>1 DEF SumsOK
  <2>2. Depth(h, a \div shape.n, a % shape.n)' = Depth(h, a \div shape.n, a % shape.n)
    <3>1. PICK i \in 0..(shape.m - 1), j \in 0..(shape.n - 1) : i = a \div shape.n /\ j = a % shape.n
      BY <1>1, RowAndColumn
    <3>2. i = a \div shape'.n /\ j = a % shape'.n
      BY <3>1
    <3>3. Depth(h, a \div shape.n, a % shape.n)' = Depth(h, i, j)'
      BY <3>2 DEF Depth, TileStored
    <3> QED
      BY <3>1, <3>3
  <2>3. Prefix(h, a, Depth(h, a \div shape.n, a % shape.n))'
          = Prefix(h, a, Depth(h, a \div shape.n, a % shape.n))
    BY <2>2 DEF Prefix, FullSum
  <2> QED
    BY <2>1, <2>3
<1> QED
  BY <1>2, <1>3 DEF SumsOK

LEMMA InitIsConsistent ==
  ASSUME Init
  PROVE  IInv
<1>1. {NumHeads, GroupSize, MR, NR, MC, NC, KC, Lanes} \subseteq Nat \ {0}
  BY GemmAssumption
<1>2. shape \in Shape
  BY GemmAssumption DEF Init
<1>3. {shape.m, shape.n, shape.k} \subseteq Nat \ {0}
  BY <1>2 DEF Shape
<1>4. MasterOK
  <2>1. region = "start" /\ shape \in Shapes
    BY DEF Init
  <2>2. head \in Heads /\ ic \in 0..(shape.m - 1) /\ pk \in 0..(shape.k - 1) /\ jc \in 0..(shape.n - 1)
    <3>1. head = 0 /\ ic = 0 /\ pk = 0 /\ jc = 0
      BY DEF Init
    <3>2. 0 \in 0..(shape.m - 1) /\ 0 \in 0..(shape.k - 1) /\ 0 \in 0..(shape.n - 1)
      BY <1>3
    <3>3. 0 \in Heads
      BY <1>1 DEF Heads
    <3> QED
      BY <3>1, <3>2, <3>3
  <2>3. Stride = 1
    BY <2>1 DEF Stride
  <2>4. next \in Nat /\ next % Stride = 0
    BY <2>3 DEF Init
  <2>5. head = 0 /\ ic = 0 /\ pk = 0 /\ jc = 0
    BY DEF Init
  <2> QED
    BY <2>1, <2>2, <2>4, <2>5 DEF MasterOK
<1>5. TeamOK
  BY NoOneIsTeam DEF Init, NoOne
<1>6. PanelsOK
  BY DEF Init, PanelsOK
<1>7. SumsOK
  <2>1. C = [ha \in Heads \X Addresses |-> C[ha]]
    BY DEF Init, FreshMatrix, Addresses
  <2>2. ASSUME NEW h \in Heads, NEW a \in Addresses
        PROVE  C[<<h, a>>] = Prefix(h, a, Depth(h, a \div shape.n, a % shape.n))
    <3>1. C[<<h, a>>] = << >>
      BY DEF Init, FreshMatrix, Addresses
    <3>2. Depth(h, a \div shape.n, a % shape.n) = 0
      BY DEF Init, FreshMatrix, Depth
    <3> QED
      BY <1>4, <3>1, <3>2, EmptyPrefix
  <2> QED
    BY <2>1, <2>2 DEF SumsOK
<1> QED
  BY <1>4, <1>5, <1>6, <1>7 DEF IInv

\* When the loop has run out of iterations and everyone is back.
LEMMA BarrierFacts ==
  ASSUME IInv, Barrier
  PROVE  /\ busy = [t \in Threads |-> busy[t]] /\ NoOne
         /\ \A s \in Nat : s < Limit => Ended(s)
         /\ region = "multiply" => \A r \in 0..(ValidMC - 1), c \in 0..(ValidNC - 1) : TileStored(r, c)
<1>1. busy = [t \in Threads |-> busy[t]] /\ NoOne
  BY DEF Barrier, IInv, TeamOK, NoOne
<1>2. Limit <= next /\ next \in Nat
  BY DEF Barrier, IInv, MasterOK
<1>3. ValidMC \in Nat /\ ValidNC \in Nat
  BY Sizes DEF IInv
<1>4. Limit \in Nat
  <2>1. NumHeads \in Nat
    BY GemmAssumption
  <2> QED
    BY <1>3, <2>1 DEF Limit
<1>5. \A s \in Nat : s < Limit => Ended(s)
  BY <1>1, <1>2, <1>4 DEF Ended, NoOne, Idle
<1>6. ASSUME region = "multiply" PROVE \A r \in 0..(ValidMC - 1), c \in 0..(ValidNC - 1) : TileStored(r, c)
  <2>1. Limit = ValidMC
    BY <1>6 DEF Limit
  <2> HIDE DEF ValidMC
  <2> QED
    BY <1>1, <1>2, <1>3, <1>6, <2>1 DEF TileStored, NoOne
<1> QED
  BY <1>1, <1>5, <1>6

-----------------------------------------------------------------------------
(* The steps of the master                                                  *)

LEMMA ZeroIsMultiple ==
  ASSUME NEW n \in Nat \ {0}
  PROVE  0 % n = 0
  OBVIOUS

LEMMA StrideFacts == Stride \in Nat \ {0} /\ 0 % Stride = 0
<1>1. Stride \in Nat \ {0}
  BY GemmAssumption DEF Stride
<1> QED
  BY <1>1, ZeroIsMultiple

\* A team that is idle when a region is entered.
LEMMA EnterKeeps ==
  ASSUME busy = [t \in Threads |-> busy[t]], NoOne, busy' = busy, NEW r, Enter(r)
  PROVE  /\ TeamOK'
         /\ (next \in Nat)' /\ (next % Stride = 0)'
         /\ \A s \in Nat : ~Ended(s)'
         /\ \A i \in Nat, c \in Nat : ~TileStored(i, c)'
<1>1. TeamOK'
  BY DEF NoOne, TeamOK, Idle
<1>2. next' = 0
  BY DEF Enter
<1>3. (0 % Stride = 0)'
  BY StrideFacts, PTL
<1>4. (next % Stride = 0)'
  BY <1>2, <1>3
<1> QED
  BY <1>1, <1>2, <1>4 DEF Ended, TileStored

LEMMA BeginKeeps ==
  ASSUME IInv, Begin
  PROVE  IInv'
<1>1. region = "start" /\ head = 0 /\ ic = 0 /\ pk = 0 /\ jc = 0 /\ UNCHANGED <<shape, origin, busy, blocks>>
  BY DEF IInv, MasterOK, Begin
<1>2. shape.m \in Nat \ {0} /\ shape.n \in Nat \ {0} /\ shape.k \in Nat \ {0} /\ {MC, KC, NC} \subseteq Nat \ {0}
  BY Sizes DEF IInv
<1>3. PICK r \in {"packA", "gemv"} : Enter(r) /\ r = (IF shape.m > 1 THEN "packA" ELSE "gemv")
  BY DEF Begin
<1>4. busy = [t \in Threads |-> busy[t]] /\ NoOne
  <2>1. Limit = 0
    BY <1>1 DEF Limit
  <2>2. \A t \in Threads : ~AtWork(t)
    <3>1. SUFFICES ASSUME NEW t \in Threads, AtWork(t) PROVE FALSE
      OBVIOUS
    <3>2. PICK s \in 0..(next - 1) : s < Limit
      BY <3>1 DEF AtWork
    <3>3. next \in Nat
      BY DEF IInv, MasterOK
    <3> QED
      BY <2>1, <3>2, <3>3
  <2> QED
    BY <2>2 DEF IInv, TeamOK, NoOne
<1>5. /\ TeamOK'
      /\ (next \in Nat)' /\ (next % Stride = 0)'
      /\ \A s \in Nat : ~Ended(s)'
      /\ \A i \in Nat, c \in Nat : ~TileStored(i, c)'
  BY <1>1, <1>3, <1>4, EnterKeeps
<1>6. region' = r /\ next' = 0
  BY <1>3 DEF Enter
<1>7. MasterOK'
  <2>1. r = "gemv" => shape.m = 1
    BY <1>2, <1>3
  <2> QED
    BY <1>1, <1>5, <1>6, <2>1 DEF IInv, MasterOK, origin, Heads
<1>8. PanelsOK'
  <2>1. r # "packB" /\ r # "multiply"
    BY <1>3
  <2>2. \A s \in 0..(ValidMC' - 1) : s \in Nat
    OBVIOUS
  <2>3. \A s \in 0..(ValidNC' - 1) : s \in Nat
    OBVIOUS
  <2> QED
    BY <1>1, <1>5, <1>6, <2>1, <2>2, <2>3 DEF IInv, PanelsOK, blocks
<1>9. SumsOK'
  <2>1. C' = [ha \in Heads \X Addresses |-> << >>]
    <3>1. C = [ha \in Heads \X Addresses |-> C[ha]] /\ DOMAIN C = Heads \X Addresses
      BY DEF IInv, SumsOK
    <3>2. \A h \in Heads, a \in Addresses : C[<<h, a>>] = << >>
      <4>1. SUFFICES ASSUME NEW h \in Heads, NEW a \in Addresses PROVE C[<<h, a>>] = << >>
        OBVIOUS
      <4>2. C[<<h, a>>] = Prefix(h, a, 0)
        BY <1>1 DEF IInv, SumsOK, Depth
      <4> QED
        BY <4>2, EmptyPrefix DEF IInv
    <3>3. \A ha \in Heads \X Addresses : C[ha] = << >>
      BY <3>2
    <3> QED
      BY <3>1, <3>3 DEF Begin
  <2>2. Addresses' = Addresses
    BY <1>1 DEF Addresses
  <2>3. ASSUME NEW h \in Heads, NEW a \in Addresses'
        PROVE  C'[<<h, a>>] = Prefix(h, a, Depth(h, a \div shape.n, a % shape.n))'
    <3>1. C'[<<h, a>>] = << >>
      BY <2>1, <2>2, <2>3
    <3>2. a \div shape.n \in 0..(shape.m - 1) /\ a % shape.n \in 0..(shape.n - 1)
      BY <1>2, <2>2, AddressFacts DEF Addresses
    <3>3. h \in Nat
      BY GemmAssumption DEF Heads
    <3>4. Depth(h, a \div shape.n, a % shape.n)' = 0
      <4>1. ~Ended(h)'
        BY <1>5, <3>3
      <4>3. region' \in {"packA", "gemv"} /\ head' = 0 /\ ic' = 0 /\ pk' = 0 /\ jc' = 0 /\ shape' = shape
        BY <1>1, <1>6 DEF origin
      <4>4. CASE region' = "gemv"
        BY <4>1, <4>4 DEF Depth
      <4>5. CASE region' = "packA"
        BY <1>2, <3>2, <3>3, <4>3, <4>5 DEF Depth, TileStored
      <4> QED
        BY <4>3, <4>4, <4>5
    <3>5. (Prefix(h, a, 0) = << >>)'
      <4>1. MasterOK' /\ h \in Heads' /\ a \in Addresses'
        BY <1>7 DEF Heads
      <4>2. MasterOK /\ a \in Addresses => Prefix(h, a, 0) = << >>
        BY EmptyPrefix
      <4>3. Prefix(h, a, 0) = << >>
        BY <2>2, <4>2 DEF IInv
      <4> QED
        BY <1>1, <4>3 DEF Prefix, FullSum
    <3> QED
      BY <3>1, <3>4, <3>5
  <2> QED
    BY <2>1, <2>2, <2>3 DEF SumsOK, Heads
<1> QED
  BY <1>5, <1>7, <1>8, <1>9 DEF IInv

LEMMA HoldsAKept ==
  ASSUME UNCHANGED <<shape, head, ic, pk, blockA_packed>>, NEW ir, HoldsA(ir)
  PROVE  HoldsA(ir)'
<1>1. ValidMR(ir)' = ValidMR(ir) /\ ValidKC' = ValidKC /\ PanelStart(ir)' = PanelStart(ir)
  BY DEF ValidMR, ValidMC, ValidKC, PanelStart
<1>2. \A i, p : AElement(i, p)' = AElement(i, p)
  BY DEF AElement
<1> QED
  BY <1>1, <1>2 DEF HoldsA

LEMMA HoldsBKept ==
  ASSUME UNCHANGED <<shape, head, jc, pk, blockB_packed>>, NEW jr, HoldsB(jr)
  PROVE  HoldsB(jr)'
<1>1. ValidNR(jr)' = ValidNR(jr) /\ ValidKC' = ValidKC /\ PanelStart(jr)' = PanelStart(jr)
  BY DEF ValidNR, ValidNC, ValidKC, PanelStart
<1>2. \A h, p, i : BElement(h, p, i)' = BElement(h, p, i)
  BY DEF BElement, Group, BOffset
<1> QED
  BY <1>1, <1>2 DEF HoldsB

LEMMA PackedBlockAKeeps ==
  ASSUME IInv, PackedBlockA
  PROVE  IInv'
<1>1. region = "packA" /\ region' = "packB" /\ next' = 0 /\ UNCHANGED <<shape, head, ic, pk, jc, busy, blockA_packed, blockB_packed, C>>
  BY DEF PackedBlockA, Enter, origin, blocks
<1>2. /\ busy = [t \in Threads |-> busy[t]] /\ NoOne
      /\ \A s \in Nat : s < Limit => Ended(s)
  BY BarrierFacts DEF PackedBlockA
<1>3. /\ TeamOK'
      /\ (next \in Nat)' /\ (next % Stride = 0)'
      /\ \A s \in Nat : ~Ended(s)'
  BY <1>1, <1>2, EnterKeeps DEF PackedBlockA
<1>4. MasterOK'
  BY <1>1, <1>3 DEF IInv, MasterOK, Heads
<1>5. PanelsOK'
  <2>1. ASSUME NEW ir \in 0..(ValidMC - 1), ir % MR = 0 PROVE HoldsA(ir)
    <3>1. Limit = ValidMC /\ ValidMC \in Nat
      BY <1>1, Sizes DEF Limit, IInv
    <3>2. Ended(ir)
      BY <1>2, <3>1
    <3> QED
      BY <1>1, <2>1, <3>2 DEF IInv, PanelsOK
  <2>2. ValidMC' = ValidMC
    BY <1>1 DEF ValidMC
  <2>3. \A ir \in 0..(ValidMC' - 1) : ir % MR = 0 => HoldsA(ir)'
    BY <1>1, <2>1, <2>2, HoldsAKept
  <2>4. \A jr \in 0..(ValidNC' - 1) : ~Ended(jr)'
    BY <1>3
  <2> QED
    BY <1>1, <2>3, <2>4 DEF IInv, PanelsOK
<1>6. SumsOK'
  <2>1. \A h \in Heads, i \in 0..(shape.m - 1), j \in 0..(shape.n - 1) : Depth(h, i, j)' = Depth(h, i, j)
    BY <1>1 DEF Depth, TileStored, ValidKC
  <2> QED
    BY <1>1, <2>1, SumsKept DEF IInv
<1> QED
  BY <1>3, <1>4, <1>5, <1>6 DEF IInv

LEMMA PackedBlockBKeeps ==
  ASSUME IInv, PackedBlockB
  PROVE  IInv'
<1>1. region = "packB" /\ region' = "multiply" /\ next' = 0 /\ UNCHANGED <<shape, head, ic, pk, jc, busy, blockA_packed, blockB_packed, C>>
  BY DEF PackedBlockB, Enter, origin, blocks
<1>2. /\ busy = [t \in Threads |-> busy[t]] /\ NoOne
      /\ \A s \in Nat : s < Limit => Ended(s)
  BY BarrierFacts DEF PackedBlockB
<1>3. /\ TeamOK'
      /\ (next \in Nat)' /\ (next % Stride = 0)'
      /\ \A i \in Nat, c \in Nat : ~TileStored(i, c)'
  BY <1>1, <1>2, EnterKeeps DEF PackedBlockB
<1>4. MasterOK'
  BY <1>1, <1>3 DEF IInv, MasterOK, Heads
<1>5. PanelsOK'
  <2>1. ASSUME NEW jr \in 0..(ValidNC - 1), jr % NR = 0 PROVE HoldsB(jr)
    <3>1. Limit = ValidNC /\ ValidNC \in Nat
      BY <1>1, Sizes DEF Limit, IInv
    <3>2. Ended(jr)
      BY <1>2, <3>1
    <3> QED
      BY <1>1, <2>1, <3>2 DEF IInv, PanelsOK
  <2>2. ValidMC' = ValidMC /\ ValidNC' = ValidNC
    BY <1>1 DEF ValidMC, ValidNC
  <2>3. \A ir \in 0..(ValidMC' - 1) : ir % MR = 0 => HoldsA(ir)'
    BY <1>1, <2>2, HoldsAKept DEF IInv, PanelsOK
  <2>4. \A jr \in 0..(ValidNC' - 1) : jr % NR = 0 => HoldsB(jr)'
    BY <1>1, <2>1, <2>2, HoldsBKept
  <2> QED
    BY <1>1, <2>3, <2>4 DEF IInv, PanelsOK
<1>6. SumsOK'
  <2>1. ASSUME NEW h \in Heads, NEW i \in 0..(shape.m - 1), NEW j \in 0..(shape.n - 1)
        PROVE  Depth(h, i, j)' = Depth(h, i, j)
    <3>1. {ic, jc, head, shape.m, shape.n, MC} \subseteq Nat /\ {h, i, j} \subseteq Nat
      BY Sizes, GemmAssumption DEF IInv, Heads
    <3>2. i >= ic => ~TileStored(i - ic, j - jc)' /\ ~TileStored(i - ic, j - jc)
      BY <1>1, <3>1 DEF TileStored
    <3> QED
      BY <1>1, <3>1, <3>2 DEF Depth, ValidKC
  <2> QED
    BY <1>1, <2>1, SumsKept DEF IInv
<1> QED
  BY <1>3, <1>4, <1>5, <1>6 DEF IInv

\* What is left to show when the master goes on to another block.
LEMMA NextBlockKeeps ==
  ASSUME IInv, region = "multiply", Barrier,
         NEW r \in {"packA", "packB"}, Enter(r), UNCHANGED <<shape, busy, blocks, C>>,
         head' \in Heads, ic' \in 0..(shape.m - 1), pk' \in 0..(shape.k - 1), jc' \in 0..(shape.n - 1),
         r = "packB" => head' = head /\ ic' = ic /\ pk' = pk,
         \A h \in Heads, i \in 0..(shape.m - 1), j \in 0..(shape.n - 1) :
           Depth(h, i, j) = IF h < head' \/ (h = head' /\ i < ic') THEN shape.k
                            ELSE IF h > head' \/ i >= ic' + MC THEN 0
                            ELSE IF j < jc' THEN pk' + ValidKC' ELSE pk'
  PROVE  IInv'
<1>1. region' = r /\ next' = 0 /\ UNCHANGED <<shape, busy, blockA_packed, blockB_packed, C>>
  BY DEF Enter, blocks
<1>2. busy = [t \in Threads |-> busy[t]] /\ NoOne
  BY BarrierFacts
<1>3. /\ TeamOK'
      /\ (next \in Nat)' /\ (next % Stride = 0)'
      /\ \A s \in Nat : ~Ended(s)'
  BY <1>1, <1>2, EnterKeeps
<1>4. MasterOK'
  BY <1>1, <1>3 DEF IInv, MasterOK, Heads
<1>5. PanelsOK'
  <2>1. ASSUME r = "packB"
        PROVE  \A ir \in 0..(ValidMC' - 1) : ir % MR = 0 => HoldsA(ir)'
    <3>1. UNCHANGED <<shape, head, ic, pk, blockA_packed>>
      BY <1>1, <2>1
    <3>2. ValidMC' = ValidMC
      BY <3>1 DEF ValidMC
    <3> QED
      BY <3>1, <3>2, HoldsAKept DEF IInv, PanelsOK
  <2>2. \A ir \in 0..(ValidMC' - 1) : ~Ended(ir)'
    BY <1>3
  <2>3. \A jr \in 0..(ValidNC' - 1) : ~Ended(jr)'
    BY <1>3
  <2>4. r # "multiply" /\ (r # "packB" => r = "packA")
    OBVIOUS
  <2> QED
    BY <1>1, <2>1, <2>2, <2>3, <2>4 DEF IInv, PanelsOK
<1>6. SumsOK'
  <2>1. ASSUME NEW h \in Heads, NEW i \in 0..(shape.m - 1), NEW j \in 0..(shape.n - 1)
        PROVE  Depth(h, i, j)' = Depth(h, i, j)
    <3>1. region' \notin {"start", "done", "gemv", "multiply"}
      BY <1>1
    <3>2. Depth(h, i, j)' = IF h < head' \/ (h = head' /\ i < ic') THEN shape.k
                            ELSE IF h > head' \/ i >= ic' + MC THEN 0
                            ELSE IF j < jc' THEN pk' + ValidKC' ELSE pk'
      BY <1>1, <3>1 DEF Depth, TileStored
    <3> QED
      BY <3>2
  <2> QED
    BY <1>1, <2>1, SumsKept DEF IInv
<1> QED
  BY <1>3, <1>4, <1>5, <1>6 DEF IInv

\* How far C has come when a block has been multiplied.
LEMMA BlockMultiplied ==
  ASSUME IInv, region = "multiply", Barrier,
         NEW h \in Heads, NEW i \in 0..(shape.m - 1), NEW j \in 0..(shape.n - 1)
  PROVE  Depth(h, i, j) = IF h < head \/ (h = head /\ i < ic) THEN shape.k
                          ELSE IF h > head \/ i >= ic + MC THEN 0
                          ELSE IF j < jc + NC THEN pk + ValidKC ELSE pk
<1>1. \A x \in 0..(ValidMC - 1), y \in 0..(ValidNC - 1) : TileStored(x, y)
  BY BarrierFacts
<1>2. {ic, jc, head, shape.m, shape.n, MC, NC} \subseteq Nat /\ {h, i, j} \subseteq Nat
      /\ ValidMC \in Nat /\ ValidNC \in Nat
      /\ (ic + MC < shape.m => ValidMC = MC) /\ (ic + MC >= shape.m => ic + ValidMC = shape.m)
      /\ (jc + NC < shape.n => ValidNC = NC) /\ (jc + NC >= shape.n => jc + ValidNC = shape.n)
  BY Sizes, GemmAssumption DEF IInv, Heads
<1> HIDE DEF ValidMC, ValidNC, ValidKC
<1>3. ASSUME ic <= i, i < ic + MC, jc <= j, j < jc + NC PROVE TileStored(i - ic, j - jc)
  <2>1. i - ic \in 0..(ValidMC - 1) /\ j - jc \in 0..(ValidNC - 1)
    BY <1>2, <1>3
  <2> QED
    BY <1>1, <2>1
<1> QED
  BY <1>2, <1>3 DEF Depth

LEMMA NextColumnsKeeps ==
  ASSUME IInv, NextColumns
  PROVE  IInv'
<1>1. /\ region = "multiply" /\ Barrier /\ Enter("packB") /\ jc + NC < shape.n /\ jc' = jc + NC
      /\ UNCHANGED <<shape, head, ic, pk, busy, blocks, C>>
  BY DEF NextColumns
<1>2. /\ {ic, jc, pk, NC, shape.m, shape.n, shape.k} \subseteq Nat
      /\ head \in Heads /\ ic \in 0..(shape.m - 1) /\ pk \in 0..(shape.k - 1)
  BY Sizes DEF IInv, MasterOK
<1>3. jc' \in 0..(shape.n - 1)
  BY <1>1, <1>2
<1>4. ValidKC' = ValidKC
  BY <1>1 DEF ValidKC
<1>5. \A h \in Heads, i \in 0..(shape.m - 1), j \in 0..(shape.n - 1) :
           Depth(h, i, j) = IF h < head' \/ (h = head' /\ i < ic') THEN shape.k
                            ELSE IF h > head' \/ i >= ic' + MC THEN 0
                            ELSE IF j < jc' THEN pk' + ValidKC' ELSE pk'
  BY <1>1, <1>4, BlockMultiplied
<1> QED
  BY <1>1, <1>2, <1>3, <1>5, NextBlockKeeps

LEMMA NextDepthKeeps ==
  ASSUME IInv, NextDepth
  PROVE  IInv'
<1>1. /\ region = "multiply" /\ Barrier /\ Enter("packA") /\ jc + NC >= shape.n
      /\ pk + KC < shape.k /\ pk' = pk + KC /\ jc' = 0
      /\ UNCHANGED <<shape, head, ic, busy, blocks, C>>
  BY DEF NextDepth, RowDone
<1>2. /\ {ic, jc, pk, NC, KC, shape.m, shape.k} \subseteq Nat /\ shape.n \in Nat \ {0}
      /\ head \in Heads /\ ic \in 0..(shape.m - 1)
      /\ ValidKC = KC
  BY <1>1, Sizes DEF IInv, MasterOK
<1>3. jc' \in 0..(shape.n - 1) /\ pk' \in 0..(shape.k - 1)
  BY <1>1, <1>2
<1>4. \A h \in Heads, i \in 0..(shape.m - 1), j \in 0..(shape.n - 1) :
           Depth(h, i, j) = IF h < head' \/ (h = head' /\ i < ic') THEN shape.k
                            ELSE IF h > head' \/ i >= ic' + MC THEN 0
                            ELSE IF j < jc' THEN pk' + ValidKC' ELSE pk'
  <2>1. SUFFICES ASSUME NEW h \in Heads, NEW i \in 0..(shape.m - 1), NEW j \in 0..(shape.n - 1)
                 PROVE  Depth(h, i, j) = IF h < head' \/ (h = head' /\ i < ic') THEN shape.k
                                         ELSE IF h > head' \/ i >= ic' + MC THEN 0
                                         ELSE IF j < jc' THEN pk' + ValidKC' ELSE pk'
    OBVIOUS
  <2>2. Depth(h, i, j) = IF h < head \/ (h = head /\ i < ic) THEN shape.k
                         ELSE IF h > head \/ i >= ic + MC THEN 0
                         ELSE IF j < jc + NC THEN pk + ValidKC ELSE pk
    BY <1>1, BlockMultiplied
  <2>3. j < jc + NC /\ ~(j < jc') /\ pk + ValidKC = pk'
    BY <1>1, <1>2
  <2> QED
    BY <1>1, <2>2, <2>3
<1> QED
  BY <1>1, <1>2, <1>3, <1>4, NextBlockKeeps

LEMMA NextRowsKeeps ==
  ASSUME IInv, NextRows
  PROVE  IInv'
<1>1. /\ region = "multiply" /\ Barrier /\ Enter("packA") /\ jc + NC >= shape.n
      /\ pk + KC >= shape.k /\ ic + MC < shape.m /\ ic' = ic + MC /\ pk' = 0 /\ jc' = 0
      /\ UNCHANGED <<shape, head, busy, blocks, C>>
  BY DEF NextRows, RowDone
<1>2. /\ {ic, jc, pk, NC, KC, MC, shape.m} \subseteq Nat /\ {shape.n, shape.k} \subseteq Nat \ {0}
      /\ head \in Heads /\ head \in Nat
      /\ pk + ValidKC = shape.k
  BY <1>1, Sizes DEF IInv, MasterOK
<1>3. jc' \in 0..(shape.n - 1) /\ pk' \in 0..(shape.k - 1) /\ ic' \in 0..(shape.m - 1)
  BY <1>1, <1>2
<1>4. \A h \in Heads, i \in 0..(shape.m - 1), j \in 0..(shape.n - 1) :
           Depth(h, i, j) = IF h < head' \/ (h = head' /\ i < ic') THEN shape.k
                            ELSE IF h > head' \/ i >= ic' + MC THEN 0
                            ELSE IF j < jc' THEN pk' + ValidKC' ELSE pk'
  <2>1. SUFFICES ASSUME NEW h \in Heads, NEW i \in 0..(shape.m - 1), NEW j \in 0..(shape.n - 1)
                 PROVE  Depth(h, i, j) = IF h < head' \/ (h = head' /\ i < ic') THEN shape.k
                                         ELSE IF h > head' \/ i >= ic' + MC THEN 0
                                         ELSE IF j < jc' THEN pk' + ValidKC' ELSE pk'
    OBVIOUS
  <2>2. Depth(h, i, j) = IF h < head \/ (h = head /\ i < ic) THEN shape.k
                         ELSE IF h > head \/ i >= ic + MC THEN 0
                         ELSE IF j < jc + NC THEN shape.k ELSE pk
    BY <1>1, <1>2, BlockMultiplied
  <2>3. j < jc + NC /\ ~(j < jc') /\ h \in Nat /\ i \in Nat
    BY <1>1, <1>2, GemmAssumption DEF Heads
  <2> QED
    BY <1>1, <1>2, <2>2, <2>3
<1> QED
  BY <1>1, <1>2, <1>3, <1>4, NextBlockKeeps

LEMMA NextHeadKeeps ==
  ASSUME IInv, NextHead
  PROVE  IInv'
<1>1. /\ region = "multiply" /\ Barrier /\ Enter("packA") /\ jc + NC >= shape.n
      /\ pk + KC >= shape.k /\ ic + MC >= shape.m
      /\ head + 1 < NumHeads /\ head' = head + 1 /\ ic' = 0 /\ pk' = 0 /\ jc' = 0
      /\ UNCHANGED <<shape, busy, blocks, C>>
  BY DEF NextHead, ProductDone, RowDone
<1>2. /\ {ic, jc, pk, NC, KC, MC} \subseteq Nat /\ {shape.m, shape.n, shape.k} \subseteq Nat \ {0}
      /\ head \in Nat /\ NumHeads \in Nat
      /\ pk + ValidKC = shape.k
  BY <1>1, Sizes DEF IInv
<1>3. /\ jc' \in 0..(shape.n - 1) /\ pk' \in 0..(shape.k - 1) /\ ic' \in 0..(shape.m - 1)
      /\ head' \in Heads
  BY <1>1, <1>2 DEF Heads
<1>4. \A h \in Heads, i \in 0..(shape.m - 1), j \in 0..(shape.n - 1) :
           Depth(h, i, j) = IF h < head' \/ (h = head' /\ i < ic') THEN shape.k
                            ELSE IF h > head' \/ i >= ic' + MC THEN 0
                            ELSE IF j < jc' THEN pk' + ValidKC' ELSE pk'
  <2>1. SUFFICES ASSUME NEW h \in Heads, NEW i \in 0..(shape.m - 1), NEW j \in 0..(shape.n - 1)
                 PROVE  Depth(h, i, j) = IF h < head' \/ (h = head' /\ i < ic') THEN shape.k
                                         ELSE IF h > head' \/ i >= ic' + MC THEN 0
                                         ELSE IF j < jc' THEN pk' + ValidKC' ELSE pk'
    OBVIOUS
  <2>2. Depth(h, i, j) = IF h < head \/ (h = head /\ i < ic) THEN shape.k
                         ELSE IF h > head \/ i >= ic + MC THEN 0
                         ELSE IF j < jc + NC THEN shape.k ELSE pk
    BY <1>1, <1>2, BlockMultiplied
  <2>3. j < jc + NC /\ ~(j < jc') /\ h \in Nat /\ i \in Nat /\ i < ic + MC /\ j \in Nat
    BY <1>1, <1>2, GemmAssumption DEF Heads
  <2> QED
    BY <1>1, <1>2, <2>2, <2>3
<1> QED
  BY <1>1, <1>2, <1>3, <1>4, NextBlockKeeps

LEMMA FinishKeeps ==
  ASSUME IInv, Finish
  PROVE  IInv'
<1>1. /\ region' = "done" /\ next' = 0 /\ Enter("done") /\ Barrier
      /\ UNCHANGED <<shape, head, ic, pk, jc, busy, blockA_packed, blockB_packed, C>>
  BY DEF Finish, Enter, origin, blocks, ProductDone, RowDone
<1>2. busy = [t \in Threads |-> busy[t]] /\ NoOne /\ \A s \in Nat : s < Limit => Ended(s)
  BY <1>1, BarrierFacts
<1>3. /\ TeamOK'
      /\ (next \in Nat)' /\ (next % Stride = 0)'
  BY <1>1, <1>2, EnterKeeps
<1>4. MasterOK'
  BY <1>1, <1>3 DEF IInv, MasterOK, Heads
<1>5. PanelsOK'
  BY <1>1 DEF IInv, PanelsOK
<1>6. SumsOK'
  <2>1. ASSUME NEW h \in Heads, NEW i \in 0..(shape.m - 1), NEW j \in 0..(shape.n - 1)
        PROVE  Depth(h, i, j) = shape.k
    <3>1. CASE region = "gemv"
      <4>1. h \in Nat /\ h < Limit
        BY <3>1, GemmAssumption DEF Heads, Limit
      <4> QED
        BY <1>2, <3>1, <4>1 DEF Depth
    <3>2. CASE ProductDone /\ head + 1 = NumHeads
      <4>1. Depth(h, i, j) = IF h < head \/ (h = head /\ i < ic) THEN shape.k
                             ELSE IF h > head \/ i >= ic + MC THEN 0
                             ELSE IF j < jc + NC THEN pk + ValidKC ELSE pk
        BY <1>1, <3>2, BlockMultiplied DEF ProductDone, RowDone
      <4>2. pk + KC >= shape.k /\ ic + MC >= shape.m /\ jc + NC >= shape.n
        BY <3>2 DEF ProductDone, RowDone
      <4>3. /\ {ic, jc, pk, NC, KC, MC, head, NumHeads} \subseteq Nat /\ {shape.m, shape.n, shape.k} \subseteq Nat
            /\ pk + ValidKC = shape.k
        BY <4>2, Sizes DEF IInv
      <4>4. h <= head /\ h \in Nat /\ i < ic + MC /\ j < jc + NC
        BY <3>2, <4>2, <4>3 DEF Heads
      <4> QED
        BY <4>1, <4>3, <4>4
    <3> QED
      BY <3>1, <3>2 DEF Finish
  <2>2. \A h, i, j : Depth(h, i, j)' = shape.k
    BY <1>1 DEF Depth
  <2> QED
    BY <1>1, <2>1, <2>2, SumsKept DEF IInv
<1> QED
  BY <1>3, <1>4, <1>5, <1>6 DEF IInv

-----------------------------------------------------------------------------
(* The steps of the team                                                    *)

LEMMA AtWorkKept ==
  ASSUME NEW t, AtWork(t), busy'[t] = busy[t], UNCHANGED <<shape, region, head, ic, pk, jc>>,
         next \in Nat, next' \in Nat, next <= next'
  PROVE  AtWork(t)'
<1>1. PICK s \in 0..(next - 1), j \in 0..(ValidNC - 1) : \E g \in {Unset, Sums(s, j)} :
        /\ busy[t] = [start |-> s, jr |-> j, regs |-> g]
        /\ s < Limit /\ s % Stride = 0 /\ j % NR = 0
        /\ region # "multiply" => j = 0 /\ g = Unset
  BY DEF AtWork
<1>2. PICK g \in {Unset, Sums(s, j)} :
        /\ busy[t] = [start |-> s, jr |-> j, regs |-> g]
        /\ s < Limit /\ s % Stride = 0 /\ j % NR = 0
        /\ region # "multiply" => j = 0 /\ g = Unset
  BY <1>1
<1>3. ValidNC' = ValidNC /\ ValidMC' = ValidMC
  BY DEF ValidNC, ValidMC
<1>4. Limit' = Limit /\ Stride' = Stride
  BY <1>3 DEF Limit, Stride
<1>5. Sums(s, j)' = Sums(s, j)
  <2>1. Tile(s, j)' = Tile(s, j)
    BY <1>3 DEF Tile, ValidMR, ValidNR
  <2>2. \A rc : TileAddress(s, j, rc)' = TileAddress(s, j, rc)
    BY DEF TileAddress, CAddress
  <2>3. \A a : Prefix(head, a, pk)' = Prefix(head, a, pk)
    BY DEF Prefix, FullSum
  <2>4. \A rc : Prefix(head, TileAddress(s, j, rc), pk)' = Prefix(head, TileAddress(s, j, rc), pk)
    BY <2>2, <2>3 DEF Prefix, FullSum, TileAddress, CAddress
  <2> QED
    BY <2>1, <2>4 DEF Sums
<1>6. s \in 0..(next' - 1) /\ j \in 0..(ValidNC' - 1) /\ g \in {Unset, Sums(s, j)'}
  BY <1>2, <1>3, <1>5
<1>7. /\ busy'[t] = [start |-> s, jr |-> j, regs |-> g]
      /\ s < Limit' /\ s % Stride' = 0 /\ j % NR = 0
      /\ region' # "multiply" => j = 0 /\ g = Unset
  BY <1>2, <1>4
<1> QED
  BY <1>6, <1>7 DEF AtWork

\* The iteration a thread is in.
LEMMA AtWorkFacts ==
  ASSUME IInv, NEW t \in Threads, busy[t] # Idle
  PROVE  /\ AtWork(t)
         /\ busy[t] = [start |-> busy[t].start, jr |-> busy[t].jr, regs |-> busy[t].regs]
         /\ busy[t].start \in Nat /\ busy[t].start < next /\ busy[t].start < Limit
         /\ busy[t].start % Stride = 0
         /\ busy[t].jr \in 0..(ValidNC - 1) /\ busy[t].jr % NR = 0
         /\ busy[t].regs \in {Unset, Sums(busy[t].start, busy[t].jr)}
         /\ region # "multiply" => busy[t].jr = 0 /\ busy[t].regs = Unset
<1>1. AtWork(t) /\ next \in Nat
  BY DEF IInv, TeamOK, MasterOK
<1>2. PICK s \in 0..(next - 1), j \in 0..(ValidNC - 1) : \E g \in {Unset, Sums(s, j)} :
        /\ busy[t] = [start |-> s, jr |-> j, regs |-> g]
        /\ s < Limit /\ s % Stride = 0 /\ j % NR = 0
        /\ region # "multiply" => j = 0 /\ g = Unset
  BY <1>1 DEF AtWork
<1>3. PICK g \in {Unset, Sums(s, j)} :
        /\ busy[t] = [start |-> s, jr |-> j, regs |-> g]
        /\ s < Limit /\ s % Stride = 0 /\ j % NR = 0
        /\ region # "multiply" => j = 0 /\ g = Unset
  BY <1>2
<1>4. busy[t].start = s /\ busy[t].jr = j /\ busy[t].regs = g
  BY <1>3
<1>5. s \in Nat /\ s < next
  BY <1>1
<1> QED
  BY <1>1, <1>3, <1>4, <1>5

LEMMA MasterKept ==
  ASSUME IInv, UNCHANGED <<shape, region, origin>>, next' \in Nat, next' % Stride = 0
  PROVE  MasterOK'
<1>1. Stride' = Stride
  BY DEF Stride
<1> QED
  BY <1>1 DEF IInv, MasterOK, origin, Heads

\* A thread leaves its iteration.
LEMMA IterationEnds ==
  ASSUME IInv, NEW t \in Threads, busy[t] # Idle,
         busy' = [busy EXCEPT ![t] = Idle], UNCHANGED <<shape, region, origin, next>>
  PROVE  /\ MasterOK' /\ TeamOK'
         /\ \A x \in Nat : Ended(x)' <=> Ended(x) \/ x = busy[t].start
<1>1. MasterOK'
  BY MasterKept DEF IInv, MasterOK
<1>2. busy = [u \in Threads |-> busy[u]]
  BY DEF IInv, TeamOK
<1>3. /\ busy' = [u \in Threads |-> busy'[u]]
      /\ busy'[t] = Idle /\ \A u \in Threads \ {t} : busy'[u] = busy[u]
  BY <1>2
<1>4. \A u \in Threads : busy'[u] = Idle \/ AtWork(u)'
  <2>1. SUFFICES ASSUME NEW u \in Threads, u # t, busy[u] # Idle PROVE AtWork(u)'
    BY <1>3
  <2>2. AtWork(u)
    BY <2>1, AtWorkFacts
  <2>3. next \in Nat /\ next <= next'
    BY DEF IInv, MasterOK
  <2> QED
    BY <1>3, <2>1, <2>2, <2>3, AtWorkKept DEF origin
<1>5. \A u, w \in Threads : busy'[u] # Idle /\ busy'[u].start = busy'[w].start => u = w
  <2>1. SUFFICES ASSUME NEW u \in Threads, NEW w \in Threads, busy'[u] # Idle,
                        busy'[u].start = busy'[w].start
                 PROVE  u = w
    OBVIOUS
  <2>2. u # t /\ busy[u] # Idle /\ busy[u].start \in Nat
    BY <1>3, <2>1, AtWorkFacts
  <2>3. w # t
    BY <1>3, <2>1, <2>2 DEF Idle
  <2> QED
    BY <1>3, <2>1, <2>2, <2>3 DEF IInv, TeamOK
<1>6. ASSUME NEW x \in Nat PROVE Ended(x)' <=> Ended(x) \/ x = busy[t].start
  <2>1. busy[t].start < next /\ \A u \in Threads \ {t} : busy[u].start # busy[t].start
    BY AtWorkFacts DEF IInv, TeamOK
  <2>2. x # -1 /\ Idle.start = -1
    BY DEF Idle
  <2> QED
    BY <1>3, <2>1, <2>2 DEF Ended
<1> QED
  BY <1>1, <1>3, <1>4, <1>5, <1>6 DEF TeamOK

LEMMA TakeKeeps ==
  ASSUME IInv, NEW t \in Threads, Take(t)
  PROVE  IInv'
<1>1. /\ busy[t] = Idle /\ next < Limit /\ next' = next + Stride
      /\ busy' = [busy EXCEPT ![t] = [start |-> next, jr |-> 0, regs |-> Unset]]
      /\ UNCHANGED <<shape, region, head, ic, pk, jc, blockA_packed, blockB_packed, C>>
  <2>1. [Idle EXCEPT !.start = next] = [start |-> next, jr |-> 0, regs |-> Unset]
    BY DEF Idle
  <2>2. /\ busy[t] = Idle /\ next < Limit /\ next' = next + Stride
        /\ busy' = [busy EXCEPT ![t] = [Idle EXCEPT !.start = next]]
        /\ UNCHANGED <<shape, region, head, ic, pk, jc, blockA_packed, blockB_packed, C>>
    BY DEF Take, origin, blocks
  <2> QED
    BY <2>1, <2>2
<1>2. next \in Nat /\ next % Stride = 0 /\ Stride \in Nat \ {0} /\ {NR, MR} \subseteq Nat \ {0}
  BY StrideFacts, GemmAssumption DEF IInv, MasterOK
<1>3. next' \in Nat /\ next' % Stride = 0 /\ next <= next' /\ next < next'
  <2>1. (next + Stride) % Stride = 0
    BY <1>2, NextMultiple
  <2> QED
    BY <1>1, <1>2, <2>1
<1>4. MasterOK'
  BY <1>1, <1>3, MasterKept DEF origin
<1>5. busy = [u \in Threads |-> busy[u]]
  BY DEF IInv, TeamOK
<1>6. /\ busy' = [u \in Threads |-> busy'[u]]
      /\ busy'[t] = [start |-> next, jr |-> 0, regs |-> Unset]
      /\ \A u \in Threads \ {t} : busy'[u] = busy[u]
  BY <1>1, <1>5
<1>7. \A u \in Threads : busy[u].start < next
  <2>1. SUFFICES ASSUME NEW u \in Threads PROVE busy[u].start < next
    OBVIOUS
  <2>2. CASE busy[u] = Idle
    BY <1>2, <2>2 DEF Idle
  <2>3. CASE busy[u] # Idle
    BY <2>3, AtWorkFacts
  <2> QED
    BY <2>2, <2>3
<1>8. TeamOK'
  <2>1. AtWork(t)'
    <3>1. ValidNC' = ValidNC /\ ValidMC' = ValidMC /\ ValidNC \in Nat \ {0}
      BY <1>1, Sizes DEF ValidNC, ValidMC, IInv
    <3>2. Limit' = Limit /\ Stride' = Stride
      BY <1>1, <3>1 DEF Limit, Stride
    <3>3. next \in 0..(next' - 1) /\ 0 \in 0..(ValidNC' - 1)
      <4>1. next \in 0..(next' - 1)
        <5>1. next \in Nat /\ Stride \in Nat \ {0} /\ next' = next + Stride
          BY <1>1, <1>2
        <5> HIDE DEF Stride
        <5> QED
          BY <5>1
      <4>2. 0 \in 0..(ValidNC - 1)
        BY <3>1
      <4> QED
        BY <3>1, <4>1, <4>2
    <3>4. 0 % NR = 0
      BY <1>2, ZeroIsMultiple
    <3>5. next < Limit' /\ next % Stride' = 0
      BY <1>1, <1>2, <3>2
    <3>6. PICK s \in 0..(next' - 1), j \in 0..(ValidNC' - 1) : s = next /\ j = 0
      BY <3>3
    <3>7. /\ busy'[t] = [start |-> s, jr |-> j, regs |-> Unset]
          /\ s < Limit' /\ s % Stride' = 0 /\ j % NR = 0
          /\ region' # "multiply" => j = 0 /\ Unset = Unset
      BY <1>6, <3>4, <3>5, <3>6
    <3>8. Unset \in {Unset, Sums(s, j)'}
      OBVIOUS
    <3> HIDE DEF Unset, Limit, Stride, ValidNC, Sums
    <3> QED
      BY <3>7, <3>8 DEF AtWork
  <2>2. \A u \in Threads : busy'[u] = Idle \/ AtWork(u)'
    <3>1. SUFFICES ASSUME NEW u \in Threads, u # t, busy[u] # Idle PROVE AtWork(u)'
      BY <1>6, <2>1
    <3>2. AtWork(u)
      BY <3>1, AtWorkFacts
    <3> QED
      BY <1>1, <1>2, <1>3, <1>6, <3>1, <3>2, AtWorkKept
  <2>3. \A u, w \in Threads : busy'[u] # Idle /\ busy'[u].start = busy'[w].start => u = w
    <3>1. SUFFICES ASSUME NEW u \in Threads, NEW w \in Threads, busy'[u] # Idle,
                          busy'[u].start = busy'[w].start
                   PROVE  u = w
      OBVIOUS
    <3>2. \A v \in Threads \ {t} : busy'[v].start # next
      BY <1>2, <1>6, <1>7
    <3>3. busy'[t].start = next
      BY <1>6
    <3> QED
      BY <1>6, <3>1, <3>2, <3>3 DEF IInv, TeamOK
  <2> QED
    BY <1>6, <2>2, <2>3 DEF TeamOK
<1>9. \A x \in Nat : x % Stride = 0 => (Ended(x)' <=> Ended(x))
  <2>1. SUFFICES ASSUME NEW x \in Nat, x % Stride = 0 PROVE Ended(x)' <=> Ended(x)
    OBVIOUS
  <2>2. x < next + Stride /\ x # next => x < next
    <3>1. next < x => next + Stride <= x
      BY <1>2, <2>1, MultiplesApart, Zenon
    <3> QED
      BY <1>2, <3>1
  <2>3. x # -1 /\ busy[t].start = -1 /\ busy'[t].start = next
    BY <1>1, <1>6 DEF Idle
  <2>4. (\A u \in Threads : busy'[u].start # x) <=> x # next /\ (\A u \in Threads : busy[u].start # x)
    BY <1>6, <2>3
  <2> QED
    BY <1>1, <1>2, <2>2, <2>4 DEF Ended
<1>10. PanelsOK'
  <2>1. /\ region = "packA" => Stride = MR
        /\ region = "packB" => Stride = NR
    BY DEF Stride
  <2>2. ValidMC' = ValidMC /\ ValidNC' = ValidNC
    BY <1>1 DEF ValidMC, ValidNC
  <2>3. ASSUME NEW ir \in 0..(ValidMC - 1), ir % MR = 0,
               region \in {"packB", "multiply"} \/ (region = "packA" /\ Ended(ir)')
        PROVE  HoldsA(ir)'
    <3>1. region = "packA" => Ended(ir)
      BY <1>9, <2>1, <2>3
    <3>2. HoldsA(ir)
      BY <2>3, <3>1 DEF IInv, PanelsOK
    <3> QED
      BY <1>1, <3>2, HoldsAKept
  <2>4. ASSUME NEW jr \in 0..(ValidNC - 1), jr % NR = 0,
               region = "multiply" \/ (region = "packB" /\ Ended(jr)')
        PROVE  HoldsB(jr)'
    <3>1. region = "packB" => Ended(jr)
      BY <1>9, <2>1, <2>4
    <3>2. HoldsB(jr)
      BY <2>4, <3>1 DEF IInv, PanelsOK
    <3> QED
      BY <1>1, <3>2, HoldsBKept
  <2> QED
    BY <1>1, <2>2, <2>3, <2>4 DEF IInv, PanelsOK
<1>11. SumsOK'
  <2>1. ASSUME NEW r \in Nat, NEW c \in Nat, region = "multiply"
        PROVE  TileStored(r, c)' <=> TileStored(r, c)
    <3>1. Stride = MR /\ next' = next + MR
      BY <1>1, <2>1 DEF Stride
    <3>2. CASE r < next
      <4>1. ~(busy'[t].start <= r)
        BY <1>2, <1>6, <3>2
      <4> QED
        BY <1>1, <1>2, <1>6, <2>1, <3>1, <3>2, <4>1 DEF TileStored
    <3>3. CASE ~(r < next)
      <4>1. r < next' => busy'[t] # Idle /\ busy'[t].start <= r /\ r < busy'[t].start + MR /\ ~(c < busy'[t].jr)
        BY <1>2, <1>6, <3>1, <3>3 DEF Idle
      <4> QED
        BY <3>3, <4>1 DEF TileStored
    <3> QED
      BY <3>2, <3>3
  <2>2. ASSUME NEW h \in Heads, region = "gemv" PROVE Ended(h)' <=> Ended(h)
    <3>1. h \in Nat /\ Stride = 1 /\ h % 1 = 0
      BY <2>2, GemmAssumption DEF Heads, Stride
    <3> QED
      BY <1>9, <3>1
  <2>3. ASSUME NEW h \in Heads, NEW i \in 0..(shape.m - 1), NEW j \in 0..(shape.n - 1)
        PROVE  Depth(h, i, j)' = Depth(h, i, j)
    <3>1. {ic, jc, head, shape.m, shape.n, MC} \subseteq Nat /\ {h, i, j} \subseteq Nat
      BY Sizes, GemmAssumption DEF IInv, Heads
    <3>2. i >= ic /\ j >= jc => (TileStored(i - ic, j - jc)' <=> TileStored(i - ic, j - jc))
      <4>1. ASSUME i >= ic, j >= jc PROVE TileStored(i - ic, j - jc)' <=> TileStored(i - ic, j - jc)
        <5>1. PICK r \in Nat, c \in Nat : r = i - ic /\ c = j - jc
          BY <3>1, <4>1
        <5>2. TileStored(i - ic, j - jc)' <=> TileStored(r, c)'
          BY <1>1, <5>1 DEF TileStored
        <5>3. region # "multiply" => ~TileStored(r, c) /\ ~TileStored(r, c)'
          BY <1>1 DEF TileStored
        <5> QED
          BY <2>1, <5>1, <5>2, <5>3
      <4> QED
        BY <4>1
    <3>3. ValidKC' = ValidKC
      BY <1>1 DEF ValidKC
    <3> QED
      BY <1>1, <2>2, <3>1, <3>2, <3>3 DEF Depth
  <2> QED
    BY <1>1, <2>3, SumsKept DEF IInv
<1> QED
  BY <1>4, <1>8, <1>10, <1>11 DEF IInv

\* Packing a panel fills it and leaves the other panels alone.
LEMMA PackedPanelA ==
  ASSUME IInv, NEW s \in 0..(ValidMC - 1), s % MR = 0,
         blockA_packed' = PackedA(s), UNCHANGED <<shape, head, ic, pk, jc>>
  PROVE  /\ blockA_packed' = [a \in 0..(MC * KC - 1) |-> blockA_packed'[a]]
         /\ HoldsA(s)'
         /\ \A ir \in 0..(ValidMC - 1) : ir % MR = 0 /\ ir # s /\ HoldsA(ir) => HoldsA(ir)'
<1> DEFINE v == ValidKC
           w == ValidMR(s)
           start == PanelStart(s)
<1>1. /\ {MR, MC, KC} \subseteq Nat \ {0} /\ MC % MR = 0 /\ ValidMC \in Nat /\ ValidMC <= MC
      /\ v \in Nat \ {0} /\ v <= KC
  BY Sizes DEF IInv
<1>2. \A ir \in 0..(ValidMC - 1) : ir % MR = 0 =>
        /\ ir \in Nat /\ ValidMR(ir) \in Nat \ {0} /\ ir + ValidMR(ir) <= MC
  <2>1. SUFFICES ASSUME NEW ir \in 0..(ValidMC - 1), ir % MR = 0
                 PROVE  ir \in Nat /\ ValidMR(ir) \in Nat \ {0} /\ ir + ValidMR(ir) <= MC
    OBVIOUS
  <2>2. ValidMR(ir) \in 1..MR /\ ir + ValidMR(ir) <= ValidMC
    BY <1>1, <2>1, LinesOfPanel, Zenon DEF ValidMR
  <2> HIDE DEF ValidMC
  <2> QED
    BY <1>1, <2>1, <2>2
<1>3. /\ v' = v /\ ValidMC' = ValidMC
      /\ \A ir : ValidMR(ir)' = ValidMR(ir) /\ PanelStart(ir)' = PanelStart(ir)
      /\ \A i, p : AElement(i, p)' = AElement(i, p)
  BY DEF ValidKC, ValidMC, ValidMR, PanelStart, AElement
<1>4. /\ blockA_packed = [a \in 0..(MC * KC - 1) |-> blockA_packed[a]]
      /\ DOMAIN blockA_packed = 0..(MC * KC - 1)
  BY DEF IInv, PanelsOK
<1> DEFINE span == start .. (start + w * v - 1)
           New(a) == AElement(ic + s + ((a - start) % w), pk + ((a - start) \div w))
<1>5. PackedA(s) = [a \in DOMAIN blockA_packed |-> IF a \in span THEN New(a) ELSE blockA_packed[a]]
  BY DEF PackedA
<1>6. ASSUME NEW ir \in 0..(ValidMC - 1), ir % MR = 0, NEW x \in 0..(ValidMR(ir) * v - 1)
      PROVE  ir * v + x \in 0..(MC * KC - 1)
  BY <1>1, <1>2, <1>6, PanelFits
<1>7. HoldsA(s)'
  <2>1. SUFFICES ASSUME NEW r \in 0..(w - 1), NEW p \in 0..(v - 1)
                 PROVE  PackedA(s)[PanelStart(s) + p * ValidMR(s) + r] = AElement(ic + s + r, pk + p)
    BY <1>3 DEF HoldsA
  <2>2. p * w + r \in 0..(w * v - 1) /\ (p * w + r) \div w = p /\ (p * w + r) % w = r
    <3>1. v \in Nat \ {0} /\ w \in Nat \ {0}
      BY <1>1, <1>2
    <3> HIDE DEF v, w
    <3> QED
      BY <3>1, PanelOffset
  <2> DEFINE a == start + p * w + r
  <2>3. s \in Nat /\ w \in Nat /\ start = s * v /\ start \in Nat /\ p * w \in Nat /\ w * v \in Nat
    BY <1>1, <1>2 DEF PanelStart
  <2>4. a = s * v + (p * w + r) /\ a - start = p * w + r
    <3> HIDE DEF w, start, v
    <3> QED
      BY <2>3
  <2>5. a \in 0..(MC * KC - 1)
    BY <1>6, <2>2, <2>4
  <2>6. a \in span
    <3> HIDE DEF w, start, v
    <3> QED
      BY <2>2, <2>3, <2>4
  <2>7. PackedA(s)[a] = New(a)
    <3> HIDE DEF New, span, a
    <3> QED
      BY <1>4, <1>5, <2>5, <2>6
  <2>8. New(a) = AElement(ic + s + r, pk + p)
    BY <2>2, <2>4
  <2> QED
    BY <2>7, <2>8
<1>8. ASSUME NEW ir \in 0..(ValidMC - 1), ir % MR = 0, ir # s, HoldsA(ir) PROVE HoldsA(ir)'
  <2>1. SUFFICES ASSUME NEW r \in 0..(ValidMR(ir) - 1), NEW p \in 0..(v - 1)
                 PROVE  PackedA(s)[PanelStart(ir) + p * ValidMR(ir) + r] = AElement(ic + ir + r, pk + p)
    BY <1>3 DEF HoldsA
  <2> DEFINE u == ValidMR(ir)
             a == PanelStart(ir) + p * u + r
  <2>2. p * u + r \in 0..(u * v - 1)
    BY <1>1, <1>2, <1>8, PanelOffset
  <2>3. ir \in Nat /\ s \in Nat /\ u \in Nat \ {0} /\ w \in Nat \ {0}
    BY <1>2, <1>8
  <2>4. a = ir * v + (p * u + r)
    <3>1. ir * v \in Nat /\ p * u \in Nat /\ PanelStart(ir) = ir * v
      BY <1>1, <2>3 DEF PanelStart
    <3> QED
      BY <3>1
  <2>5. s + w <= ir \/ ir + u <= s
    BY <1>1, <1>8, LinesApart, Zenon DEF ValidMR
  <2>6. a \notin span
    <3>1. ir * v + (p * u + r) \notin (s * v) .. (s * v + w * v - 1)
      BY <1>1, <2>2, <2>3, <2>5, PanelsApart, Zenon
    <3> QED
      BY <2>4, <3>1 DEF PanelStart
  <2>7. a \in 0..(MC * KC - 1)
    BY <1>6, <1>8, <2>2, <2>4
  <2>8. PackedA(s)[a] = blockA_packed[a]
    <3> HIDE DEF New, span, a
    <3> QED
      BY <1>4, <1>5, <2>6, <2>7
  <2>9. blockA_packed[a] = AElement(ic + ir + r, pk + p)
    BY <1>8 DEF HoldsA
  <2> QED
    BY <2>8, <2>9
<1>9. blockA_packed' = [a \in 0..(MC * KC - 1) |-> blockA_packed'[a]]
  BY <1>4, <1>5
<1> QED
  BY <1>7, <1>8, <1>9

LEMMA PackPanelAKeeps ==
  ASSUME IInv, NEW t \in Threads, PackPanelA(t)
  PROVE  IInv'
<1>1. /\ region = "packA" /\ busy[t] # Idle /\ blockA_packed' = PackedA(busy[t].start)
      /\ busy' = [busy EXCEPT ![t] = Idle]
      /\ UNCHANGED <<shape, region, head, ic, pk, jc, next, blockB_packed, C>> /\ UNCHANGED origin
  BY DEF PackPanelA, origin
<1>2. PICK s \in 0..(ValidMC - 1) : s = busy[t].start /\ s % MR = 0
  <2> DEFINE x == busy[t].start
  <2>1. x \in Nat /\ x < Limit /\ x % Stride = 0
    BY <1>1, AtWorkFacts
  <2>2. Limit = ValidMC /\ Stride = MR /\ ValidMC \in Nat
    BY <1>1, Sizes DEF Limit, Stride, IInv
  <2> HIDE DEF x, Limit, Stride, ValidMC
  <2>3. x \in 0..(ValidMC - 1) /\ x % MR = 0
    BY <2>1, <2>2
  <2> QED
    BY <2>3 DEF x
<1>3. /\ MasterOK' /\ TeamOK'
      /\ \A x \in Nat : Ended(x)' <=> Ended(x) \/ x = s
  BY <1>1, <1>2, IterationEnds
<1>4. /\ blockA_packed' = [a \in 0..(MC * KC - 1) |-> blockA_packed'[a]]
      /\ HoldsA(s)'
      /\ \A ir \in 0..(ValidMC - 1) : ir % MR = 0 /\ ir # s /\ HoldsA(ir) => HoldsA(ir)'
  BY <1>1, <1>2, PackedPanelA
<1>5. PanelsOK'
  <2>1. ValidMC' = ValidMC
    BY <1>1 DEF ValidMC
  <2>2. ASSUME NEW ir \in 0..(ValidMC - 1), ir % MR = 0, Ended(ir)' PROVE HoldsA(ir)'
    <3>1. ir \in Nat
      OBVIOUS
    <3>2. CASE ir = s
      BY <1>4, <3>2
    <3>3. CASE ir # s
      <4>1. Ended(ir)
        BY <1>3, <2>2, <3>1, <3>3
      <4> QED
        BY <1>1, <1>4, <2>2, <3>3, <4>1 DEF IInv, PanelsOK
    <3> QED
      BY <3>2, <3>3
  <2> QED
    BY <1>1, <1>4, <2>1, <2>2 DEF IInv, PanelsOK
<1>6. SumsOK'
  <2>1. \A h \in Heads, i \in 0..(shape.m - 1), j \in 0..(shape.n - 1) : Depth(h, i, j)' = Depth(h, i, j)
    BY <1>1 DEF Depth, TileStored, ValidKC
  <2> QED
    BY <1>1, <2>1, SumsKept DEF IInv
<1> QED
  BY <1>3, <1>5, <1>6 DEF IInv

LEMMA PackedPanelB ==
  ASSUME IInv, NEW s \in 0..(ValidNC - 1), s % NR = 0,
         blockB_packed' = PackedB(s), UNCHANGED <<shape, head, ic, pk, jc>>
  PROVE  /\ blockB_packed' = [a \in 0..(KC * NC - 1) |-> blockB_packed'[a]]
         /\ HoldsB(s)'
         /\ \A jr \in 0..(ValidNC - 1) : jr % NR = 0 /\ jr # s /\ HoldsB(jr) => HoldsB(jr)'
<1> DEFINE v == ValidKC
           w == ValidNR(s)
           start == PanelStart(s)
<1>1. /\ {NR, NC, KC} \subseteq Nat \ {0} /\ NC % NR = 0 /\ ValidNC \in Nat /\ ValidNC <= NC
      /\ v \in Nat \ {0} /\ v <= KC
  BY Sizes DEF IInv
<1>2. \A jr \in 0..(ValidNC - 1) : jr % NR = 0 =>
        /\ jr \in Nat /\ ValidNR(jr) \in Nat \ {0} /\ jr + ValidNR(jr) <= NC
  <2>1. SUFFICES ASSUME NEW jr \in 0..(ValidNC - 1), jr % NR = 0
                 PROVE  jr \in Nat /\ ValidNR(jr) \in Nat \ {0} /\ jr + ValidNR(jr) <= NC
    OBVIOUS
  <2>2. ValidNR(jr) \in 1..NR /\ jr + ValidNR(jr) <= ValidNC
    BY <1>1, <2>1, LinesOfPanel, Zenon DEF ValidNR
  <2> HIDE DEF ValidNC
  <2> QED
    BY <1>1, <2>1, <2>2
<1>3. /\ v' = v /\ ValidNC' = ValidNC
      /\ \A jr : ValidNR(jr)' = ValidNR(jr) /\ PanelStart(jr)' = PanelStart(jr)
      /\ \A h, p, i : BElement(h, p, i)' = BElement(h, p, i)
  BY DEF ValidKC, ValidNC, ValidNR, PanelStart, BElement, Group, BOffset
<1>4. /\ blockB_packed = [a \in 0..(KC * NC - 1) |-> blockB_packed[a]]
      /\ DOMAIN blockB_packed = 0..(KC * NC - 1)
  BY DEF IInv, PanelsOK
<1> DEFINE span == start .. (start + w * v - 1)
           New(a) == BElement(head, pk + ((a - start) \div w), jc + s + ((a - start) % w))
<1>5. PackedB(s) = [a \in DOMAIN blockB_packed |-> IF a \in span THEN New(a) ELSE blockB_packed[a]]
  BY DEF PackedB
<1>6. ASSUME NEW jr \in 0..(ValidNC - 1), jr % NR = 0, NEW x \in 0..(ValidNR(jr) * v - 1)
      PROVE  jr * v + x \in 0..(KC * NC - 1)
  <2>1. jr * v + x \in 0..(NC * KC - 1)
    BY <1>1, <1>2, <1>6, PanelFits
  <2>2. NC * KC = KC * NC
    BY <1>1
  <2> QED
    BY <2>1, <2>2
<1>7. HoldsB(s)'
  <2>1. SUFFICES ASSUME NEW r \in 0..(w - 1), NEW p \in 0..(v - 1)
                 PROVE  PackedB(s)[PanelStart(s) + p * ValidNR(s) + r] = BElement(head, pk + p, jc + s + r)
    BY <1>3 DEF HoldsB
  <2>2. p * w + r \in 0..(w * v - 1) /\ (p * w + r) \div w = p /\ (p * w + r) % w = r
    <3>1. v \in Nat \ {0} /\ w \in Nat \ {0}
      BY <1>1, <1>2
    <3> HIDE DEF v, w
    <3> QED
      BY <3>1, PanelOffset
  <2> DEFINE a == start + p * w + r
  <2>3. s \in Nat /\ w \in Nat /\ start = s * v /\ start \in Nat /\ p * w \in Nat /\ w * v \in Nat
    BY <1>1, <1>2 DEF PanelStart
  <2>4. a = s * v + (p * w + r) /\ a - start = p * w + r
    <3> HIDE DEF w, start, v
    <3> QED
      BY <2>3
  <2>5. a \in 0..(KC * NC - 1)
    BY <1>6, <2>2, <2>4
  <2>6. a \in span
    <3> HIDE DEF w, start, v
    <3> QED
      BY <2>2, <2>3, <2>4
  <2>7. PackedB(s)[a] = New(a)
    <3> HIDE DEF New, span, a
    <3> QED
      BY <1>4, <1>5, <2>5, <2>6
  <2>8. New(a) = BElement(head, pk + p, jc + s + r)
    BY <2>2, <2>4
  <2> QED
    BY <2>7, <2>8
<1>8. ASSUME NEW jr \in 0..(ValidNC - 1), jr % NR = 0, jr # s, HoldsB(jr) PROVE HoldsB(jr)'
  <2>1. SUFFICES ASSUME NEW r \in 0..(ValidNR(jr) - 1), NEW p \in 0..(v - 1)
                 PROVE  PackedB(s)[PanelStart(jr) + p * ValidNR(jr) + r] = BElement(head, pk + p, jc + jr + r)
    BY <1>3 DEF HoldsB
  <2> DEFINE u == ValidNR(jr)
             a == PanelStart(jr) + p * u + r
  <2>2. p * u + r \in 0..(u * v - 1)
    BY <1>1, <1>2, <1>8, PanelOffset
  <2>3. jr \in Nat /\ s \in Nat /\ u \in Nat \ {0} /\ w \in Nat \ {0}
    BY <1>2, <1>8
  <2>4. a = jr * v + (p * u + r)
    <3>1. jr * v \in Nat /\ p * u \in Nat /\ PanelStart(jr) = jr * v
      BY <1>1, <2>3 DEF PanelStart
    <3> QED
      BY <3>1
  <2>5. s + w <= jr \/ jr + u <= s
    BY <1>1, <1>8, LinesApart, Zenon DEF ValidNR
  <2>6. a \notin span
    <3>1. jr * v + (p * u + r) \notin (s * v) .. (s * v + w * v - 1)
      BY <1>1, <2>2, <2>3, <2>5, PanelsApart, Zenon
    <3> QED
      BY <2>4, <3>1 DEF PanelStart
  <2>7. a \in 0..(KC * NC - 1)
    BY <1>6, <1>8, <2>2, <2>4
  <2>8. PackedB(s)[a] = blockB_packed[a]
    <3> HIDE DEF New, span, a
    <3> QED
      BY <1>4, <1>5, <2>6, <2>7
  <2>9. blockB_packed[a] = BElement(head, pk + p, jc + jr + r)
    BY <1>8 DEF HoldsB
  <2> QED
    BY <2>8, <2>9
<1>9. blockB_packed' = [a \in 0..(KC * NC - 1) |-> blockB_packed'[a]]
  BY <1>4, <1>5
<1> QED
  BY <1>7, <1>8, <1>9

LEMMA PackPanelBKeeps ==
  ASSUME IInv, NEW t \in Threads, PackPanelB(t)
  PROVE  IInv'
<1>1. /\ region = "packB" /\ busy[t] # Idle /\ blockB_packed' = PackedB(busy[t].start)
      /\ busy' = [busy EXCEPT ![t] = Idle]
      /\ UNCHANGED <<shape, region, head, ic, pk, jc, next, blockA_packed, C>> /\ UNCHANGED origin
  BY DEF PackPanelB, origin
<1>2. PICK s \in 0..(ValidNC - 1) : s = busy[t].start /\ s % NR = 0
  <2> DEFINE x == busy[t].start
  <2>1. x \in Nat /\ x < Limit /\ x % Stride = 0
    BY <1>1, AtWorkFacts
  <2>2. Limit = ValidNC /\ Stride = NR /\ ValidNC \in Nat
    BY <1>1, Sizes DEF Limit, Stride, IInv
  <2> HIDE DEF x, Limit, Stride, ValidNC
  <2>3. x \in 0..(ValidNC - 1) /\ x % NR = 0
    BY <2>1, <2>2
  <2> QED
    BY <2>3 DEF x
<1>3. /\ MasterOK' /\ TeamOK'
      /\ \A x \in Nat : Ended(x)' <=> Ended(x) \/ x = s
  BY <1>1, <1>2, IterationEnds
<1>4. /\ blockB_packed' = [a \in 0..(KC * NC - 1) |-> blockB_packed'[a]]
      /\ HoldsB(s)'
      /\ \A jr \in 0..(ValidNC - 1) : jr % NR = 0 /\ jr # s /\ HoldsB(jr) => HoldsB(jr)'
  BY <1>1, <1>2, PackedPanelB
<1>5. PanelsOK'
  <2>1. ValidNC' = ValidNC /\ ValidMC' = ValidMC
    BY <1>1 DEF ValidNC, ValidMC
  <2>2. ASSUME NEW jr \in 0..(ValidNC - 1), jr % NR = 0, Ended(jr)' PROVE HoldsB(jr)'
    <3>1. jr \in Nat
      OBVIOUS
    <3>2. CASE jr = s
      BY <1>4, <3>2
    <3>3. CASE jr # s
      <4>1. Ended(jr)
        BY <1>3, <2>2, <3>1, <3>3
      <4> QED
        BY <1>1, <1>4, <2>2, <3>3, <4>1 DEF IInv, PanelsOK
    <3> QED
      BY <3>2, <3>3
  <2>3. \A ir \in 0..(ValidMC - 1) : ir % MR = 0 => HoldsA(ir)'
    BY <1>1, HoldsAKept DEF IInv, PanelsOK
  <2> QED
    BY <1>1, <1>4, <2>1, <2>2, <2>3 DEF IInv, PanelsOK
<1>6. SumsOK'
  <2>1. \A h \in Heads, i \in 0..(shape.m - 1), j \in 0..(shape.n - 1) : Depth(h, i, j)' = Depth(h, i, j)
    BY <1>1 DEF Depth, TileStored, ValidKC
  <2> QED
    BY <1>1, <2>1, SumsKept DEF IInv
<1> QED
  BY <1>3, <1>5, <1>6 DEF IInv

\* A thread that multiplies stays in its iteration.
LEMMA IterationGoesOn ==
  ASSUME IInv, NEW t \in Threads, busy[t] # Idle, region = "multiply",
         NEW j \in 0..(ValidNC - 1), j % NR = 0, NEW g \in {Unset, Sums(busy[t].start, j)},
         busy' = [busy EXCEPT ![t] = [start |-> busy[t].start, jr |-> j, regs |-> g]],
         UNCHANGED <<shape, region, origin, next>>
  PROVE  MasterOK' /\ TeamOK'
<1>1. MasterOK'
  BY MasterKept DEF IInv, MasterOK
<1>2. busy = [u \in Threads |-> busy[u]]
  BY DEF IInv, TeamOK
<1>3. PICK s \in 0..(next - 1) : s = busy[t].start /\ s < Limit /\ s % Stride = 0
  <2> DEFINE x == busy[t].start
  <2>1. next \in Nat
    BY DEF IInv, MasterOK
  <2>2. x \in Nat /\ x < next /\ x < Limit /\ x % Stride = 0
    BY AtWorkFacts
  <2> HIDE DEF x
  <2>3. x \in 0..(next - 1)
    BY <2>1, <2>2
  <2> QED
    BY <2>2, <2>3 DEF x
<1>4. /\ busy' = [u \in Threads |-> busy'[u]]
      /\ busy'[t] = [start |-> s, jr |-> j, regs |-> g]
      /\ \A u \in Threads \ {t} : busy'[u] = busy[u]
  BY <1>2, <1>3
<1>5. AtWork(t)'
  <2>1. ValidNC' = ValidNC /\ ValidMC' = ValidMC
    BY DEF ValidNC, ValidMC, origin
  <2>2. Limit' = Limit /\ Stride' = Stride
    BY <2>1 DEF Limit, Stride
  <2>3. Sums(s, j)' = Sums(s, j)
    <3>1. Tile(s, j)' = Tile(s, j)
      BY <2>1 DEF Tile, ValidMR, ValidNR
    <3>2. \A rc : Prefix(head, TileAddress(s, j, rc), pk)' = Prefix(head, TileAddress(s, j, rc), pk)
      BY DEF Prefix, FullSum, TileAddress, CAddress, origin
    <3> QED
      BY <3>1, <3>2 DEF Sums
  <2>4. s \in 0..(next' - 1) /\ j \in 0..(ValidNC' - 1) /\ g \in {Unset, Sums(s, j)'}
    BY <1>3, <2>1, <2>3
  <2>5. /\ busy'[t] = [start |-> s, jr |-> j, regs |-> g]
        /\ s < Limit' /\ s % Stride' = 0 /\ j % NR = 0
        /\ region' # "multiply" => j = 0 /\ g = Unset
    BY <1>3, <1>4, <2>2
  <2> QED
    BY <2>4, <2>5 DEF AtWork
<1>6. \A u \in Threads : busy'[u] = Idle \/ AtWork(u)'
  <2>1. SUFFICES ASSUME NEW u \in Threads, u # t, busy[u] # Idle PROVE AtWork(u)'
    BY <1>4, <1>5
  <2>2. AtWork(u)
    BY <2>1, AtWorkFacts
  <2>3. next \in Nat /\ next <= next'
    BY DEF IInv, MasterOK
  <2> QED
    BY <1>4, <2>1, <2>2, <2>3, AtWorkKept DEF origin
<1>7. \A u, w \in Threads : busy'[u] # Idle /\ busy'[u].start = busy'[w].start => u = w
  <2>1. \A u \in Threads : busy'[u].start = busy[u].start
    BY <1>3, <1>4
  <2>2. \A u \in Threads : busy'[u] # Idle => busy[u] # Idle
    BY <1>4
  <2> QED
    BY <2>1, <2>2 DEF IInv, TeamOK
<1> QED
  BY <1>1, <1>4, <1>6, <1>7 DEF TeamOK

\* A panel of A and one of B at work in a block.
LEMMA WorkerTile ==
  ASSUME IInv, NEW t \in Threads, busy[t] # Idle, region = "multiply"
  PROVE  TileOrigin(busy[t].start, busy[t].jr)
<1> DEFINE x == busy[t].start
<1>1. x \in Nat /\ x < Limit /\ x % Stride = 0 /\ busy[t].jr \in 0..(ValidNC - 1) /\ busy[t].jr % NR = 0
  BY AtWorkFacts
<1>2. Limit = ValidMC /\ Stride = MR /\ ValidMC \in Nat
  BY Sizes DEF Limit, Stride, IInv
<1>3. x \in 0..(ValidMC - 1) /\ x % MR = 0
  <2> HIDE DEF x, Limit, Stride, ValidMC
  <2> QED
    BY <1>1, <1>2
<1> QED
  BY <1>1, <1>3 DEF TileOrigin

\* What the panels keep while tiles are loaded and stored.
LEMMA PanelsKept ==
  ASSUME IInv, region = "multiply", UNCHANGED <<shape, region, origin, blocks>>
  PROVE  PanelsOK'
<1>1. UNCHANGED <<shape, head, ic, pk, jc, blockA_packed, blockB_packed>>
  BY DEF origin, blocks
<1>2. ValidMC' = ValidMC /\ ValidNC' = ValidNC
  BY <1>1 DEF ValidMC, ValidNC
<1>3. \A ir \in 0..(ValidMC - 1) : ir % MR = 0 => HoldsA(ir)'
  BY <1>1, HoldsAKept DEF IInv, PanelsOK
<1>4. \A jr \in 0..(ValidNC - 1) : jr % NR = 0 => HoldsB(jr)'
  BY <1>1, HoldsBKept DEF IInv, PanelsOK
<1> QED
  BY <1>1, <1>2, <1>3, <1>4 DEF IInv, PanelsOK

\* A tile that is being worked on has the sums of the blocks before.
LEMMA LoadedTileIsSums ==
  ASSUME IInv, NEW t \in Threads, busy[t] # Idle, region = "multiply"
  PROVE  LoadedTile(busy[t].start, busy[t].jr) = Sums(busy[t].start, busy[t].jr)
<1>1. PICK s \in Nat, j \in Nat : s = busy[t].start /\ j = busy[t].jr
  <2>1. TileOrigin(busy[t].start, busy[t].jr)
    BY WorkerTile
  <2>2. busy[t].start \in Nat /\ busy[t].jr \in Nat
    BY <2>1, TileSizes DEF IInv
  <2> QED
    BY <2>2
<1>2. TileOrigin(s, j)
  BY <1>1, WorkerTile
<1>3. ASSUME NEW rc \in Tile(s, j)
      PROVE  C[<<head, TileAddress(s, j, rc)>>] = Prefix(head, TileAddress(s, j, rc), pk)
  <2> DEFINE a == TileAddress(s, j, rc)
  <2>1. /\ rc[1] \in 0..(ValidMR(s) - 1) /\ rc[2] \in 0..(ValidNR(j) - 1)
        /\ a \in Addresses /\ a \div shape.n = ic + s + rc[1] /\ a % shape.n = jc + j + rc[2]
    BY <1>2, TileElement DEF IInv
  <2>2. C[<<head, a>>] = Prefix(head, a, Depth(head, ic + s + rc[1], jc + j + rc[2]))
    BY <2>1 DEF IInv, SumsOK, MasterOK
  <2>3. /\ {ic, jc, head, MC, NC, MR, NR} \subseteq Nat
    BY Sizes DEF IInv
  <2>4. /\ ValidMR(s) \in 1..MR /\ s + MR <= MC /\ ValidNR(j) \in 1..NR /\ j + NR <= NC
    BY <1>2, TileSizes DEF IInv
  <2>5. PICK r \in Nat, c \in Nat : r = s + rc[1] /\ c = j + rc[2] /\ ic + s + rc[1] = ic + r /\ jc + j + rc[2] = jc + c
                                    /\ s <= r /\ r < s + MR /\ j <= c /\ c < j + NR
    <3>1. rc[1] \in Nat /\ rc[2] \in Nat /\ rc[1] < MR /\ rc[2] < NR
      BY <2>1, <2>3, <2>4
    <3> QED
      BY <1>1, <2>3, <3>1
  <2>6. ~TileStored(r, c)
    <3>1. busy[t] # Idle /\ busy[t].start <= r /\ r < busy[t].start + MR /\ ~(c < busy[t].jr)
      BY <1>1, <2>5
    <3> QED
      BY <3>1 DEF TileStored
  <2>7. Depth(head, ic + r, jc + c) = pk
    <3>2. PICK h \in Nat, i \in Nat, l \in Nat : h = head /\ i = ic + r /\ l = jc + c
      BY <2>3, <2>5
    <3>3. ~TileStored(i - ic, l - jc)
      <4>1. i - ic = r /\ l - jc = c
        BY <2>3, <3>2
      <4> QED
        BY <2>6, <4>1, Zenon
    <3>4. ~(h < head \/ (h = head /\ i < ic)) /\ ~(h > head \/ i >= ic + MC) /\ ~(l < jc)
      BY <1>1, <2>3, <2>4, <2>5, <3>2
    <3>5. Depth(h, i, l) = pk
      BY <3>3, <3>4 DEF Depth
    <3> QED
      BY <3>2, <3>5
  <2> QED
    BY <2>2, <2>5, <2>7
<1>4. LoadedTile(s, j) = Sums(s, j)
  BY <1>3 DEF LoadedTile, Sums
<1> QED
  BY <1>1, <1>4

LEMMA LoadTileKeeps ==
  ASSUME IInv, NEW t \in Threads, LoadTile(t)
  PROVE  IInv'
<1>1. /\ region = "multiply" /\ busy[t] # Idle
      /\ busy' = [busy EXCEPT ![t].regs = LoadedTile(busy[t].start, busy[t].jr)]
      /\ UNCHANGED <<shape, region, next, C>> /\ UNCHANGED origin /\ UNCHANGED blocks
  BY DEF LoadTile
<1>2. /\ busy[t] = [start |-> busy[t].start, jr |-> busy[t].jr, regs |-> busy[t].regs]
      /\ busy[t].jr \in 0..(ValidNC - 1) /\ busy[t].jr % NR = 0
  BY <1>1, AtWorkFacts
<1>3. busy = [u \in Threads |-> busy[u]]
  BY DEF IInv, TeamOK
<1>4. LoadedTile(busy[t].start, busy[t].jr) = Sums(busy[t].start, busy[t].jr)
  BY <1>1, LoadedTileIsSums
<1>5. busy' = [busy EXCEPT ![t] = [start |-> busy[t].start, jr |-> busy[t].jr,
                                   regs |-> Sums(busy[t].start, busy[t].jr)]]
  <2> DEFINE g == Sums(busy[t].start, busy[t].jr)
  <2>1. busy' = [busy EXCEPT ![t].regs = g]
    BY <1>1, <1>4
  <2> HIDE DEF g
  <2>2. [busy[t] EXCEPT !.regs = g] = [start |-> busy[t].start, jr |-> busy[t].jr, regs |-> g]
    BY <1>2
  <2>3. busy' = [busy EXCEPT ![t] = [busy[t] EXCEPT !.regs = g]]
    BY <1>3, <2>1
  <2> QED
    BY <2>2, <2>3 DEF g
<1>6. MasterOK' /\ TeamOK'
  BY <1>1, <1>2, <1>5, IterationGoesOn
<1>7. PanelsOK'
  BY <1>1, PanelsKept
<1>8. SumsOK'
  <2>1. /\ busy'[t] # Idle /\ busy'[t].start = busy[t].start /\ busy'[t].jr = busy[t].jr
        /\ \A u \in Threads \ {t} : busy'[u] = busy[u]
    <3>1. busy'[t] = [start |-> busy[t].start, jr |-> busy[t].jr, regs |-> Sums(busy[t].start, busy[t].jr)]
      BY <1>3, <1>5
    <3>2. busy[t].start \in Nat
      BY <1>1, AtWorkFacts
    <3> QED
      BY <1>3, <1>5, <3>1, <3>2 DEF Idle
  <2>2. \A r, c : TileStored(r, c)' <=> TileStored(r, c)
    BY <1>1, <2>1 DEF TileStored
  <2>3. \A h \in Heads, i \in 0..(shape.m - 1), j \in 0..(shape.n - 1) : Depth(h, i, j)' = Depth(h, i, j)
    <3>1. SUFFICES ASSUME NEW h \in Heads, NEW i \in 0..(shape.m - 1), NEW j \in 0..(shape.n - 1)
                   PROVE  Depth(h, i, j)' = Depth(h, i, j)
      OBVIOUS
    <3>2. TileStored(i - ic, j - jc)' <=> TileStored(i - ic, j - jc)
      BY <1>1, <2>1 DEF TileStored, origin
    <3> QED
      BY <1>1, <3>2 DEF Depth, ValidKC, origin
  <2> QED
    BY <1>1, <2>3, SumsKept DEF IInv
<1> QED
  BY <1>6, <1>7, <1>8 DEF IInv

\* The store writes the sums of its own tile, one block deeper.
LEMMA StoredTileIs ==
  ASSUME IInv, NEW s, NEW j, TileOrigin(s, j), HoldsA(s), HoldsB(j)
  PROVE  LET stored == StoredTile(Multiplied(Sums(s, j), s, j), s, j)
         IN  /\ stored = [ha \in Heads \X Addresses |-> stored[ha]]
             /\ \A h \in Heads, a \in Addresses :
                  stored[<<h, a>>] = IF h = head /\ InTile(s, j, a) THEN Prefix(h, a, pk + ValidKC)
                                     ELSE C[<<h, a>>]
<1> DEFINE regs == Multiplied(Sums(s, j), s, j)
           stored == StoredTile(regs, s, j)
<1>1. DOMAIN C = Heads \X Addresses
  BY DEF IInv, SumsOK
<1>2. stored = [ha \in Heads \X Addresses |->
                  IF \E rc \in Tile(s, j) : ha = <<head, TileAddress(s, j, rc)>>
                  THEN regs[CHOOSE rc \in Tile(s, j) : ha = <<head, TileAddress(s, j, rc)>>]
                  ELSE C[ha]]
  BY <1>1 DEF StoredTile
<1>3. stored = [ha \in Heads \X Addresses |-> stored[ha]]
  BY <1>2
<1> HIDE DEF stored
<1>4. ASSUME NEW h \in Heads, NEW a \in Addresses
      PROVE  stored[<<h, a>>] = IF h = head /\ InTile(s, j, a) THEN Prefix(h, a, pk + ValidKC) ELSE C[<<h, a>>]
  <2>1. InTile(s, j, a) <=> \E rc \in Tile(s, j) : a = TileAddress(s, j, rc)
    BY TileCovers DEF IInv
  <2>2. CASE h = head /\ InTile(s, j, a)
    <3> DEFINE rc == CHOOSE x \in Tile(s, j) : <<h, a>> = <<head, TileAddress(s, j, x)>>
    <3>1. \E x \in Tile(s, j) : <<h, a>> = <<head, TileAddress(s, j, x)>>
      BY <2>1, <2>2
    <3>2. rc \in Tile(s, j) /\ <<h, a>> = <<head, TileAddress(s, j, rc)>>
      BY <3>1
    <3>3. stored[<<h, a>>] = regs[rc]
      BY <1>2, <3>1
    <3> HIDE DEF rc, regs
    <3>4. regs[rc] = Prefix(head, TileAddress(s, j, rc), pk + ValidKC)
      BY <3>2, PanelsContinueSums DEF regs, IInv
    <3>5. a = TileAddress(s, j, rc)
      BY <3>2
    <3> QED
      BY <2>2, <3>3, <3>4, <3>5
  <2>3. CASE ~(h = head /\ InTile(s, j, a))
    <3>1. ~\E x \in Tile(s, j) : <<h, a>> = <<head, TileAddress(s, j, x)>>
      BY <2>1, <2>3
    <3> QED
      BY <1>2, <2>3, <3>1
  <2> QED
    BY <2>2, <2>3
<1> QED
  BY <1>3, <1>4 DEF stored

\* ... and makes them, and no others, count as stored.
LEMMA TileBecomesStored ==
  ASSUME IInv, NEW t \in Threads, busy[t] # Idle, region = "multiply", region' = region, next' = next,
         NEW s \in Nat, NEW j \in Nat, s = busy[t].start, j = busy[t].jr,
         NEW b, busy' = [busy EXCEPT ![t] = b],
         IF j + NR < ValidNC THEN b # Idle /\ b.start = s /\ b.jr = j + NR ELSE b = Idle,
         NEW r \in 0..(ValidMC - 1), NEW c \in 0..(ValidNC - 1)
  PROVE  TileStored(r, c)' <=>
           TileStored(r, c) \/ (s <= r /\ r < s + ValidMR(s) /\ j <= c /\ c < j + ValidNR(j))
<1>1. TileOrigin(s, j)
  BY WorkerTile
<1>2. /\ MR \in Nat \ {0} /\ NR \in Nat \ {0} /\ ValidMC \in Nat /\ ValidNC \in Nat
      /\ r \in Nat /\ c \in Nat /\ r < ValidMC /\ c < ValidNC
  <2>1. MR \in Nat \ {0} /\ NR \in Nat \ {0} /\ ValidMC \in Nat /\ ValidNC \in Nat
    BY Sizes DEF IInv
  <2> HIDE DEF ValidMC, ValidNC
  <2> QED
    BY <2>1
<1>3. /\ ValidMR(s) \in 1..MR /\ s + ValidMR(s) <= ValidMC
      /\ ValidNR(j) \in 1..NR /\ j + ValidNR(j) <= ValidNC
      /\ s + ValidMR(s) = ValidMC \/ ValidMR(s) = MR
      /\ j + ValidNR(j) = ValidNC \/ ValidNR(j) = NR
  BY <1>1, TileSizes DEF IInv
<1> HIDE DEF ValidMC, ValidNC, ValidMR, ValidNR
<1>4. r < s + MR => r < s + ValidMR(s)
  BY <1>2, <1>3
<1>5. busy = [u \in Threads |-> busy[u]]
  BY DEF IInv, TeamOK
<1>6. busy'[t] = b /\ \A u \in Threads \ {t} : busy'[u] = busy[u]
  BY <1>5
<1>7. Stride = MR /\ next \in Nat /\ next % MR = 0 /\ s < next /\ s % MR = 0
  <2>1. Stride = MR
    BY DEF Stride
  <2>2. s < next /\ s % Stride = 0
    BY AtWorkFacts
  <2> QED
    BY <2>1, <2>2 DEF IInv, MasterOK
<1>8. s + MR <= next
  BY <1>2, <1>7, MultiplesApart, Zenon
<1>9. CASE s <= r /\ r < s + MR
  <2>1. \A u \in Threads \ {t} : ~(busy[u] # Idle /\ busy[u].start <= r /\ r < busy[u].start + MR)
    <3>1. SUFFICES ASSUME NEW u \in Threads, u # t, busy[u] # Idle, busy[u].start <= r, r < busy[u].start + MR
                   PROVE  FALSE
      OBVIOUS
    <3>2. PICK x \in Nat : x = busy[u].start /\ x % MR = 0
      BY <1>7, <3>1, AtWorkFacts
    <3>3. x # s
      BY <3>1, <3>2 DEF IInv, TeamOK
    <3>4. x < s => x + MR <= s
      BY <1>2, <1>7, <3>2, MultiplesApart, Zenon
    <3>5. s < x => s + MR <= x
      BY <1>2, <1>7, <3>2, MultiplesApart, Zenon
    <3>6. x <= r /\ r < x + MR
      BY <3>1, <3>2
    <3> QED
      BY <1>2, <1>9, <3>3, <3>4, <3>5, <3>6
  <2>2. r < next
    BY <1>2, <1>7, <1>8, <1>9
  <2>3. TileStored(r, c) <=> c < j
    BY <1>9, <2>1, <2>2 DEF TileStored
  <2>4. CASE j + NR < ValidNC
    <3>1. b # Idle /\ b.start = s /\ b.jr = j + NR
      BY <2>4
    <3>2. TileStored(r, c)' <=> c < j + NR
      BY <1>6, <1>9, <2>1, <2>2, <3>1 DEF TileStored
    <3>3. ValidNR(j) = NR
      BY <1>2, <1>3, <2>4
    <3> QED
      BY <1>2, <1>4, <1>9, <2>3, <3>2, <3>3
  <2>5. CASE ~(j + NR < ValidNC)
    <3>1. b = Idle
      BY <2>5
    <3>2. TileStored(r, c)'
      BY <1>6, <2>1, <2>2, <3>1 DEF TileStored
    <3>3. j + ValidNR(j) = ValidNC
      BY <1>2, <1>3, <2>5
    <3> QED
      BY <1>2, <1>4, <1>9, <2>3, <3>2, <3>3
  <2> QED
    BY <2>4, <2>5
<1>10. CASE ~(s <= r /\ r < s + MR)
  <2>1. ~(busy[t].start <= r /\ r < busy[t].start + MR)
    BY <1>10
  <2>2. b # Idle => ~(b.start <= r /\ r < b.start + MR)
    BY <1>10
  <2>3. TileStored(r, c)' <=> TileStored(r, c)
    BY <1>6, <2>1, <2>2 DEF TileStored
  <2>4. ~(s <= r /\ r < s + ValidMR(s))
    BY <1>2, <1>3, <1>10
  <2> QED
    BY <2>3, <2>4
<1> QED
  BY <1>9, <1>10

\* Sums whose new depths are known, after a step that writes C.
LEMMA SumsWritten ==
  ASSUME IInv, MasterOK', UNCHANGED shape, C' = [ha \in Heads \X Addresses |-> C'[ha]],
         \A h \in Heads, a \in Addresses, i \in 0..(shape.m - 1), c \in 0..(shape.n - 1) :
           i = a \div shape.n /\ c = a % shape.n => C'[<<h, a>>] = Prefix(h, a, Depth(h, i, c)')
  PROVE  SumsOK'
<1>1. Addresses' = Addresses
  BY DEF Addresses
<1>2. ASSUME NEW h \in Heads, NEW a \in Addresses
      PROVE  C'[<<h, a>>] = Prefix(h, a, Depth(h, a \div shape.n, a % shape.n))'
  <2>1. PICK i \in 0..(shape.m - 1), c \in 0..(shape.n - 1) : i = a \div shape.n /\ c = a % shape.n
    BY RowAndColumn DEF IInv
  <2>2. i = a \div shape'.n /\ c = a % shape'.n
    BY <2>1
  <2>3. Depth(h, a \div shape.n, a % shape.n)' = Depth(h, i, c)'
    BY <2>2 DEF Depth, TileStored
  <2>4. Prefix(h, a, Depth(h, a \div shape.n, a % shape.n))' = Prefix(h, a, Depth(h, i, c)')
    BY <2>3 DEF Prefix, FullSum
  <2>5. C'[<<h, a>>] = Prefix(h, a, Depth(h, i, c)')
    BY <2>1
  <2> QED
    BY <2>4, <2>5
<1> QED
  BY <1>1, <1>2 DEF SumsOK

LEMMA StoreTileKeeps ==
  ASSUME IInv, NEW t \in Threads, StoreTile(t)
  PROVE  IInv'
<1>1. /\ region = "multiply" /\ busy[t] # Idle /\ busy[t].regs # Unset
      /\ UNCHANGED <<shape, region, next>> /\ UNCHANGED origin /\ UNCHANGED blocks
  BY DEF StoreTile
<1>2. PICK s \in Nat, j \in Nat : s = busy[t].start /\ j = busy[t].jr
  <2>1. TileOrigin(busy[t].start, busy[t].jr)
    BY <1>1, WorkerTile
  <2>2. busy[t].start \in Nat /\ busy[t].jr \in Nat
    BY <2>1, TileSizes DEF IInv
  <2> QED
    BY <2>2
<1>3. TileOrigin(s, j)
  BY <1>1, <1>2, WorkerTile
<1>4. busy[t] = [start |-> s, jr |-> j, regs |-> Sums(s, j)]
  BY <1>1, <1>2, AtWorkFacts
<1>5. C' = StoredTile(Multiplied(Sums(s, j), s, j), s, j)
  <2>1. C' = StoredTile(Multiplied(busy[t].regs, busy[t].start, busy[t].jr), busy[t].start, busy[t].jr)
    BY DEF StoreTile
  <2> QED
    BY <1>4, <2>1
<1> DEFINE b == IF j + NR < ValidNC THEN [start |-> s, jr |-> j + NR, regs |-> Unset] ELSE Idle
<1>6. busy' = [busy EXCEPT ![t] = b]
  <2>1. busy' = [busy EXCEPT ![t] = IF busy[t].jr + NR < ValidNC
                                    THEN [start |-> busy[t].start, jr |-> busy[t].jr + NR, regs |-> Unset]
                                    ELSE Idle]
    BY DEF StoreTile
  <2> QED
    BY <1>2, <2>1
<1>7. s = busy[t].start /\ j = busy[t].jr /\ MasterOK /\ {NR, NC} \subseteq Nat \ {0} /\ ValidNC \in Nat
      /\ j \in 0..(ValidNC - 1) /\ j % NR = 0
  BY <1>2, <1>3, Sizes DEF IInv, TileOrigin
<1>8. MasterOK' /\ TeamOK'
  <2>1. CASE j + NR < ValidNC
    <3>1. (j + NR) % NR = 0
      <4>1. NR \in Nat \ {0} /\ j \in Nat /\ j % NR = 0
        BY <1>7
      <4> QED
        BY <4>1, NextMultiple, Zenon
    <3>2. j + NR \in 0..(ValidNC - 1)
      <4>1. j \in Nat /\ NR \in Nat /\ ValidNC \in Nat
        BY <1>7
      <4> HIDE DEF ValidNC
      <4> QED
        BY <2>1, <4>1
    <3>3. busy' = [busy EXCEPT ![t] = [start |-> busy[t].start, jr |-> j + NR, regs |-> Unset]]
      BY <1>2, <1>6, <2>1
    <3>4. PICK j2 \in 0..(ValidNC - 1) : j2 = j + NR /\ j2 % NR = 0
      BY <3>1, <3>2
    <3>5. Unset \in {Unset, Sums(busy[t].start, j2)}
      OBVIOUS
    <3>6. busy' = [busy EXCEPT ![t] = [start |-> busy[t].start, jr |-> j2, regs |-> Unset]]
      BY <3>3, <3>4
    <3> QED
      BY <1>1, <3>4, <3>5, <3>6, IterationGoesOn
  <2>2. CASE ~(j + NR < ValidNC)
    <3>1. busy' = [busy EXCEPT ![t] = Idle]
      BY <1>6, <2>2
    <3> QED
      BY <1>1, <3>1, IterationEnds
  <2> QED
    BY <2>1, <2>2
<1>9. PanelsOK'
  BY <1>1, PanelsKept
<1>10. HoldsA(s) /\ HoldsB(j)
  BY <1>1, <1>3 DEF IInv, PanelsOK, TileOrigin
<1>11. /\ C' = [ha \in Heads \X Addresses |-> C'[ha]]
       /\ \A h \in Heads, a \in Addresses :
            C'[<<h, a>>] = IF h = head /\ InTile(s, j, a) THEN Prefix(h, a, pk + ValidKC) ELSE C[<<h, a>>]
  BY <1>3, <1>5, <1>10, StoredTileIs
<1>12. IF j + NR < ValidNC THEN b # Idle /\ b.start = s /\ b.jr = j + NR ELSE b = Idle
  <2>1. CASE j + NR < ValidNC
    <3>1. b = [start |-> s, jr |-> j + NR, regs |-> Unset]
      BY <2>1
    <3> HIDE DEF b, Unset
    <3> QED
      BY <2>1, <3>1 DEF Idle
  <2>2. CASE ~(j + NR < ValidNC)
    BY <2>2
  <2> QED
    BY <2>1, <2>2
<1> HIDE DEF b
<1>13. \A r \in 0..(ValidMC - 1), c \in 0..(ValidNC - 1) :
         TileStored(r, c)' <=>
           TileStored(r, c) \/ (s <= r /\ r < s + ValidMR(s) /\ j <= c /\ c < j + ValidNR(j))
  BY <1>1, <1>2, <1>6, <1>12, TileBecomesStored
<1>14. ASSUME NEW h \in Heads, NEW a \in Addresses, NEW i \in 0..(shape.m - 1), NEW c \in 0..(shape.n - 1),
              i = a \div shape.n, c = a % shape.n
       PROVE  Depth(h, i, c)' = IF h = head /\ InTile(s, j, a) THEN pk + ValidKC ELSE Depth(h, i, c)
  <2>1. /\ {ic, jc, head, shape.m, shape.n, MC, NC, MR, NR} \subseteq Nat /\ {h, i, c} \subseteq Nat
        /\ ValidMC \in Nat /\ ValidNC \in Nat /\ ValidMC <= MC /\ ValidNC <= NC
        /\ (ic + MC < shape.m => ValidMC = MC) /\ (ic + MC >= shape.m => ic + ValidMC = shape.m)
        /\ (jc + NC < shape.n => ValidNC = NC) /\ (jc + NC >= shape.n => jc + ValidNC = shape.n)
    BY Sizes, GemmAssumption DEF IInv, Heads
  <2>2. /\ ValidMR(s) \in Nat /\ s + ValidMR(s) <= ValidMC
        /\ ValidNR(j) \in Nat /\ j + ValidNR(j) <= ValidNC
    BY <1>3, <2>1, TileSizes DEF IInv
  <2>3. InTile(s, j, a) <=> /\ ic + s <= i /\ i < ic + s + ValidMR(s)
                            /\ jc + j <= c /\ c < jc + j + ValidNR(j)
    BY <1>14 DEF InTile
  <2>4. UNCHANGED <<shape, region, head, ic, pk, jc>> /\ ValidKC' = ValidKC
    BY <1>1 DEF origin, ValidKC
  <2> HIDE DEF ValidMC, ValidNC, ValidMR, ValidNR, ValidKC
  <2>5. ASSUME ic <= i, i < ic + MC, jc <= c, c < jc + NC
        PROVE  TileStored(i - ic, c - jc)' <=> TileStored(i - ic, c - jc) \/ InTile(s, j, a)
    <3>1. PICK r \in 0..(ValidMC - 1), l \in 0..(ValidNC - 1) : r = i - ic /\ l = c - jc /\ i = ic + r /\ c = jc + l
      <4>1. i - ic \in 0..(ValidMC - 1) /\ c - jc \in 0..(ValidNC - 1)
            /\ i = ic + (i - ic) /\ c = jc + (c - jc)
        BY <2>1, <2>5
      <4> QED
        BY <4>1
    <3>2. TileStored(i - ic, c - jc)' <=> TileStored(r, l)'
      <4>1. r = i - ic' /\ l = c - jc'
        BY <2>4, <3>1
      <4> QED
        BY <4>1 DEF TileStored
    <3>3. InTile(s, j, a) <=> (s <= r /\ r < s + ValidMR(s) /\ j <= l /\ l < j + ValidNR(j))
      BY <2>1, <2>2, <2>3, <3>1
    <3>4. TileStored(r, l)' <=>
            TileStored(r, l) \/ (s <= r /\ r < s + ValidMR(s) /\ j <= l /\ l < j + ValidNR(j))
      BY <1>13
    <3>5. TileStored(i - ic, c - jc) <=> TileStored(r, l)
      BY <3>1
    <3> QED
      BY <3>2, <3>3, <3>4, <3>5
  <2>6. InTile(s, j, a) => /\ ic <= i /\ i < ic + MC /\ jc <= c /\ c < jc + NC
    BY <2>1, <2>2, <2>3
  <2>7. CASE h = head /\ ic <= i /\ i < ic + MC /\ jc <= c /\ c < jc + NC
    <3>1. ~(h < head \/ (h = head /\ i < ic)) /\ ~(h > head \/ i >= ic + MC) /\ ~(c < jc) /\ c < jc + NC
      BY <2>1, <2>7
    <3>2. Depth(h, i, c) = IF TileStored(i - ic, c - jc) THEN pk + ValidKC ELSE pk
      BY <1>1, <3>1 DEF Depth
    <3>3. Depth(h, i, c)' = IF TileStored(i - ic, c - jc)' THEN pk + ValidKC ELSE pk
      BY <1>1, <2>4, <3>1 DEF Depth
    <3> QED
      BY <2>5, <2>7, <3>2, <3>3
  <2>8. CASE ~(h = head /\ ic <= i /\ i < ic + MC /\ jc <= c /\ c < jc + NC)
    <3>1. ~(h = head /\ InTile(s, j, a))
      BY <2>6, <2>8
    <3>2. \/ h < head \/ (h = head /\ i < ic)
          \/ h > head \/ i >= ic + MC
          \/ c < jc \/ ~(c < jc + NC)
      BY <2>1, <2>8
    <3>3. Depth(h, i, c)' = Depth(h, i, c)
      BY <1>1, <2>1, <2>4, <3>2 DEF Depth
    <3> QED
      BY <3>1, <3>3
  <2> QED
    BY <2>7, <2>8
<1>15. SumsOK'
  <2>1. SUFFICES ASSUME NEW h \in Heads, NEW a \in Addresses, NEW i \in 0..(shape.m - 1), NEW c \in 0..(shape.n - 1),
                        i = a \div shape.n, c = a % shape.n
                 PROVE  C'[<<h, a>>] = Prefix(h, a, Depth(h, i, c)')
    BY <1>1, <1>8, <1>11, SumsWritten
  <2>2. Depth(h, i, c)' = IF h = head /\ InTile(s, j, a) THEN pk + ValidKC ELSE Depth(h, i, c)
    BY <1>14, <2>1
  <2>3. C[<<h, a>>] = Prefix(h, a, Depth(h, i, c))
    BY <2>1 DEF IInv, SumsOK
  <2> QED
    BY <1>11, <2>2, <2>3
<1> QED
  BY <1>8, <1>9, <1>15 DEF IInv

\* Whole vectors, when the inner dimension is made of them.
LEMMA VectorsCover ==
  ASSUME MasterOK, shape.layout = "rcr"
  PROVE  VectorSpan = shape.k
<1> DEFINE k == shape.k
<1>1. k \in Nat /\ Lanes \in Nat \ {0} /\ k % Lanes = 0
  BY Sizes
<1> HIDE DEF k
<1>2. PICK q \in Nat : k = Lanes * q
  BY <1>1, MultipleOf, Zenon
<1>3. PICK a \in Nat : a = k + Lanes - 1 /\ a = q * Lanes + (Lanes - 1)
  BY <1>1, <1>2
<1>4. Lanes - 1 \in 0..(Lanes - 1)
  BY <1>1
<1>5. a \div Lanes = q
  BY <1>1, <1>3, <1>4, OneQuotient
<1>6. (a \div Lanes) * Lanes = k
  BY <1>1, <1>2, <1>5
<1> QED
  BY <1>3, <1>6 DEF VectorSpan, k

\* The sum of a matrix-vector product.
LEMMA GemvSum ==
  ASSUME MasterOK, shape.m = 1, NEW h \in Heads, NEW a \in Addresses
  PROVE  [p \in 1..shape.k |-> <<<<h, p - 1>>, BElement(h, p - 1, a)>>] = FullSum(h, a)
<1> DEFINE n == shape.n
           k == shape.k
           i == a \div n
           j == a % n
<1>1. n \in Nat \ {0} /\ k \in Nat \ {0} /\ 1 \in Nat \ {0} /\ a \in 0..(1 * n - 1)
  BY Sizes DEF Addresses
<1>2. i \in 0..(1 - 1) /\ j \in 0..(n - 1) /\ a = i * n + j
  BY <1>1, AddressFacts, Zenon
<1> HIDE DEF n, k, i, j
<1>3. i = 0 /\ j = a
  BY <1>1, <1>2
<1>4. FullSum(h, a) = [p \in 1..k |->
         <<<<h, i * k + p - 1>>, <<h \div GroupSize, IF shape.layout = "rrr" THEN (p - 1) * n + j
                                                     ELSE j * k + p - 1>>>>]
  BY DEF FullSum, n, k, i, j
<1>5. \A p \in 1..k : <<<<h, p - 1>>, BElement(h, p - 1, a)>> =
         <<<<h, i * k + p - 1>>, <<h \div GroupSize, IF shape.layout = "rrr" THEN (p - 1) * n + j
                                                     ELSE j * k + p - 1>>>>
  <2>1. SUFFICES ASSUME NEW p \in 1..k
                 PROVE  <<<<h, p - 1>>, BElement(h, p - 1, a)>> =
         <<<<h, i * k + p - 1>>, <<h \div GroupSize, IF shape.layout = "rrr" THEN (p - 1) * n + j
                                                     ELSE j * k + p - 1>>>>
    OBVIOUS
  <2>2. i * k + p - 1 = p - 1
    BY <1>1, <1>3
  <2>3. BElement(h, p - 1, a) = <<h \div GroupSize, IF shape.layout = "rrr" THEN (p - 1) * n + a
                                                    ELSE a * k + (p - 1)>>
    BY DEF BElement, Group, BOffset, n, k
  <2>4. a * k + (p - 1) = j * k + p - 1
    <3>1. a * k \in Int
      BY <1>1
    <3> QED
      BY <1>3, <3>1
  <2> QED
    BY <1>3, <2>2, <2>3, <2>4
<1>6. [p \in 1..k |-> <<<<h, p - 1>>, BElement(h, p - 1, a)>>] = FullSum(h, a)
  BY <1>4, <1>5
<1> QED
  BY <1>6 DEF k

LEMMA MultiplyHeadKeeps ==
  ASSUME IInv, NEW t \in Threads, MultiplyHead(t)
  PROVE  IInv'
<1>1. /\ region = "gemv" /\ busy[t] # Idle /\ C' = GemvRow(busy[t].start)
      /\ busy' = [busy EXCEPT ![t] = Idle]
      /\ UNCHANGED <<shape, region, next>> /\ UNCHANGED origin /\ UNCHANGED blocks
  BY DEF MultiplyHead
<1>2. PICK s \in Heads : s = busy[t].start /\ ~Ended(s)
  <2>1. busy[t].start \in Nat /\ busy[t].start < Limit
    BY <1>1, AtWorkFacts
  <2>2. Limit = NumHeads /\ NumHeads \in Nat
    BY <1>1, GemmAssumption DEF Limit
  <2> HIDE DEF Limit
  <2>3. busy[t].start \in Heads
    BY <2>1, <2>2 DEF Heads
  <2> QED
    BY <2>3 DEF Ended
<1>3. /\ MasterOK' /\ TeamOK'
      /\ \A x \in Nat : Ended(x)' <=> Ended(x) \/ x = s
  BY <1>1, <1>2, IterationEnds
<1>4. PanelsOK'
  BY <1>1 DEF IInv, PanelsOK, blocks
<1>5. MasterOK /\ shape.m = 1
  BY <1>1 DEF IInv, MasterOK
<1>6. DOMAIN C = Heads \X Addresses
  BY DEF IInv, SumsOK
<1>7. C' = [ha \in Heads \X Addresses |-> C'[ha]]
  BY <1>1, <1>6 DEF GemvRow
<1>8. ASSUME NEW h \in Heads, NEW a \in Addresses
      PROVE  C'[<<h, a>>] = IF h = s THEN FullSum(h, a) ELSE C[<<h, a>>]
  <2>1. CASE h # s
    BY <1>1, <1>2, <1>6, <2>1 DEF GemvRow
  <2>2. CASE h = s
    <3> DEFINE Sum(d) == [p \in 1..d |-> <<<<h, p - 1>>, BElement(h, p - 1, a)>>]
    <3>1. C'[<<h, a>>] = IF shape.layout = "rcr" THEN Sum(IF shape.layout = "rcr" THEN VectorSpan ELSE shape.k)
                         ELSE C[<<h, a>>] \o Sum(IF shape.layout = "rcr" THEN VectorSpan ELSE shape.k)
      BY <1>1, <1>2, <1>6, <2>2 DEF GemvRow
    <3>2. Sum(shape.k) = FullSum(h, a)
      BY <1>5, GemvSum
    <3> HIDE DEF Sum
    <3>3. CASE shape.layout = "rcr"
      <4>1. VectorSpan = shape.k
        BY <1>5, <3>3, VectorsCover
      <4> QED
        BY <2>2, <3>1, <3>2, <3>3, <4>1
    <3>4. CASE shape.layout # "rcr"
      <4>1. C[<<h, a>>] = Prefix(h, a, 0)
        BY <1>1, <1>2, <2>2 DEF IInv, SumsOK, Depth
      <4>2. C[<<h, a>>] = << >>
        BY <1>5, <4>1, EmptyPrefix
      <4>3. FullSum(h, a) \in Seq(Product)
        BY <1>5, FullSumIsSequence
      <4>4. << >> \o FullSum(h, a) = FullSum(h, a)
        BY <4>3, ConcatEmptySeq
      <4> QED
        BY <2>2, <3>1, <3>2, <3>4, <4>2, <4>4
    <3> QED
      BY <3>3, <3>4
  <2> QED
    BY <2>1, <2>2
<1>9. SumsOK'
  <2>1. SUFFICES ASSUME NEW h \in Heads, NEW a \in Addresses, NEW i \in 0..(shape.m - 1), NEW c \in 0..(shape.n - 1),
                        i = a \div shape.n, c = a % shape.n
                 PROVE  C'[<<h, a>>] = Prefix(h, a, Depth(h, i, c)')
    BY <1>1, <1>3, <1>7, SumsWritten
  <2>2. h \in Nat
    BY GemmAssumption DEF Heads
  <2>3. Depth(h, i, c)' = IF Ended(h)' THEN shape.k ELSE 0
    BY <1>1 DEF Depth
  <2>4. Depth(h, i, c) = IF Ended(h) THEN shape.k ELSE 0
    BY <1>1 DEF Depth
  <2>5. C[<<h, a>>] = Prefix(h, a, Depth(h, i, c))
    BY <2>1 DEF IInv, SumsOK
  <2>6. Prefix(h, a, shape.k) = FullSum(h, a)
    BY <1>5, EmptyPrefix
  <2>7. Ended(h)' <=> Ended(h) \/ h = s
    BY <1>3, <2>2
  <2> QED
    BY <1>8, <2>3, <2>4, <2>5, <2>6, <2>7
<1> QED
  BY <1>3, <1>4, <1>9 DEF IInv

-----------------------------------------------------------------------------
LEMMA StutterKeeps ==
  ASSUME IInv, UNCHANGED vars
  PROVE  IInv'
<1>1. UNCHANGED <<shape, region, head, ic, pk, jc, next, busy, blockA_packed, blockB_packed, C>>
  BY DEF vars, origin, blocks
<1>2. MasterOK'
  BY <1>1, MasterKept DEF IInv, MasterOK, origin
<1>3. TeamOK'
  <2>1. next \in Nat /\ next' \in Nat /\ next <= next'
    BY <1>1 DEF IInv, MasterOK
  <2>2. \A t \in Threads : busy'[t] = Idle \/ AtWork(t)'
    BY <1>1, <2>1, AtWorkKept DEF IInv, TeamOK
  <2> QED
    BY <1>1, <2>2 DEF IInv, TeamOK
<1>4. PanelsOK'
  <2>1. ValidMC' = ValidMC /\ ValidNC' = ValidNC
    BY <1>1 DEF ValidMC, ValidNC
  <2>2. \A s : Ended(s)' <=> Ended(s)
    BY <1>1 DEF Ended
  <2>3. \A s : (HoldsA(s) => HoldsA(s)') /\ (HoldsB(s) => HoldsB(s)')
    BY <1>1, HoldsAKept, HoldsBKept
  <2> QED
    BY <1>1, <2>1, <2>2, <2>3 DEF IInv, PanelsOK
<1>5. SumsOK'
  <2>1. \A h \in Heads, i \in 0..(shape.m - 1), j \in 0..(shape.n - 1) : Depth(h, i, j)' = Depth(h, i, j)
    BY <1>1 DEF Depth, TileStored, ValidKC, Ended
  <2> QED
    BY <1>1, <2>1, SumsKept DEF IInv
<1> QED
  BY <1>2, <1>3, <1>4, <1>5 DEF IInv

LEMMA IInvIsInvariant == Spec => []IInv
<1>1. Init => IInv
  BY InitIsConsistent
<1>2. IInv /\ [Next]_vars => IInv'
  <2>1. SUFFICES ASSUME IInv, [Next]_vars PROVE IInv'
    OBVIOUS
  <2>2. ASSUME NEW t \in Threads, Work(t) PROVE IInv'
    BY <2>1, <2>2, TakeKeeps, PackPanelAKeeps, PackPanelBKeeps, LoadTileKeeps, StoreTileKeeps, MultiplyHeadKeeps
    DEF Work
  <2>3. CASE Master
    BY <2>1, <2>3, BeginKeeps, PackedBlockAKeeps, PackedBlockBKeeps, NextColumnsKeeps, NextDepthKeeps,
       NextRowsKeeps, NextHeadKeeps, FinishKeeps DEF Master
  <2>4. CASE UNCHANGED vars
    BY <2>1, <2>4, StutterKeeps
  <2> QED
    BY <2>1, <2>2, <2>3, <2>4 DEF Next
<1> QED
  BY <1>1, <1>2, PTL DEF Spec

LEMMA DepthIsBounded ==
  ASSUME IInv, NEW h, NEW i, NEW j
  PROVE  Depth(h, i, j) \in 0..shape.k
<1>1. shape.k \in Nat /\ pk \in Nat /\ ValidKC \in Nat /\ pk + ValidKC <= shape.k
  <2>1. KC \in Nat
    BY GemmAssumption
  <2> QED
    BY <2>1, Sizes DEF IInv
<1>2. pk \in 0..shape.k /\ pk + ValidKC \in 0..shape.k /\ 0 \in 0..shape.k /\ shape.k \in 0..shape.k
  <2> HIDE DEF ValidKC
  <2> QED
    BY <1>1
<1> QED
  BY <1>2 DEF Depth

(* Under every schedule of every team, each element of C is at every moment *)
(* a partial sum of its own row and column in the order of p: no product is *)
(* lost, repeated, or taken from another block's panel.                     *)
THEOREM NoProductIsLost == Spec => []SumsInOrder
<1>1. IInv => SumsInOrder
  <2>1. SUFFICES ASSUME IInv, NEW ha \in DOMAIN C
                 PROVE  Len(C[ha]) <= shape.k /\ C[ha] = SubSeq(FullSum(ha[1], ha[2]), 1, Len(C[ha]))
    BY DEF SumsInOrder
  <2>2. PICK h \in Heads, a \in Addresses : ha = <<h, a>>
    BY <2>1 DEF IInv, SumsOK
  <2>3. PICK d \in 0..shape.k : C[<<h, a>>] = Prefix(h, a, d)
    BY <2>1, <2>2, DepthIsBounded DEF IInv, SumsOK
  <2>4. Len(Prefix(h, a, d)) = d /\ Prefix(h, a, d) = SubSeq(FullSum(h, a), 1, d)
    BY <2>1, PrefixFacts DEF IInv
  <2>5. shape.k \in Nat /\ d <= shape.k
    BY <2>1, Sizes DEF IInv
  <2> QED
    BY <2>2, <2>3, <2>4, <2>5
<1> QED
  BY <1>1, IInvIsInvariant, PTL

(* When the master returns, every element of C is its whole sum.            *)
THEOREM ProductIsWhole == Spec => []ProductComplete
<1>1. IInv => ProductComplete
  <2>1. SUFFICES ASSUME IInv, region = "done", NEW ha \in DOMAIN C
                 PROVE  C[ha] = FullSum(ha[1], ha[2])
    BY DEF ProductComplete
  <2>2. PICK h \in Heads, a \in Addresses : ha = <<h, a>>
    BY <2>1 DEF IInv, SumsOK
  <2>3. C[<<h, a>>] = Prefix(h, a, shape.k)
    BY <2>1, <2>2 DEF IInv, SumsOK, Depth
  <2> QED
    BY <2>1, <2>2, <2>3, EmptyPrefix DEF IInv
<1> QED
  BY <1>1, IInvIsInvariant, PTL

LEMMA ReadsOfPanel ==
  ASSUME NEW v \in Nat \ {0}, NEW i \in Nat, NEW w \in Nat, NEW unit \in Nat, w <= unit,
         NEW block \in Nat, NEW depth \in Nat, i + unit <= block, v <= depth
  PROVE  i * v + (v - 1) * w + unit <= block * depth
<1>1. (i + unit) * v <= block * depth
  BY Monotone
<1>2. (i + unit) * v = i * v + (v - 1) * unit + unit
  OBVIOUS
<1>3. (v - 1) * w <= (v - 1) * unit
  <2>1. v - 1 \in Nat
    OBVIOUS
  <2> QED
    BY <2>1, Monotone
<1>4. {i * v, (v - 1) * w, (v - 1) * unit, block * depth} \subseteq Int
  OBVIOUS
<1> QED
  BY <1>1, <1>2, <1>3, <1>4

(* The rows and columns that kernel_16x6 reads past the valid ones of a     *)
(* panel lie within the static buffers.                                     *)
THEOREM ReadsStayInside == Spec => []KernelReadsInside
<1>1. IInv => KernelReadsInside
  <2>1. SUFFICES ASSUME IInv, region = "multiply", NEW t \in Threads, busy[t] # Idle
                 PROVE  /\ PanelStart(busy[t].start) + (ValidKC - 1) * ValidMR(busy[t].start) + MR <= MC * KC
                        /\ PanelStart(busy[t].jr) + (ValidKC - 1) * ValidNR(busy[t].jr) + NR <= KC * NC
    BY DEF KernelReadsInside
  <2> DEFINE s == busy[t].start
             j == busy[t].jr
             v == ValidKC
             w == ValidMR(s)
             u == ValidNR(j)
  <2>2. TileOrigin(s, j)
    BY <2>1, WorkerTile
  <2>3. /\ {MR, NR, MC, NC, KC} \subseteq Nat \ {0} /\ v \in 1..KC
    BY <2>1, Sizes DEF IInv
  <2>4. s \in Nat /\ j \in Nat /\ w \in 1..MR /\ u \in 1..NR /\ s + MR <= MC /\ j + NR <= NC
    BY <2>1, <2>2, TileSizes DEF IInv
  <2>5. PanelStart(s) = s * v /\ PanelStart(j) = j * v
    BY DEF PanelStart
  <2> HIDE DEF s, j, v, w, u
  <2>6. s * v + (v - 1) * w + MR <= MC * KC
    BY <2>3, <2>4, ReadsOfPanel
  <2>7. j * v + (v - 1) * u + NR <= NC * KC
    BY <2>3, <2>4, ReadsOfPanel
  <2>8. NC * KC = KC * NC
    BY <2>3
  <2> QED
    BY <2>5, <2>6, <2>7, <2>8 DEF s, j, v, w, u
<1> QED
  BY <1>1, IInvIsInvariant, PTL

-----------------------------------------------------------------------------
(* The weights: mask, clamp and softmax.                                    *)

\* What is left of a score once it is masked and clamped.
Finite == (-Small .. Small) \cup {Huge, -Huge}

-----------------------------------------------------------------------------
(* Arithmetic of the floats.                                                *)

LEMMA FloatFacts ==
  /\ Small \in Nat /\ Huge \in Nat /\ Infinity \in Nat /\ NaN \in Nat
  /\ 0 < Small /\ 4 * Small < Huge /\ 3 * Huge < Infinity /\ 3 * Infinity < NaN
  BY FloatAssumption

LEMMA MaskedIsFinite ==
  ASSUME NEW x \in Score, NEW m \in {0, -Huge}
  PROVE  Clamped(Plus(x, m)) \in Finite
<1>1. x \in Int /\ m \in Int /\ x # NaN /\ m # NaN
  BY FloatFacts DEF Score
<1>2. m # Infinity /\ m # -Infinity
  BY FloatFacts
<1>3. CASE x = Infinity \/ x = -Infinity
  <2>1. Plus(x, m) \in {Infinity, -Infinity}
    BY <1>1, <1>2, <1>3, FloatFacts DEF Plus
  <2> QED
    BY <2>1 DEF Clamped, Finite
<1>4. CASE x # Infinity /\ x # -Infinity
  <2>1. Plus(x, m) = Rounded(x + m)
    BY <1>1, <1>2, <1>4 DEF Plus
  <2>2. Clamped(Rounded(x + m)) \in Finite
    BY <1>1, <1>4, FloatFacts DEF Score, Rounded, Near, Clamped, Finite
  <2> QED
    BY <2>1, <2>2
<1> QED
  BY <1>3, <1>4

(* Behind the mask every score but the largest float is the lowest float.   *)
LEMMA MaskedFuture ==
  ASSUME NEW x \in Score, x # Huge
  PROVE  Clamped(Plus(x, -Huge)) = -Huge
<1>1. CASE x = Infinity \/ x = -Infinity
  <2>1. Plus(x, -Huge) \in {Infinity, -Infinity}
    BY <1>1, FloatFacts DEF Plus
  <2> QED
    BY <2>1 DEF Clamped
<1>2. CASE x # Infinity /\ x # -Infinity
  <2>1. Plus(x, -Huge) = Rounded(x - Huge)
    BY <1>2, FloatFacts DEF Plus, Score
  <2>2. Clamped(Rounded(x - Huge)) = -Huge
    BY <1>2, FloatFacts DEF Score, Rounded, Near, Clamped
  <2> QED
    BY <2>1, <2>2
<1> QED
  BY <1>1, <1>2

(* In front of the mask an ordinary score stays what it is.                 *)
LEMMA MaskedPast ==
  ASSUME NEW x \in -Small .. Small
  PROVE  Clamped(Plus(x, 0)) = x
<1>1. Plus(x, 0) = Rounded(x)
  BY FloatFacts DEF Plus
<1>2. Clamped(Rounded(x)) = x
  BY FloatFacts DEF Rounded, Near, Clamped
<1> QED
  BY <1>1, <1>2

(* The difference of two finite scores may overflow but is never NaN.       *)
LEMMA DifferenceIsNumber ==
  ASSUME NEW x \in Finite, NEW y \in Finite
  PROVE  /\ Plus(x, Negated(y)) = Rounded(x - y)
         /\ Rounded(x - y) \in Int
         /\ Rounded(x - y) # NaN
<1>1. x \in Int /\ y \in Int /\ -Huge <= x /\ x <= Huge /\ -Huge <= y /\ y <= Huge
  BY FloatFacts DEF Finite
<1>2. Plus(x, Negated(y)) = Rounded(x - y)
  BY <1>1, FloatFacts DEF Plus, Negated
<1>3. Rounded(x - y) \in Int /\ Rounded(x - y) # NaN
  BY <1>1, FloatFacts DEF Rounded, Near
<1> QED
  BY <1>2, <1>3

LEMMA ExpFacts ==
  ASSUME NEW x \in Finite, NEW y \in Finite
  PROVE  /\ Exp(Plus(x, Negated(y))) # "nan"
         /\ x = y => Exp(Plus(x, Negated(y))) = "positive"
         /\ x = -Huge /\ y >= -Small => Exp(Plus(x, Negated(y))) = None
<1>1. x \in Int /\ y \in Int
  BY FloatFacts DEF Finite
<1>2. Exp(Plus(x, Negated(y))) # "nan"
  BY DifferenceIsNumber DEF Exp, None
<1>3. x = y => Exp(Plus(x, Negated(y))) = "positive"
  <2>1. Rounded(0) = 0
    BY FloatFacts DEF Rounded, Near
  <2> QED
    BY <1>1, <2>1, DifferenceIsNumber, FloatFacts DEF Exp
<1>4. ASSUME x = -Huge, y >= -Small
      PROVE  Exp(Plus(x, Negated(y))) = None
  <2>1. Rounded(x - y) \in {-Huge, -Infinity}
    BY <1>4, FloatFacts DEF Finite, Rounded, Near
  <2> QED
    BY <2>1, DifferenceIsNumber, FloatFacts DEF Exp
<1> QED
  BY <1>2, <1>3, <1>4

-----------------------------------------------------------------------------
(* The first pass of softmax finds the largest score of the row.            *)

LEMMA MaxOfIsLargest ==
  ASSUME past_sqlen \in Nat, sqlen \in Nat \ {0}, NEW row \in [Keys -> Finite]
  PROVE  /\ \E k \in Keys : MaxOf(row) = row[k]
         /\ \A k \in Keys : row[k] <= MaxOf(row)
<1> DEFINE n == past_sqlen + sqlen - 1
           step == [k \in 1..n |-> [x \in Finite |-> Larger(x, row[k])]]
<1>1. n \in Nat /\ Keys = 0..n /\ 0 \in Keys
  BY DEF Keys
<1>2. Finite \subseteq Int /\ NaN \notin Finite
  BY FloatFacts DEF Finite
<1>3. PICK f : Recursion(f, row[0], step, n)
  <2> HIDE DEF step, n
  <2> QED
    BY <1>1, RecursionExists
<1>4. f \in [0..n -> Finite]
  <2>1. step \in [1..n -> [Finite -> Finite]]
    <3> SUFFICES ASSUME NEW k \in 1..n, NEW x \in Finite PROVE Larger(x, row[k]) \in Finite
      OBVIOUS
    <3> QED
      BY <1>1 DEF Larger
  <2>2. row[0] \in Finite
    BY <1>1
  <2> HIDE DEF step, n
  <2> QED
    BY <1>1, <1>3, <2>1, <2>2, RecursionIsTyped
<1>5. f = [k \in Keys |-> IF k = 0 THEN row[0] ELSE Larger(f[k - 1], row[k])]
  <2>1. ASSUME NEW k \in 0..n, k # 0 PROVE step[k][f[k - 1]] = Larger(f[k - 1], row[k])
    <3>1. k \in 1..n /\ k - 1 \in 0..n
      <4> HIDE DEF n
      <4> QED
        BY <1>1, <2>1
    <3>2. f[k - 1] \in Finite
      BY <1>4, <3>1
    <3> QED
      BY <3>1, <3>2
  <2> HIDE DEF step, n
  <2> QED
    BY <1>1, <1>3, <2>1 DEF Recursion
<1> DEFINE max_val == CHOOSE g : g = [k \in Keys |-> IF k = 0 THEN row[0] ELSE Larger(g[k - 1], row[k])]
<1>6. max_val = [k \in Keys |-> IF k = 0 THEN row[0] ELSE Larger(max_val[k - 1], row[k])]
  BY <1>5, Zenon
<1>7. MaxOf(row) = max_val[n]
  BY DEF MaxOf
<1> HIDE DEF max_val, step, n
<1>8. ASSUME NEW k \in 0..n
      PROVE  max_val[k] = IF k = 0 THEN row[0] ELSE Larger(max_val[k - 1], row[k])
  BY <1>1, <1>6
\* The running maximum bounds the scores seen so far and is one of them.
<1> DEFINE S == {k \in Nat : k <= n =>
                   /\ \E j \in 0..k : max_val[k] = row[j]
                   /\ \A j \in 0..k : row[j] <= max_val[k]}
<1>9. 0 \in S
  <2>1. max_val[0] = row[0] /\ row[0] \in Int
    BY <1>1, <1>2, <1>8
  <2>2. \A j \in 0..0 : j = 0
    OBVIOUS
  <2> QED
    BY <2>1, <2>2
<1>10. ASSUME NEW k \in Nat, k \in S PROVE k + 1 \in S
  <2> SUFFICES ASSUME k + 1 <= n
               PROVE  /\ \E j \in 0..(k + 1) : max_val[k + 1] = row[j]
                      /\ \A j \in 0..(k + 1) : row[j] <= max_val[k + 1]
    OBVIOUS
  <2>1. PICK i \in 0..k : max_val[k] = row[i]
    BY <1>1, <1>10
  <2>2. \A j \in 0..k : row[j] <= max_val[k]
    BY <1>1, <1>10
  <2>3. /\ i \in Keys /\ k + 1 \in Keys
        /\ \A j \in 0..(k + 1) : j \in Keys
        /\ \A j \in Keys : row[j] \in Finite /\ row[j] \in Int
    <3>1. \A j \in 0..(k + 1) : j \in 0..n
      BY <1>1
    <3>2. i \in 0..n /\ k + 1 \in 0..n
      BY <1>1
    <3> HIDE DEF S
    <3> QED
      BY <1>1, <1>2, <3>1, <3>2
  <2>4. PICK m \in 0..n : m = k + 1 /\ m # 0 /\ m - 1 = k
    BY <1>1
  <2>5. max_val[k + 1] = Larger(max_val[k], row[k + 1])
    BY <1>8, <2>4, Zenon
  <2>6. max_val[k + 1] = IF row[i] < row[k + 1] THEN row[k + 1] ELSE row[i]
    BY <1>2, <2>1, <2>3, <2>5 DEF Larger
  <2>7. \A j \in 0..(k + 1) : j \in 0..k \/ j = k + 1
    OBVIOUS
  <2> HIDE DEF n, S
  <2>8. \E j \in 0..(k + 1) : max_val[k + 1] = row[j]
    <3>1. i \in 0..(k + 1) /\ k + 1 \in 0..(k + 1)
      OBVIOUS
    <3> QED
      BY <2>6, <3>1
  <2>9. ASSUME NEW j \in 0..(k + 1) PROVE row[j] <= max_val[k + 1]
    <3>1. row[j] \in Int /\ row[i] \in Int /\ row[k + 1] \in Int
      BY <1>2, <2>3
    <3>2. CASE j = k + 1
      BY <2>6, <3>1, <3>2
    <3>3. CASE j \in 0..k
      <4>1. row[j] <= row[i]
        BY <2>1, <2>2, <3>3
      <4> QED
        BY <2>6, <3>1, <4>1
    <3> QED
      BY <2>7, <3>2, <3>3
  <2> QED
    BY <2>8, <2>9
<1>11. n \in S
  <2> HIDE DEF S, n
  <2> QED
    BY <1>1, <1>9, <1>10, SetInduction
<1> QED
  BY <1>1, <1>7, <1>11

(* The probabilities of a row of finite scores: nothing is lost to a NaN or *)
(* to a sum of zeros.                                                       *)
LEMMA SoftmaxFacts ==
  ASSUME past_sqlen \in Nat, sqlen \in Nat \ {0}, NEW row \in [Keys -> Finite]
  PROVE  \A k \in Keys :
           /\ Softmax(row)[k] = Exp(Plus(row[k], Negated(MaxOf(row))))
           /\ Softmax(row)[k] # "nan"
<1> DEFINE exps == [k \in Keys |-> Exp(Plus(row[k], Negated(MaxOf(row))))]
           lost == (\E k \in Keys : exps[k] = "nan") \/ (\A k \in Keys : exps[k] = None)
<1>1. PICK m \in Keys : MaxOf(row) = row[m]
  BY MaxOfIsLargest
<1>2. \A k \in Keys : row[k] \in Finite
  OBVIOUS
<1>3. \A k \in Keys : exps[k] # "nan"
  BY <1>1, <1>2, ExpFacts
<1>4. exps[m] = "positive" /\ exps[m] # None
  BY <1>1, <1>2, ExpFacts DEF None
<1>5. ~lost
  BY <1>3, <1>4
<1>6. Softmax(row) = [k \in Keys |-> exps[k]]
  <2>1. Softmax(row) = [k \in Keys |-> IF lost THEN "nan" ELSE exps[k]]
    BY DEF Softmax
  <2> HIDE DEF exps, lost
  <2> QED
    BY <1>5, <2>1
<1> QED
  BY <1>3, <1>6

-----------------------------------------------------------------------------
(* The inductive invariant: what each step has made of the raw scores.      *)

Weight(r, j) == Clamped(Plus(raw[r][j], Mask(r[2], j)))

Computed ==
  /\ past_sqlen \in Past /\ sqlen \in Sqlen
  /\ pc \in {"idle", "mask", "clamp", "softmax"}
  /\ pc # "softmax" => DOMAIN attn_probs = {}
  /\ pc # "idle" => raw \in [Rows -> [Keys -> Score]]
  /\ pc = "mask" => attn_weights = raw
  /\ pc = "clamp" => attn_weights = [r \in Rows |-> [j \in Keys |-> Plus(raw[r][j], Mask(r[2], j))]]
  /\ pc = "softmax" =>
       /\ attn_weights = [r \in Rows |-> [j \in Keys |-> Weight(r, j)]]
       /\ DOMAIN attn_probs \subseteq Rows
       /\ \A r \in DOMAIN attn_probs : attn_probs[r] = Softmax(attn_weights[r])

LEMMA SizeFacts ==
  ASSUME Computed
  PROVE  past_sqlen \in Nat /\ sqlen \in Nat \ {0}
  BY FloatAssumption DEF Computed

\* What depends only on the lengths of the call does not change within it.
LEMMA SameCall ==
  ASSUME UNCHANGED <<past_sqlen, sqlen>>
  PROVE  /\ Rows' = Rows /\ Keys' = Keys
         /\ \A i, j : Mask(i, j)' = Mask(i, j)
         /\ \A row : Softmax(row)' = Softmax(row)
<1>1. Rows' = Rows /\ Keys' = Keys
  BY DEF Rows, Keys
<1>2. \A i, j : Mask(i, j)' = Mask(i, j)
  BY DEF Mask
<1>3. ASSUME NEW row PROVE MaxOf(row)' = MaxOf(row)
  <2>1. MaxOf(row)' = (CHOOSE g : g = [k \in Keys' |-> IF k = 0 THEN row[0] ELSE Larger(g[k - 1], row[k])])[past_sqlen' + sqlen' - 1]
    BY DEF MaxOf
  <2> QED
    BY <1>1, <2>1 DEF MaxOf
<1>4. ASSUME NEW row PROVE Softmax(row)' = Softmax(row)
  BY <1>1, <1>3 DEF Softmax
<1> QED
  BY <1>1, <1>2, <1>4

LEMMA InitComputed == WeightsInit => Computed
  BY DEF WeightsInit, Computed

LEMMA QkBmmComputes == Computed /\ QkBmm => Computed'
<1> SUFFICES ASSUME Computed, QkBmm PROVE Computed'
  OBVIOUS
<1>1. UNCHANGED <<past_sqlen, sqlen, attn_probs>> /\ pc = "idle" /\ pc' = "mask"
      /\ raw' = attn_weights'
  BY DEF QkBmm
<1>2. PICK even \in ScoreRows(past_sqlen + sqlen), odd \in ScoreRows(past_sqlen + sqlen) :
        attn_weights' = [r \in Rows |->
          [j \in Keys |-> IF (r[1] + r[2]) % 2 = 0 THEN even[j + 1] ELSE odd[j + 1]]]
  BY DEF QkBmm
<1>3. even \in [1..(past_sqlen + sqlen) -> Score] /\ odd \in [1..(past_sqlen + sqlen) -> Score]
  <2>1. past_sqlen + sqlen \in {p + s : p \in Past, s \in Sqlen}
    BY DEF Computed
  <2> QED
    BY <2>1, ScoreAssumption
<1>4. \A j \in Keys : j + 1 \in 1..(past_sqlen + sqlen)
  BY SizeFacts DEF Keys
<1>5. \A j \in Keys : even[j + 1] \in Score /\ odd[j + 1] \in Score
  BY <1>3, <1>4
<1>6. attn_weights' \in [Rows -> [Keys -> Score]]
  BY <1>2, <1>5
<1>7. Rows' = Rows /\ Keys' = Keys
  BY <1>1 DEF Rows, Keys
<1> QED
  BY <1>1, <1>6, <1>7 DEF Computed

LEMMA BatchAddComputes == Computed /\ BatchAdd => Computed'
<1> SUFFICES ASSUME Computed, BatchAdd PROVE Computed'
  OBVIOUS
<1>1. UNCHANGED <<past_sqlen, sqlen, raw, attn_probs>> /\ pc = "mask" /\ pc' = "clamp"
      /\ attn_weights = raw
  BY DEF BatchAdd, Computed
<1>2. Rows' = Rows /\ Keys' = Keys /\ \A i, j : Mask(i, j)' = Mask(i, j)
  BY <1>1 DEF Rows, Keys, Mask
<1>3. attn_weights' = [r \in Rows |-> [j \in Keys |-> Plus(raw[r][j], Mask(r[2], j))]]
  BY <1>1 DEF BatchAdd, Masked
<1> QED
  BY <1>1, <1>2, <1>3 DEF Computed, Mask

LEMMA ClampComputes == Computed /\ ClampInfinities => Computed'
<1> SUFFICES ASSUME Computed, ClampInfinities PROVE Computed'
  OBVIOUS
<1>1. UNCHANGED <<past_sqlen, sqlen, raw, attn_probs>> /\ pc = "clamp" /\ pc' = "softmax"
      /\ attn_weights = [r \in Rows |-> [j \in Keys |-> Plus(raw[r][j], Mask(r[2], j))]]
      /\ DOMAIN attn_probs = {}
  BY DEF ClampInfinities, Computed
<1>2. Rows' = Rows /\ Keys' = Keys
  BY <1>1 DEF Rows, Keys
<1>3. attn_weights' = [r \in Rows |-> [j \in Keys |-> Weight(r, j)]]
  BY <1>1 DEF ClampInfinities, Weight
<1>4. attn_weights' = [r \in Rows |-> [j \in Keys |-> Weight(r, j)']]
  BY <1>1, <1>3 DEF Weight, Mask
<1> QED
  BY <1>1, <1>2, <1>4 DEF Computed

LEMMA SoftmaxRowComputes ==
  ASSUME Computed, NEW r \in Rows, SoftmaxRow(r)
  PROVE  Computed'
<1>1. /\ UNCHANGED <<pc, past_sqlen, sqlen, raw, attn_weights>> /\ pc = "softmax"
      /\ attn_probs' = [s \in DOMAIN attn_probs \cup {r} |->
                          IF s = r THEN Softmax(attn_weights[r]) ELSE attn_probs[s]]
  BY DEF SoftmaxRow
<1>2. Rows' = Rows /\ Keys' = Keys
  BY <1>1 DEF Rows, Keys
<1>3. \A row : Softmax(row)' = Softmax(row)
  BY <1>1, SameCall
<1>4. attn_weights' = [s \in Rows |-> [j \in Keys |-> Weight(s, j)']]
  BY <1>1 DEF Computed, Weight, Mask
<1>5. /\ DOMAIN attn_probs' \subseteq Rows
      /\ \A s \in DOMAIN attn_probs' : attn_probs'[s] = Softmax(attn_weights[s])
  BY <1>1 DEF Computed
<1>6. \A s \in DOMAIN attn_probs' : attn_probs'[s] = Softmax(attn_weights[s])'
  BY <1>1, <1>3, <1>5
<1> QED
  BY <1>1, <1>2, <1>4, <1>5, <1>6 DEF Computed

LEMMA NextComputes == Computed /\ [WeightsNext]_weightsVars => Computed'
<1> SUFFICES ASSUME Computed, [WeightsNext]_weightsVars PROVE Computed'
  OBVIOUS
<1>1. CASE UNCHANGED weightsVars
  <2>1. UNCHANGED <<pc, past_sqlen, sqlen, raw, attn_weights, attn_probs>>
    BY <1>1 DEF weightsVars
  <2> QED
    BY <2>1, SameCall DEF Computed, Weight
<1> QED
  BY <1>1, QkBmmComputes, BatchAddComputes, ClampComputes, SoftmaxRowComputes DEF WeightsNext

LEMMA SpecComputes == WeightsSpec => []Computed
  BY InitComputed, NextComputes, PTL DEF WeightsSpec

-----------------------------------------------------------------------------
(* The rows that softmax has done.                                          *)
LEMMA RowFacts ==
  ASSUME Computed, NEW r \in DOMAIN attn_probs
  PROVE  /\ r \in Rows
         /\ attn_weights[r] \in [Keys -> Finite]
         /\ \A j \in Keys : attn_weights[r][j] = Weight(r, j) /\ raw[r][j] \in Score
         /\ attn_probs[r] = Softmax(attn_weights[r])
<1>1. /\ pc = "softmax" /\ r \in Rows
      /\ raw \in [Rows -> [Keys -> Score]]
      /\ attn_weights = [s \in Rows |-> [j \in Keys |-> Weight(s, j)]]
      /\ attn_probs[r] = Softmax(attn_weights[r])
  BY DEF Computed
<1>2. \A j \in Keys : raw[r][j] \in Score /\ Mask(r[2], j) \in {0, -Huge}
  BY <1>1 DEF Mask
<1>3. \A j \in Keys : Weight(r, j) \in Finite
  BY <1>2, MaskedIsFinite DEF Weight
<1> QED
  BY <1>1, <1>2, <1>3

(* Whatever scores the product yields, finite or infinite, softmax makes no *)
(* NaN of them (QwenAttention.cc:158-182): the largest score of a row       *)
(* always contributes a positive term to the sum.                           *)
THEOREM NeverNaN == WeightsSpec => []NoNaN
<1>1. ASSUME Computed PROVE NoNaN
  <2> SUFFICES ASSUME NEW r \in DOMAIN attn_probs, NEW j \in Keys
               PROVE  attn_probs[r][j] # "nan"
    BY DEF NoNaN
  <2> QED
    BY <1>1, SizeFacts, RowFacts, SoftmaxFacts
<1> QED
  BY <1>1, SpecComputes, PTL

(* A key behind the query has probability zero, exactly, whatever its score *)
(* but the largest float, if the query has an ordinary score to look at     *)
(* (QwenAttention.cc:150-182): the mask absorbs the score, and exp of the   *)
(* difference to the row's maximum underflows.                              *)
THEOREM FutureStaysHidden == WeightsSpec => []FutureIsHidden
<1>1. ASSUME Computed PROVE FutureIsHidden
  <2> SUFFICES ASSUME NEW r \in DOMAIN attn_probs,
                      NEW i \in 0..(past_sqlen + r[2]), raw[r][i] \in -Small .. Small,
                      NEW j \in Keys, j > past_sqlen + r[2], raw[r][j] # Huge
               PROVE  attn_probs[r][j] = None
    BY DEF FutureIsHidden
  <2> DEFINE row == attn_weights[r]
  <2>1. /\ row \in [Keys -> Finite] /\ r \in Rows
        /\ \A k \in Keys : row[k] = Weight(r, k) /\ raw[r][k] \in Score
        /\ attn_probs[r] = Softmax(row)
    BY <1>1, RowFacts
  <2>2. past_sqlen \in Nat /\ sqlen \in Nat \ {0} /\ r[2] \in 0..(sqlen - 1)
    BY <1>1, <2>1, SizeFacts DEF Rows
  <2>3. i \in Keys /\ i <= r[2] + past_sqlen /\ ~(j <= r[2] + past_sqlen)
    BY <2>2 DEF Keys
  <2>4. row[i] = raw[r][i]
    BY <2>1, <2>3, MaskedPast DEF Weight, Mask
  <2>5. row[j] = -Huge
    BY <2>1, <2>3, MaskedFuture DEF Weight, Mask
  <2> HIDE DEF row
  <2>6. PICK m \in Keys : MaxOf(row) = row[m] /\ \A k \in Keys : row[k] <= MaxOf(row)
    BY <2>1, <2>2, MaxOfIsLargest
  <2>7. MaxOf(row) \in Finite /\ MaxOf(row) >= -Small
    <3>1. row[i] \in -Small .. Small /\ row[i] <= MaxOf(row) /\ row[m] \in Finite
      BY <2>1, <2>3, <2>4, <2>6
    <3>2. MaxOf(row) \in Int
      BY <2>6, <3>1, FloatFacts DEF Finite
    <3> QED
      BY <2>6, <3>1, <3>2, FloatFacts
  <2>8. row[j] \in Finite
    BY <2>1
  <2>9. Exp(Plus(row[j], Negated(MaxOf(row)))) = None
    BY <2>5, <2>7, <2>8, ExpFacts
  <2>10. Softmax(row)[j] = Exp(Plus(row[j], Negated(MaxOf(row))))
    BY <2>1, <2>2, SoftmaxFacts
  <2> QED
    BY <2>1, <2>9, <2>10
<1> QED
  BY <1>1, SpecComputes, PTL
=============================================================================
