---------------------------- MODULE Foundations ----------------------------
(***************************************************************************)
(* Facts the proofs of several components share.  Induction over the       *)
(* natural numbers is stated for sets rather than for predicates: a set in *)
(* a hypothesis is an ordinary value, which the provers can instantiate.   *)
(* It rests on the well-foundedness of < alone.                            *)
(***************************************************************************)
EXTENDS Integers, WellFoundedInduction, TLAPS

Before == {ss \in Nat \X Nat : ss[1] < ss[2]}

LEMMA BeforeIsWellFounded == IsWellFoundedOn(Before, Nat)
  BY NatLessThanWellFounded DEF OpToRel, Before

(* Every non-empty set of natural numbers has a least element.              *)
LEMMA LeastElement ==
  ASSUME NEW S \in SUBSET Nat, S # {}
  PROVE  \E m \in S : \A k \in S : m <= k
<1>1. PICK m \in S : \A k \in S : <<k, m>> \notin Before
  BY BeforeIsWellFounded, WFMin
<1>2. \A k \in S : ~(k < m)
  BY <1>1 DEF Before
<1> QED
  BY <1>2

(* Every non-empty set of numbers up to n has a greatest element.           *)
LEMMA GreatestElement ==
  ASSUME NEW n \in Nat, NEW S \in SUBSET (0..n), S # {}
  PROVE  \E m \in S : \A k \in S : k <= m
<1> DEFINE T == {j \in 0..n : n - j \in S}
<1>1. \A k \in S : k \in 0..n /\ n - k \in T
  <2> SUFFICES ASSUME NEW k \in S PROVE n - k \in 0..n /\ n - (n - k) \in S
    OBVIOUS
  <2>1. n - (n - k) = k
    OBVIOUS
  <2> QED
    BY <2>1
<1>2. T \in SUBSET Nat /\ T # {}
  <2>1. PICK k \in S : TRUE
    OBVIOUS
  <2>2. n - k \in T
    BY <1>1, <2>1
  <2>3. T \in SUBSET Nat
    OBVIOUS
  <2> HIDE DEF T
  <2> QED
    BY <2>2, <2>3
<1>3. PICK j \in T : \A i \in T : j <= i
  BY <1>2, LeastElement
<1>4. ASSUME NEW k \in S PROVE k <= n - j
  BY <1>1, <1>3
<1> QED
  BY <1>3, <1>4

(* A set that contains 0 and the successor of each of its numbers contains  *)
(* all of them.                                                             *)
LEMMA SetInduction ==
  ASSUME NEW S, 0 \in S, \A n \in Nat : n \in S => n + 1 \in S
  PROVE  Nat \subseteq S
<1> SUFFICES ASSUME Nat \ S # {} PROVE FALSE
  OBVIOUS
<1>1. PICK m \in Nat \ S : \A k \in Nat \ S : m <= k
  BY LeastElement
<1>2. m # 0 /\ m - 1 \in Nat /\ m - 1 \in S
  BY <1>1
<1> QED
  BY <1>1, <1>2

(* Of finitely many integers one is the greatest.                           *)
LEMMA GreatestValue ==
  ASSUME NEW n \in Nat, NEW f, \A k \in 0..n : f[k] \in Int
  PROVE  \E m \in 0..n : \A k \in 0..n : f[k] <= f[m]
<1> DEFINE S == {j \in Nat : j <= n => \E m \in 0..j : \A k \in 0..j : f[k] <= f[m]}
<1>1. 0 \in S
  <2>1. 0 \in 0..0 /\ (\A k \in 0..0 : k = 0) /\ f[0] \in Int
    OBVIOUS
  <2> QED
    BY <2>1
<1>2. ASSUME NEW j \in Nat, j \in S PROVE j + 1 \in S
  <2> SUFFICES ASSUME j + 1 <= n
               PROVE  \E m \in 0..(j + 1) : \A k \in 0..(j + 1) : f[k] <= f[m]
    OBVIOUS
  <2>1. PICK m \in 0..j : \A k \in 0..j : f[k] <= f[m]
    BY <1>2
  <2>2. f[m] \in Int /\ f[j + 1] \in Int /\ m \in 0..(j + 1) /\ j + 1 \in 0..(j + 1)
    OBVIOUS
  <2>3. \A k \in 0..(j + 1) : k \in 0..j \/ k = j + 1
    OBVIOUS
  <2>4. \A k \in 0..(j + 1) : f[k] \in Int
    OBVIOUS
  <2>5. CASE f[j + 1] <= f[m]
    BY <2>1, <2>2, <2>3, <2>5
  <2>6. CASE ~(f[j + 1] <= f[m])
    <3>1. \A k \in 0..(j + 1) : f[k] <= f[j + 1]
      BY <2>1, <2>2, <2>3, <2>4, <2>6
    <3> QED
      BY <2>2, <3>1
  <2> QED
    BY <2>5, <2>6
<1>3. Nat \subseteq S
  <2> HIDE DEF S
  <2> QED
    BY <1>1, <1>2, SetInduction
<1>4. n \in S
  BY <1>3
<1> QED
  BY <1>4

-----------------------------------------------------------------------------
(* Recursion over 0..n.  The step from one value to the next is a function, *)
(* so that it, too, is an ordinary value.                                   *)
Recursion(f, a, step, n) ==
  f = [k \in 0..n |-> IF k = 0 THEN a ELSE step[k][f[k - 1]]]

LEMMA RecursionExtends ==
  ASSUME NEW a, NEW step, NEW n \in Nat, NEW g, Recursion(g, a, step, n)
  PROVE  \E h : Recursion(h, a, step, n + 1)
<1> DEFINE h == [k \in 0..(n + 1) |-> IF k = n + 1 THEN step[n + 1][g[n]] ELSE g[k]]
<1>1. ASSUME NEW k \in 0..n PROVE g[k] = IF k = 0 THEN a ELSE step[k][g[k - 1]]
  BY DEF Recursion
<1>2. ASSUME NEW k \in 0..(n + 1) PROVE h[k] = IF k = 0 THEN a ELSE step[k][h[k - 1]]
  <2>1. CASE k = 0
    <3>1. h[0] = g[0] /\ g[0] = a
      BY <1>1
    <3> QED
      BY <2>1, <3>1
  <2>2. CASE k = n + 1
    <3>1. k # 0 /\ k - 1 = n /\ n \in 0..(n + 1) /\ n # n + 1
      BY <2>2
    <3> QED
      BY <2>2, <3>1
  <2>3. CASE k # 0 /\ k # n + 1
    <3>1. k \in 0..n /\ k - 1 # n + 1 /\ k - 1 \in 0..(n + 1)
      BY <2>3
    <3>2. h[k] = g[k] /\ h[k - 1] = g[k - 1]
      BY <2>3, <3>1
    <3> HIDE DEF h
    <3> QED
      BY <1>1, <2>3, <3>1, <3>2
  <2> QED
    BY <2>1, <2>2, <2>3
<1>3. h = [k \in 0..(n + 1) |-> h[k]]
  OBVIOUS
<1> HIDE DEF h
<1>4. Recursion(h, a, step, n + 1)
  BY <1>2, <1>3, Zenon DEF Recursion
<1> QED
  BY <1>4

(* Every recursive definition over 0..n has a solution.                     *)
LEMMA RecursionExists ==
  ASSUME NEW a, NEW step, NEW n \in Nat
  PROVE  \E f : Recursion(f, a, step, n)
<1> DEFINE S == {m \in Nat : \E f : Recursion(f, a, step, m)}
<1>1. 0 \in S
  <2> DEFINE f == [k \in 0..0 |-> a]
  <2>1. \A k \in 0..0 : k = 0
    OBVIOUS
  <2>2. Recursion(f, a, step, 0)
    BY <2>1 DEF Recursion
  <2> QED
    BY <2>2
<1>2. \A m \in Nat : m \in S => m + 1 \in S
  BY RecursionExtends
<1> HIDE DEF S
<1>3. n \in S
  BY <1>1, <1>2, SetInduction
<1> QED
  BY <1>3 DEF S

(* Its values stay in any set that the steps do not leave.                  *)
LEMMA RecursionIsTyped ==
  ASSUME NEW T, NEW a \in T, NEW n \in Nat, NEW step \in [1..n -> [T -> T]],
         NEW f, Recursion(f, a, step, n)
  PROVE  f \in [0..n -> T]
<1> DEFINE S == {k \in Nat : k <= n => f[k] \in T}
<1>1. ASSUME NEW k \in 0..n PROVE f[k] = IF k = 0 THEN a ELSE step[k][f[k - 1]]
  BY DEF Recursion
<1>2. 0 \in S
  BY <1>1
<1>3. ASSUME NEW k \in Nat, k \in S PROVE k + 1 \in S
  <2> SUFFICES ASSUME k + 1 <= n PROVE f[k + 1] \in T
    OBVIOUS
  <2>1. k + 1 \in 0..n /\ k + 1 # 0 /\ k + 1 - 1 = k /\ k + 1 \in 1..n /\ f[k] \in T
    BY <1>3
  <2>2. f[k + 1] = step[k + 1][f[k]]
    BY <1>1, <2>1
  <2> QED
    BY <2>1, <2>2
<1>4. Nat \subseteq S
  <2> HIDE DEF S
  <2> QED
    BY <1>2, <1>3, SetInduction
<1>5. \A k \in 0..n : f[k] \in T
  BY <1>4
<1>6. f = [k \in 0..n |-> f[k]]
  BY DEF Recursion
<1> QED
  BY <1>5, <1>6

(* A recursion starts where it should.                                      *)
LEMMA RecursionStarts ==
  ASSUME NEW a, NEW step, NEW n \in Nat, NEW f, Recursion(f, a, step, n)
  PROVE  f[0] = a
<1>1. ASSUME NEW k \in 0..n PROVE f[k] = IF k = 0 THEN a ELSE step[k][f[k - 1]]
  BY DEF Recursion
<1>2. 0 \in 0..n
  OBVIOUS
<1> QED
  BY <1>1, <1>2

(* Two recursions that start and step alike agree as far as they do.        *)
AgreeOn(S, f, g) == \A k \in S : f[k] = g[k]

LEMMA RecursionAgrees ==
  ASSUME NEW a, NEW n \in Nat, NEW m \in Nat, n <= m,
         NEW step, NEW f, Recursion(f, a, step, n),
         NEW other, NEW g, Recursion(g, a, other, m),
         AgreeOn(1..n, step, other)
  PROVE  AgreeOn(0..n, f, g)
<1> DEFINE S == {k \in Nat : k <= n => f[k] = g[k]}
<1>1. ASSUME NEW k \in 0..n PROVE f[k] = IF k = 0 THEN a ELSE step[k][f[k - 1]]
  BY DEF Recursion
<1>2. ASSUME NEW k \in 0..m PROVE g[k] = IF k = 0 THEN a ELSE other[k][g[k - 1]]
  BY DEF Recursion
<1>3. 0 \in S
  <2>1. 0 \in 0..n /\ 0 \in 0..m
    OBVIOUS
  <2> QED
    BY <1>1, <1>2, <2>1
<1>4. ASSUME NEW k \in Nat, k \in S PROVE k + 1 \in S
  <2> SUFFICES ASSUME k + 1 <= n PROVE f[k + 1] = g[k + 1]
    OBVIOUS
  <2>1. /\ k + 1 \in 0..n /\ k + 1 \in 0..m /\ k + 1 \in 1..n
        /\ k + 1 # 0 /\ k + 1 - 1 = k /\ f[k] = g[k]
    BY <1>4
  <2>2. f[k + 1] = step[k + 1][f[k]]
    BY <1>1, <2>1
  <2>3. g[k + 1] = other[k + 1][g[k]]
    BY <1>2, <2>1
  <2> QED
    BY <2>1, <2>2, <2>3 DEF AgreeOn
<1>5. Nat \subseteq S
  <2> HIDE DEF S
  <2> QED
    BY <1>3, <1>4, SetInduction
<1> QED
  BY <1>5 DEF AgreeOn

-----------------------------------------------------------------------------
(* Blocks, panels and row-major addresses                                   *)

(* Products of natural numbers grow with their factors.                     *)
LEMMA Monotone ==
  ASSUME NEW a \in Nat, NEW b \in Nat, NEW c \in Nat, NEW d \in Nat, a <= b, c <= d
  PROVE  a * c <= b * d
<1>1. a * c <= b * c
  BY Z3
<1>2. b * c <= b * d
  BY Z3
<1>3. a * c \in Int /\ b * c \in Int /\ b * d \in Int
  OBVIOUS
<1> QED
  BY <1>1, <1>2, <1>3

LEMMA MonotoneSum ==
  ASSUME NEW a \in Nat, NEW b \in Nat, NEW c \in Nat, NEW d \in Nat, a + b <= c
  PROVE  /\ {a * d, b * d, c * d} \subseteq Nat
         /\ a * d + b * d <= c * d
<1>1. {a * d, b * d, c * d} \subseteq Nat
  OBVIOUS
<1>2. (a + b) * d <= c * d
  BY Monotone
<1>3. (a + b) * d = a * d + b * d
  OBVIOUS
<1> QED
  BY <1>1, <1>2, <1>3

(* The quotient and the remainder of a division.                            *)
LEMMA Division ==
  ASSUME NEW n \in Nat \ {0}, NEW a \in Nat
  PROVE  a \div n \in Nat /\ a % n \in 0..(n - 1) /\ a = n * (a \div n) + (a % n)
<1>1. a % n \in 0..(n - 1)
  OBVIOUS
<1>2. a \div n \in Nat
  OBVIOUS
<1>3. a = n * (a \div n) + (a % n)
  OBVIOUS
<1> QED
  BY <1>1, <1>2, <1>3

(* ... which nothing else is.                                               *)
LEMMA OneQuotient ==
  ASSUME NEW n \in Nat \ {0}, NEW q \in Nat, NEW r \in 0..(n - 1), NEW a \in Nat, a = q * n + r
  PROVE  a \div n = q /\ a % n = r
<1> DEFINE d == a \div n
<1> DEFINE m == a % n
<1>1. d \in Nat /\ m \in 0..(n - 1) /\ a = n * d + m
  BY Division
<1> HIDE DEF d, m
<1>2. CASE d < q
  <2>1. PICK e \in Nat : q = d + 1 + e
    <3>1. q - d - 1 \in Nat /\ q = d + 1 + (q - d - 1)
       BY <1>1, <1>2
    <3> QED
       BY <3>1
  <2>2. q * n = d * n + n + e * n
    BY <1>1, <2>1
  <2>3. e * n \in Nat /\ d * n \in Nat /\ n * d = d * n
    BY <1>1, <2>1
  <2> QED
    BY <1>1, <2>2, <2>3
<1>3. CASE d > q
  <2>1. PICK e \in Nat : d = q + 1 + e
    <3>1. d - q - 1 \in Nat /\ d = q + 1 + (d - q - 1)
       BY <1>1, <1>3
    <3> QED
       BY <3>1
  <2>2. n * d = q * n + n + e * n
    BY <1>1, <2>1
  <2>3. e * n \in Nat /\ q * n \in Nat
    BY <1>1, <2>1
  <2> QED
    BY <1>1, <2>2, <2>3
<1>4. CASE d = q
  <2>1. n * d = q * n /\ q * n \in Nat
    BY <1>1, <1>4
  <2>2. m = r
    BY <1>1, <2>1
  <2> QED
    BY <1>4, <2>2 DEF d, m
<1> QED
  BY <1>1, <1>2, <1>3, <1>4

(* A multiple of n has a quotient.                                          *)
LEMMA MultipleOf ==
  ASSUME NEW n \in Nat \ {0}, NEW a \in Nat, a % n = 0
  PROVE  \E q \in Nat : a = n * q
<1> DEFINE d == a \div n
<1>1. d \in Nat /\ a = n * d + (a % n)
  BY Division
<1> HIDE DEF d
<1>2. n * d \in Nat
  BY <1>1
<1>3. a = n * d
  BY <1>1, <1>2
<1> QED
  BY <1>1, <1>3

(* The multiples of n lie n apart.                                          *)
LEMMA NextMultiple ==
  ASSUME NEW n \in Nat \ {0}, NEW a \in Nat, a % n = 0
  PROVE  (a + n) % n = 0
<1>1. PICK q \in Nat : a = n * q
  BY MultipleOf
<1>2. a + n = (q + 1) * n + 0
  BY <1>1
<1>3. \A b \in Nat : b = (q + 1) * n + 0 => b % n = 0
  BY OneQuotient
<1> QED
  BY <1>2, <1>3

LEMMA MultiplesApart ==
  ASSUME NEW n \in Nat \ {0}, NEW a \in Nat, NEW b \in Nat, a % n = 0, b % n = 0, a < b
  PROVE  a + n <= b
<1>1. PICK p \in Nat : a = n * p
  BY MultipleOf
<1>2. PICK q \in Nat : b = n * q
  BY MultipleOf
<1>3. CASE q <= p
  <2>1. n * q <= n * p /\ n * q \in Nat /\ n * p \in Nat
    BY <1>1, <1>2, <1>3, Monotone
  <2> QED
    BY <1>1, <1>2, <2>1
<1>4. CASE q > p
  <2>1. p + 1 <= q
    BY <1>4
  <2>2. n * (p + 1) <= n * q
    BY <2>1, Monotone
  <2>3. n * (p + 1) = n * p + n
    OBVIOUS
  <2> QED
    BY <1>1, <1>2, <2>2, <2>3
<1> QED
  BY <1>3, <1>4

(* Row-major addresses: entry j of row i of a matrix of rows of y entries. *)
LEMMA RowMajor ==
  ASSUME NEW x \in Nat, NEW y \in Nat, NEW i \in 0..(x - 1), NEW j \in 0..(y - 1)
  PROVE  /\ i * y + j \in 0..(x * y - 1)
         /\ (i * y + j) \div y = i
         /\ (i * y + j) % y = j
<1>1. i \in Nat /\ j \in Nat /\ y \in Nat \ {0} /\ i + 1 <= x
  OBVIOUS
<1>2. i * y \in Nat /\ x * y \in Nat /\ (i + 1) * y = i * y + y
  OBVIOUS
<1>3. (i + 1) * y <= x * y
  BY <1>1, Monotone
<1>4. i * y + j \in 0..(x * y - 1)
  BY <1>1, <1>2, <1>3
<1>5. \A a \in Nat : a = i * y + j => a \div y = i /\ a % y = j
  BY <1>1, OneQuotient
<1> QED
  BY <1>1, <1>2, <1>4, <1>5

LEMMA RowMajorSplit ==
  ASSUME NEW x \in Nat, NEW y \in Nat \ {0}, NEW a \in 0..(x * y - 1)
  PROVE  /\ a \div y \in 0..(x - 1)
         /\ a % y \in 0..(y - 1)
         /\ a = (a \div y) * y + (a % y)
<1> DEFINE q == a \div y
<1> DEFINE r == a % y
<1>1. q \in Nat /\ r \in 0..(y - 1) /\ a = y * q + r
  <2>1. a \in Nat
    OBVIOUS
  <2> HIDE DEF q, r
  <2> QED
    BY <2>1, Division DEF q, r
<1> HIDE DEF q, r
<1>2. CASE x <= q
  <2>1. x * y <= q * y
    BY <1>1, <1>2, Monotone
  <2>2. x * y \in Nat /\ q * y \in Nat
    BY <1>1
  <2> QED
    BY <1>1, <2>1, <2>2
<1>3. a = q * y + r
  <2>1. y * q = q * y
    BY <1>1
  <2> QED
    BY <1>1, <2>1
<1>4. q \in 0..(x - 1)
  BY <1>1, <1>2
<1> QED
  BY <1>1, <1>3, <1>4 DEF q, r
=============================================================================
