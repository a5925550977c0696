------------------------- MODULE ForwardPassProofs -------------------------
(***************************************************************************)
(* Proofs about the key/value cache and about Qwen3ForCausalLM::forward,   *)
(* for any number of layers, heads and tokens and any way to cut a context *)
(* into calls.  A caller who stays within max_sqlen positions finds every  *)
(* row of the cache where it was put; the layers then provide the log that *)
(* KVLog promises, every pass keeps that promise, and the logits it        *)
(* returns are those of the whole context.  That the caller stays there is *)
(* a hypothesis, not an assumption: chat.cc does not see to it             *)
(* (Generation, ForwardHasRoom).                                           *)
(***************************************************************************)
EXTENDS ForwardPass, Foundations, SequenceTheorems, TLAPS

-----------------------------------------------------------------------------
(* Addresses                                                                *)

LEMMA ProductGrows ==
  ASSUME NEW a \in Nat, NEW b \in Nat, NEW m \in Nat, a < b
  PROVE  a * m + m <= b * m
<1>1. PICK d \in Nat : b = a + 1 + d
  <2>1. b - (a + 1) \in Nat /\ b = a + 1 + (b - (a + 1))
    OBVIOUS
  <2> QED
    BY <2>1
<1>2. b * m = a * m + m + d * m
  BY <1>1
<1>3. d * m >= 0
  OBVIOUS
<1>4. a * m \in Nat /\ b * m \in Nat /\ d * m \in Nat
  OBVIOUS
<1> QED
  BY <1>2, <1>3, <1>4

(* A number splits in one way into a multiple and a rest.                   *)
LEMMA SplitIsUnique ==
  ASSUME NEW m \in Nat,
         NEW a \in Nat, NEW p \in 0..(m - 1),
         NEW b \in Nat, NEW q \in 0..(m - 1),
         a * m + p = b * m + q
  PROVE  a = b /\ p = q
<1>1. a * m \in Nat /\ b * m \in Nat
  OBVIOUS
<1>2. ~(a < b)
  <2> SUFFICES ASSUME a < b PROVE FALSE
    OBVIOUS
  <2>1. a * m + m <= b * m
    BY ProductGrows
  <2> QED
    BY <2>1, <1>1
<1>3. ~(b < a)
  <2> SUFFICES ASSUME b < a PROVE FALSE
    OBVIOUS
  <2>1. b * m + m <= a * m
    BY ProductGrows
  <2> QED
    BY <2>1, <1>1
<1> QED
  BY <1>1, <1>2, <1>3

(* Head h of layer l is the (l * num_kv_head + h)-th of the buffer.         *)
HeadIndex(l, h) == l * NumKvHeads + h

LEMMA SizesArePositive ==
  /\ NumLayers \in Nat \ {0} /\ NumKvHeads \in Nat \ {0} /\ MaxSqlen \in Nat \ {0}
  /\ MaxContext \in Nat
  /\ Layers = 0..(NumLayers - 1) /\ Heads = 0..(NumKvHeads - 1)
BY KVAssumption DEF Layers, Heads

LEMMA ViewAddressByHead ==
  ASSUME NEW l \in Layers, NEW h \in Heads, NEW p \in Int
  PROVE  /\ HeadIndex(l, h) \in Nat
         /\ ViewAddress(l, h, p) = HeadIndex(l, h) * MaxSqlen + p
<1>1. l \in Nat /\ h \in Nat /\ NumKvHeads \in Nat /\ MaxSqlen \in Nat
  BY SizesArePositive
<1>2. l * NumKvHeads \in Nat
  BY <1>1
<1>3. l * (NumKvHeads * MaxSqlen) = (l * NumKvHeads) * MaxSqlen
  BY <1>1
<1>4. (l * NumKvHeads + h) * MaxSqlen = (l * NumKvHeads) * MaxSqlen + h * MaxSqlen
  BY <1>1, <1>2
<1> QED
  BY <1>1, <1>2, <1>3, <1>4 DEF HeadIndex, ViewAddress, Slice, HeadStride

(* The rows of a head are adjacent.                                         *)
LEMMA RowsAreAdjacent ==
  ASSUME NEW l \in Layers, NEW h \in Heads, NEW p \in Int
  PROVE  ViewAddress(l, h, p) = ViewAddress(l, h, 0) + p
<1>1. HeadIndex(l, h) \in Nat /\ MaxSqlen \in Nat
  BY ViewAddressByHead, SizesArePositive
<1>2. HeadIndex(l, h) * MaxSqlen \in Nat
  BY <1>1
<1>3. /\ ViewAddress(l, h, p) = HeadIndex(l, h) * MaxSqlen + p
      /\ ViewAddress(l, h, 0) = HeadIndex(l, h) * MaxSqlen + 0
  BY ViewAddressByHead
<1> QED
  BY <1>2, <1>3

(* Two rows of the cache lie at one address only if they are one row.       *)
LEMMA ViewAddressInjective ==
  ASSUME NEW l \in Layers, NEW h \in Heads, NEW p \in 0..(MaxSqlen - 1),
         NEW k \in Layers, NEW g \in Heads, NEW q \in 0..(MaxSqlen - 1),
         ViewAddress(l, h, p) = ViewAddress(k, g, q)
  PROVE  l = k /\ h = g /\ p = q
<1>1. HeadIndex(l, h) = HeadIndex(k, g) /\ p = q
  <2>1. HeadIndex(l, h) \in Nat /\ HeadIndex(k, g) \in Nat /\ MaxSqlen \in Nat
    BY ViewAddressByHead, SizesArePositive
  <2>2. HeadIndex(l, h) * MaxSqlen + p = HeadIndex(k, g) * MaxSqlen + q
    BY ViewAddressByHead, SizesArePositive
  <2> QED
    BY <2>1, <2>2, SplitIsUnique
<1>2. l \in Nat /\ k \in Nat /\ NumKvHeads \in Nat
  BY SizesArePositive
<1> QED
  BY <1>1, <1>2, SplitIsUnique, SizesArePositive DEF HeadIndex

(* Every row of the cache lies inside the buffer.                           *)
LEMMA ViewAddressInside ==
  ASSUME NEW l \in Layers, NEW h \in Heads, NEW p \in 0..(MaxSqlen - 1)
  PROVE  ViewAddress(l, h, p) \in Addresses
<1>1. /\ l \in Nat /\ h \in Nat /\ l < NumLayers /\ h < NumKvHeads
      /\ NumLayers \in Nat /\ NumKvHeads \in Nat /\ MaxSqlen \in Nat /\ p \in Nat /\ p < MaxSqlen
  BY SizesArePositive
<1>2. l * NumKvHeads + NumKvHeads <= NumLayers * NumKvHeads
  BY <1>1, ProductGrows
<1>3. HeadIndex(l, h) \in Nat /\ NumLayers * NumKvHeads \in Nat /\ l * NumKvHeads \in Nat
  BY <1>1, ViewAddressByHead
<1>4. HeadIndex(l, h) < NumLayers * NumKvHeads
  BY <1>1, <1>2, <1>3 DEF HeadIndex
<1>5. HeadIndex(l, h) * MaxSqlen + MaxSqlen <= (NumLayers * NumKvHeads) * MaxSqlen
  BY <1>1, <1>3, <1>4, ProductGrows
<1>6. CacheSize = (NumLayers * NumKvHeads) * MaxSqlen
  BY <1>1 DEF CacheSize
<1>7. HeadIndex(l, h) * MaxSqlen \in Nat /\ CacheSize \in Nat
  BY <1>1, <1>3, <1>6
<1>8. ViewAddress(l, h, p) = HeadIndex(l, h) * MaxSqlen + p
  BY ViewAddressByHead, <1>1
<1> QED
  BY <1>1, <1>5, <1>6, <1>7, <1>8 DEF Addresses
-----------------------------------------------------------------------------
(* What one refresh writes                                                  *)

(* The pass at work has room behind the positions of the passes before it.  *)
InRoom ==
  /\ past_sqlen + (IF pc = "idle" THEN 0 ELSE sqlen) <= MaxSqlen
  /\ pc # "idle" => sqlen \in 1..MaxSqlen

LEMMA CopyStartsBehindPast ==
  ASSUME past_sqlen \in Nat, NEW l \in Layers, NEW h \in Heads
  PROVE  /\ ViewAddress(l, h, 0) \in Nat
         /\ CopyStart(l, h) = ViewAddress(l, h, 0) + past_sqlen
<1>1. /\ l \in Nat /\ h \in Nat /\ MaxSqlen \in Nat /\ NumKvHeads \in Nat
      /\ 0 \in 0..(MaxSqlen - 1)
  BY SizesArePositive
<1>2. Slice(l) \in Nat /\ h * HeadStride \in Nat
  BY <1>1 DEF Slice, HeadStride
<1>3. CopyStart(l, h) = ViewAddress(l, h, 0) + past_sqlen
  BY <1>2 DEF CopyStart, ViewAddress
<1> QED
  BY <1>2, <1>3 DEF ViewAddress

(* The span copied for a head are the rows of the pass's positions.         *)
LEMMA CopySpanRows ==
  ASSUME TypeOK, InRoom, pc # "idle", NEW l \in Layers, NEW h \in Heads, NEW a
  PROVE  a \in CopySpan(l, h) <=>
           \E p \in past_sqlen .. (past_sqlen + sqlen - 1) : a = ViewAddress(l, h, p)
<1>1. past_sqlen \in Nat /\ sqlen \in Nat
  BY DEF TypeOK
<1>2. CopyStart(l, h) = ViewAddress(l, h, 0) + past_sqlen /\ ViewAddress(l, h, 0) \in Nat
  BY <1>1, CopyStartsBehindPast
<1>3. \A p \in Int : ViewAddress(l, h, p) = ViewAddress(l, h, 0) + p
  BY RowsAreAdjacent
<1>4. ASSUME a \in CopySpan(l, h)
      PROVE  \E p \in past_sqlen .. (past_sqlen + sqlen - 1) : a = ViewAddress(l, h, p)
  <2>1. a - ViewAddress(l, h, 0) \in past_sqlen .. (past_sqlen + sqlen - 1)
    BY <1>1, <1>2, <1>3, <1>4 DEF CopySpan
  <2>2. a = ViewAddress(l, h, a - ViewAddress(l, h, 0))
    BY <1>1, <1>2, <1>3, <1>4 DEF CopySpan
  <2> QED
    BY <2>1, <2>2
<1>5. ASSUME NEW p \in past_sqlen .. (past_sqlen + sqlen - 1), a = ViewAddress(l, h, p)
      PROVE  a \in CopySpan(l, h)
  BY <1>1, <1>2, <1>3, <1>5 DEF CopySpan
<1> QED
  BY <1>4, <1>5

(* No span leaves the buffer.                                               *)
LEMMA CopySpanInside ==
  ASSUME TypeOK, InRoom, pc # "idle", NEW l \in Layers, NEW h \in Heads
  PROVE  CopySpan(l, h) \subseteq Addresses
<1> SUFFICES ASSUME NEW a \in CopySpan(l, h) PROVE a \in Addresses
  OBVIOUS
<1>1. PICK p \in past_sqlen .. (past_sqlen + sqlen - 1) : a = ViewAddress(l, h, p)
  BY CopySpanRows
<1>2. p \in 0..(MaxSqlen - 1)
  BY SizesArePositive DEF TypeOK, InRoom
<1> QED
  BY <1>1, <1>2, ViewAddressInside

(* Row p of head h in layer k after a refresh of layer l: the pass's own    *)
(* rows in l, the others as they were.                                      *)
LEMMA RefreshedRow ==
  ASSUME TypeOK, InRoom, pc # "idle", NEW l \in Layers,
         NEW k \in Layers, NEW h \in Heads, NEW p \in 0..(MaxSqlen - 1)
  PROVE  Refreshed(l)[ViewAddress(k, h, p)] =
           IF k = l /\ p \in past_sqlen .. (past_sqlen + sqlen - 1)
           THEN <<l, h, p>>
           ELSE cache[ViewAddress(k, h, p)]
<1> DEFINE a == ViewAddress(k, h, p)
<1>1. a \in Addresses
  BY ViewAddressInside
<1>2. past_sqlen \in Nat /\ sqlen \in Nat
  BY DEF TypeOK
<1>3. ASSUME NEW g \in Heads
      PROVE  a \in CopySpan(l, g) <=>
               k = l /\ g = h /\ p \in past_sqlen .. (past_sqlen + sqlen - 1)
  <2>1. ASSUME a \in CopySpan(l, g)
        PROVE  k = l /\ g = h /\ p \in past_sqlen .. (past_sqlen + sqlen - 1)
    <3>1. PICK q \in past_sqlen .. (past_sqlen + sqlen - 1) : a = ViewAddress(l, g, q)
      BY <2>1, CopySpanRows
    <3>2. q \in 0..(MaxSqlen - 1)
      BY <1>2, SizesArePositive DEF InRoom
    <3> QED
      BY <3>1, <3>2, ViewAddressInjective
  <2> QED
    BY <2>1, CopySpanRows
<1>4. CASE k = l /\ p \in past_sqlen .. (past_sqlen + sqlen - 1)
  <2>1. LastWriter(l, a) = h
    BY <1>3, <1>4, SizesArePositive DEF LastWriter
  <2>2. p = past_sqlen + (a - CopyStart(l, h))
    <3>1. a = ViewAddress(l, h, 0) + p /\ CopyStart(l, h) = ViewAddress(l, h, 0) + past_sqlen
      <4>1. p \in Int
        BY SizesArePositive
      <4>2. ViewAddress(l, h, p) = ViewAddress(l, h, 0) + p
        BY <4>1, RowsAreAdjacent
      <4> QED
        BY <1>2, <1>4, <4>2, CopyStartsBehindPast
    <3>2. ViewAddress(l, h, 0) \in Nat
      BY <1>2, CopyStartsBehindPast
    <3> QED
      BY <3>1, <3>2, <1>2
  <2> QED
    BY <1>1, <1>3, <1>4, <2>1, <2>2 DEF Refreshed
<1>5. CASE ~(k = l /\ p \in past_sqlen .. (past_sqlen + sqlen - 1))
  BY <1>1, <1>3, <1>5 DEF Refreshed
<1> QED
  BY <1>4, <1>5
-----------------------------------------------------------------------------
(* Type correctness, also for a caller who runs past the buffer             *)

LEMMA SpansAreNatural ==
  ASSUME TypeOK, NEW h \in Heads
  PROVE  CopySpan(layer, h) \subseteq Nat
<1>1. CopyStart(layer, h) \in Nat /\ sqlen \in Nat
  BY CopyStartsBehindPast DEF TypeOK
<1> QED
  BY <1>1 DEF CopySpan

LEMMA RefreshKeepsType ==
  ASSUME TypeOK
  PROVE  Refreshed(layer) \in [Addresses -> Row \cup {Blank}]
<1> SUFFICES ASSUME NEW a \in Addresses, NEW h0 \in Heads, a \in CopySpan(layer, h0)
             PROVE  LET h == LastWriter(layer, a)
                    IN  <<layer, h, past_sqlen + (a - CopyStart(layer, h))>> \in Row
  BY DEF Refreshed, TypeOK
<1> DEFINE Writers == {h \in Heads : a \in CopySpan(layer, h)}
<1>1. \E h \in Heads : a \in CopySpan(layer, h) /\ \A g \in Heads : a \in CopySpan(layer, g) => g <= h
  <2>1. Heads = 0..(NumKvHeads - 1) /\ NumKvHeads \in Nat
    BY SizesArePositive
  <2>2. NumKvHeads - 1 \in Nat /\ Writers \in SUBSET (0..(NumKvHeads - 1)) /\ Writers # {}
    BY <2>1
  <2>3. PICK h \in Writers : \A g \in Writers : g <= h
    BY <2>2, GreatestElement
  <2> QED
    BY <2>3
<1>2. /\ LastWriter(layer, a) \in Heads
      /\ a \in CopySpan(layer, LastWriter(layer, a))
  BY <1>1 DEF LastWriter
<1>3. PICK h \in Heads : h = LastWriter(layer, a)
  BY <1>2
<1>4. layer \in Layers /\ past_sqlen \in Nat /\ sqlen \in Nat
  BY DEF TypeOK
<1>5. CopyStart(layer, h) \in Nat
  BY <1>4, CopyStartsBehindPast
<1>6. past_sqlen + (a - CopyStart(layer, h)) \in Nat
  BY <1>2, <1>3, <1>4, <1>5 DEF CopySpan
<1> QED
  BY <1>3, <1>4, <1>6 DEF Row

LEMMA NextKeepsType == TypeOK /\ [Next]_vars => TypeOK'
<1> SUFFICES ASSUME TypeOK, [Next]_vars PROVE TypeOK'
  OBVIOUS
<1>1. ASSUME NEW n \in 1..MaxSqlen, Begin(n) PROVE TypeOK'
  BY <1>1, SizesArePositive DEF Begin, TypeOK
<1>2. CASE RefreshKV
  <2>1. cache' \in [Addresses -> Row \cup {Blank}]
    BY <1>2, RefreshKeepsType DEF RefreshKV
  <2>2. wild' \subseteq Nat
    <3>1. UNION {CopySpan(layer, h) \ Addresses : h \in Heads} \subseteq Nat
      BY SpansAreNatural
    <3> QED
      BY <1>2, <3>1 DEF RefreshKV, TypeOK
  <2> QED
    BY <1>2, <2>1, <2>2 DEF RefreshKV, TypeOK
<1>3. CASE Attend
  BY <1>3, SizesArePositive DEF Attend, TypeOK
<1>4. CASE Finish
  BY <1>4 DEF Finish, TypeOK
<1>5. CASE UNCHANGED vars
  BY <1>5 DEF vars, TypeOK
<1> QED
  BY <1>1, <1>2, <1>3, <1>4, <1>5 DEF Next

(* Every variable of the cache keeps its type, whoever calls.               *)
THEOREM TypeCorrect == Spec => []TypeOK
<1>1. Init => TypeOK
  <2> SUFFICES ASSUME Init PROVE TypeOK
    OBVIOUS
  <2>1. 0 \in Layers /\ 0 \in 0..MaxSqlen
    BY SizesArePositive
  <2> QED
    BY <2>1 DEF Init, TypeOK
<1> QED
  BY <1>1, NextKeepsType, PTL DEF Spec

-----------------------------------------------------------------------------
(* The inductive invariant                                                  *)

IInv == TypeOK /\ InRoom /\ HoldsOwnRows

LEMMA InitIInv == Init => IInv
<1> SUFFICES ASSUME Init PROVE IInv
  OBVIOUS
<1>1. 0 \in Layers /\ 0 \in 0..MaxSqlen /\ MaxSqlen \in Nat
  BY SizesArePositive
<1>2. \A l \in Layers : Filled(l) = 0
  BY DEF Init, Filled
<1> QED
  BY <1>1, <1>2 DEF Init, IInv, TypeOK, InRoom, HoldsOwnRows

(* A refresh of the layer at work fills its rows up to the pass's last      *)
(* position and leaves the rows of every other layer.                       *)
LEMMA RefreshKeepsRows == IInv /\ RefreshKV => HoldsOwnRows'
<1> SUFFICES ASSUME IInv, RefreshKV PROVE HoldsOwnRows'
  OBVIOUS
<1> USE DEF IInv
<1>1. /\ past_sqlen \in Nat /\ sqlen \in Nat /\ layer \in Layers /\ pc # "idle"
      /\ past_sqlen + sqlen <= MaxSqlen
  BY DEF TypeOK, InRoom, RefreshKV
<1>2. ASSUME NEW l \in Layers, NEW h \in Heads, NEW p \in 0..(Filled(l)' - 1)
      PROVE  cache'[ViewAddress(l, h, p)'] = <<l, h, p>>
  <2>1. /\ Filled(l) \in {past_sqlen, past_sqlen + sqlen}
        /\ Filled(l)' = IF l = layer THEN past_sqlen + sqlen ELSE Filled(l)
    BY <1>1, SizesArePositive DEF Filled, RefreshKV
  <2>2. p \in 0..(MaxSqlen - 1)
    <3>1. Filled(l)' \in Nat /\ Filled(l)' <= MaxSqlen
      BY <1>1, <2>1, SizesArePositive
    <3> QED
      BY <3>1, SizesArePositive
  <2>3. cache'[ViewAddress(l, h, p)] =
          IF l = layer /\ p \in past_sqlen .. (past_sqlen + sqlen - 1)
          THEN <<l, h, p>> ELSE cache[ViewAddress(l, h, p)]
    <3>1. cache' = Refreshed(layer)
      BY DEF RefreshKV
    <3>2. TypeOK /\ InRoom
      OBVIOUS
    <3> HIDE DEF IInv
    <3>3. Refreshed(layer)[ViewAddress(l, h, p)] =
            IF l = layer /\ p \in past_sqlen .. (past_sqlen + sqlen - 1)
            THEN <<layer, h, p>> ELSE cache[ViewAddress(l, h, p)]
      BY <1>1, <2>2, <3>2, RefreshedRow, Zenon
    <3> QED
      BY <3>1, <3>3
  <2>4. CASE l = layer /\ p \in past_sqlen .. (past_sqlen + sqlen - 1)
    BY <2>3, <2>4 DEF ViewAddress, Slice, HeadStride
  <2>5. CASE ~(l = layer /\ p \in past_sqlen .. (past_sqlen + sqlen - 1))
    <3>1. p \in 0..(Filled(l) - 1)
      BY <1>1, <2>1, <2>5 DEF Filled, RefreshKV
    <3> QED
      BY <2>3, <2>5, <3>1 DEF HoldsOwnRows, ViewAddress, Slice, HeadStride
  <2> QED
    BY <2>4, <2>5
<1>3. wild' = {}
  BY <1>1, CopySpanInside DEF RefreshKV, HoldsOwnRows
<1> QED
  BY <1>2, <1>3 DEF HoldsOwnRows

LEMMA NextKeepsIInv ==
  ASSUME MaxContext <= MaxSqlen
  PROVE  IInv /\ [Next]_vars => IInv'
<1> SUFFICES ASSUME IInv, [Next]_vars PROVE IInv'
  OBVIOUS
<1> USE DEF IInv
<1>1. TypeOK'
  BY NextKeepsType
<1>2. ASSUME NEW n \in 1..MaxSqlen, Begin(n) PROVE IInv'
  <2>1. InRoom'
    BY <1>2, SizesArePositive DEF Begin, InRoom, TypeOK
  <2>2. \A l \in Layers : Filled(l)' = Filled(l)
    BY <1>2, SizesArePositive DEF Begin, Filled
  <2>3. HoldsOwnRows'
    BY <1>2, <2>2 DEF Begin, HoldsOwnRows, ViewAddress, Slice, HeadStride
  <2> QED
    BY <1>1, <2>1, <2>3
<1>3. CASE RefreshKV
  <2>1. InRoom'
    BY <1>3 DEF RefreshKV, InRoom
  <2> QED
    BY <1>1, <1>3, <2>1, RefreshKeepsRows
<1>4. CASE Attend
  <2>1. InRoom'
    BY <1>4 DEF Attend, InRoom
  <2>2. \A l \in Layers : Filled(l)' = Filled(l)
    BY <1>4, SizesArePositive DEF Attend, Filled, TypeOK
  <2>3. HoldsOwnRows'
    BY <1>4, <2>2 DEF Attend, HoldsOwnRows, ViewAddress, Slice, HeadStride
  <2> QED
    BY <1>1, <2>1, <2>3
<1>5. CASE Finish
  <2>1. InRoom'
    BY <1>5 DEF Finish, InRoom, TypeOK
  <2>2. \A l \in Layers : Filled(l)' = Filled(l)
    BY <1>5, SizesArePositive DEF Finish, Filled, TypeOK
  <2>3. HoldsOwnRows'
    BY <1>5, <2>2 DEF Finish, HoldsOwnRows, ViewAddress, Slice, HeadStride
  <2> QED
    BY <1>1, <2>1, <2>3
<1>6. CASE UNCHANGED vars
  BY <1>1, <1>6 DEF vars, InRoom, HoldsOwnRows, Filled, ViewAddress, Slice, HeadStride
<1> QED
  BY <1>2, <1>3, <1>4, <1>5, <1>6 DEF Next

LEMMA SpecKeepsIInv ==
  ASSUME MaxContext <= MaxSqlen
  PROVE  Spec => []IInv
BY InitIInv, NextKeepsIInv, PTL DEF Spec

(* As long as no context outgrows the cache, every layer and head finds its *)
(* rows in the order of their positions, and no refresh writes elsewhere    *)
(* (QwenAttention.cc:95-122).                                               *)
THEOREM RowsAreKept ==
  ASSUME MaxContext <= MaxSqlen
  PROVE  Spec => []HoldsOwnRows
<1>1. IInv => HoldsOwnRows
  BY DEF IInv
<1> QED
  BY <1>1, SpecKeepsIInv, PTL

(* Each query then sees exactly the positions up to its own                 *)
(* (QwenDecoder.cc:6-21, QwenAttention.cc:124-144).                         *)
THEOREM QueriesSeeTheirPast ==
  ASSUME MaxContext <= MaxSqlen
  PROVE  Spec => []AttendsToOwnPast
<1>1. IInv => AttendsToOwnPast
  <2> SUFFICES ASSUME IInv, pc = "attend",
                      NEW h \in Heads, NEW i \in 0..(sqlen - 1)
               PROVE  Attended(layer, h, i) = {<<layer, h, p>> : p \in 0..(past_sqlen + i)}
    BY DEF AttendsToOwnPast
  <2>1. past_sqlen \in Nat /\ sqlen \in Nat /\ layer \in Layers
    BY DEF IInv, TypeOK
  <2>2. {k \in 0..(past_sqlen + sqlen - 1) : Unmasked(i, k)} = 0..(past_sqlen + i)
    BY <2>1 DEF Unmasked
  <2>3. Filled(layer) = past_sqlen + sqlen
    BY DEF Filled
  <2>4. \A p \in 0..(past_sqlen + i) : cache[ViewAddress(layer, h, p)] = <<layer, h, p>>
    BY <2>1, <2>3 DEF IInv, HoldsOwnRows
  <2> QED
    BY <2>2, <2>4 DEF Attended
<1> QED
  BY <1>1, SpecKeepsIInv, PTL

-----------------------------------------------------------------------------
(* The refinement of KVLog                                                  *)

\* The log that KVLog is instantiated with.
TheLog == [lh \in Layers \X Heads |->
             [p \in 1..Filled(lh[1]) |-> cache[ViewAddress(lh[1], lh[2], p - 1)]]]

(* What the views show of a head are its own rows.                          *)
LEMMA LogHoldsRows ==
  IInv => TheLog = [lh \in Layers \X Heads |->
                      [p \in 1..Filled(lh[1]) |-> <<lh[1], lh[2], p - 1>>]]
<1> SUFFICES ASSUME IInv, NEW lh \in Layers \X Heads, NEW p \in 1..Filled(lh[1])
             PROVE  cache[ViewAddress(lh[1], lh[2], p - 1)] = <<lh[1], lh[2], p - 1>>
  BY DEF TheLog
<1>1. Filled(lh[1]) \in Nat
  BY DEF IInv, TypeOK, Filled
<1>2. p - 1 \in 0..(Filled(lh[1]) - 1)
  BY <1>1
<1> QED
  BY <1>2 DEF IInv, HoldsOwnRows

LEMMA LogHoldsRowsAfter ==
  IInv' => TheLog' = [lh \in Layers \X Heads |->
                        [p \in 1..Filled(lh[1])' |-> <<lh[1], lh[2], p - 1>>]]
<1>1. (IInv => TheLog = [lh \in Layers \X Heads |->
                           [p \in 1..Filled(lh[1]) |-> <<lh[1], lh[2], p - 1>>]])'
  BY LogHoldsRows, PTL
<1> QED
  BY <1>1

LEMMA LogDepth ==
  ASSUME IInv, NEW l \in Layers, NEW h \in Heads
  PROVE  Len(TheLog[<<l, h>>]) = Filled(l) /\ Filled(l) \in Nat
<1>1. Filled(l) \in Nat
  BY DEF IInv, TypeOK, Filled
<1>2. TheLog[<<l, h>>] = [p \in 1..Filled(l) |-> cache[ViewAddress(l, h, p - 1)]]
  BY DEF TheLog
<1> QED
  BY <1>1, <1>2

(* A refresh is the turn of its layer to append the pass's rows.            *)
LEMMA RefreshExtends ==
  ASSUME IInv, IInv', RefreshKV
  PROVE  Log!Next
<1>1. /\ past_sqlen \in Nat /\ sqlen \in 1..MaxSqlen /\ layer \in Layers /\ pc = "refresh"
      /\ pc' = "attend" /\ UNCHANGED <<layer, past_sqlen, sqlen>>
  BY DEF IInv, TypeOK, InRoom, RefreshKV
<1>2. \A l \in Layers :
        /\ Filled(l) = IF l < layer THEN past_sqlen + sqlen ELSE past_sqlen
        /\ Filled(l)' = IF l <= layer THEN past_sqlen + sqlen ELSE past_sqlen
  BY <1>1, SizesArePositive DEF Filled
<1>3. Log!InTurn(layer)
  <2> SUFFICES ASSUME NEW k \in Layers, NEW h \in Heads
               PROVE  /\ k < layer => Len(TheLog[<<k, h>>]) > Len(TheLog[<<layer, h>>])
                      /\ k > layer => Len(TheLog[<<k, h>>]) = Len(TheLog[<<layer, h>>])
    BY DEF Log!InTurn, Log!Depth, TheLog
  <2> QED
    BY <1>1, <1>2, LogDepth, SizesArePositive
<1>4. TheLog' = [lh \in Layers \X Heads |->
                   IF lh[1] = layer
                   THEN TheLog[lh] \o [i \in 1..sqlen |-> <<layer, lh[2], Len(TheLog[lh]) + i - 1>>]
                   ELSE TheLog[lh]]
  <2>1. TheLog' = [lh \in Layers \X Heads |->
                     [p \in 1..Filled(lh[1])' |-> <<lh[1], lh[2], p - 1>>]]
    BY LogHoldsRowsAfter
  <2> SUFFICES ASSUME NEW lh \in Layers \X Heads
               PROVE  [p \in 1..Filled(lh[1])' |-> <<lh[1], lh[2], p - 1>>] =
                        IF lh[1] = layer
                        THEN TheLog[lh] \o [i \in 1..sqlen |-> <<layer, lh[2], Len(TheLog[lh]) + i - 1>>]
                        ELSE TheLog[lh]
    BY <2>1
  <2>2. TheLog[lh] = [p \in 1..Filled(lh[1]) |-> <<lh[1], lh[2], p - 1>>]
    BY LogHoldsRows
  <2>3. CASE lh[1] = layer
    <3>1. Filled(lh[1]) = past_sqlen /\ Filled(lh[1])' = past_sqlen + sqlen
      BY <1>1, <1>2, <2>3, SizesArePositive
    <3>2. TheLog[lh] = [p \in 1..past_sqlen |-> <<layer, lh[2], p - 1>>] /\ Len(TheLog[lh]) = past_sqlen
      BY <1>1, <2>2, <2>3, <3>1
    <3>3. [p \in 1..(past_sqlen + sqlen) |-> <<layer, lh[2], p - 1>>] =
            [p \in 1..past_sqlen |-> <<layer, lh[2], p - 1>>]
              \o [i \in 1..sqlen |-> <<layer, lh[2], past_sqlen + i - 1>>]
      BY <1>1, SizesArePositive
    <3> QED
      BY <2>3, <3>1, <3>2, <3>3
  <2>4. CASE lh[1] # layer
    <3>1. Filled(lh[1])' = Filled(lh[1])
      BY <1>1, <1>2, <2>4, SizesArePositive
    <3> QED
      BY <2>2, <2>4, <3>1
  <2> QED
    BY <2>3, <2>4
<1>5. Log!Extend(layer, sqlen)
  BY <1>4 DEF Log!Extend, TheLog
<1> QED
  BY <1>1, <1>3, <1>5 DEF Log!Next

(* The flat buffer with its slices, strides and counters behaves as one     *)
(* append-only log for each layer and head, which the layers extend in      *)
(* turn.                                                                    *)
THEOREM ImplementsLog ==
  ASSUME MaxContext <= MaxSqlen
  PROVE  Spec => LogSpec
<1>1. Init => Log!Init
  <2> SUFFICES ASSUME Init PROVE TheLog = [lh \in Layers \X Heads |-> << >>]
    BY DEF Log!Init, TheLog
  <2>1. \A l \in Layers : Filled(l) = 0
    BY DEF Init, Filled
  <2> QED
    BY <2>1 DEF TheLog
<1>2. IInv /\ IInv' /\ [Next]_vars => [Log!Next]_TheLog
  <2> SUFFICES ASSUME IInv, IInv', [Next]_vars PROVE [Log!Next]_TheLog
    OBVIOUS
  <2>1. CASE RefreshKV
    BY <2>1, RefreshExtends
  <2>2. ASSUME NEW n \in 1..MaxSqlen, Begin(n) PROVE TheLog' = TheLog
    <3>1. \A l \in Layers : Filled(l)' = Filled(l)
      BY <2>2, SizesArePositive DEF Begin, Filled
    <3> QED
      BY <3>1, LogHoldsRows, LogHoldsRowsAfter
  <2>3. CASE Attend
    <3>1. \A l \in Layers : Filled(l)' = Filled(l)
      BY <2>3, SizesArePositive DEF Attend, Filled, IInv, TypeOK
    <3> QED
      BY <3>1, LogHoldsRows, LogHoldsRowsAfter
  <2>4. CASE Finish
    <3>1. \A l \in Layers : Filled(l)' = Filled(l)
      BY <2>4, SizesArePositive DEF Finish, Filled, IInv, TypeOK
    <3> QED
      BY <3>1, LogHoldsRows, LogHoldsRowsAfter
  <2>5. CASE UNCHANGED vars
    <3>1. \A l \in Layers : Filled(l)' = Filled(l)
      BY <2>5 DEF vars, Filled
    <3> QED
      BY <3>1, LogHoldsRows, LogHoldsRowsAfter
  <2> QED
    BY <2>1, <2>2, <2>3, <2>4, <2>5 DEF Next
<1> QED
  BY <1>1, <1>2, SpecKeepsIInv, PTL DEF Spec, LogSpec, Log!Spec, TheLog


-----------------------------------------------------------------------------
(* A pass is a sequence of steps of the cache.                              *)

LEMMA PassStepIsCacheStep ==
  ASSUME MaxContext <= MaxSqlen, IInv, [PassNext]_passVars
  PROVE  [Next]_vars
<1>1. ASSUME NEW n \in 1..(MaxContext - past_sqlen), NEW ids \in [1..n -> Token], Embed(ids)
      PROVE  Next
  <2>1. past_sqlen \in Nat /\ MaxContext \in Nat /\ MaxSqlen \in Nat
    BY SizesArePositive DEF IInv, TypeOK
  <2>2. Len(ids) = n /\ n \in 1..MaxSqlen
    BY <2>1
  <2> QED
    BY <1>1, <2>2 DEF Embed, Next
<1>2. Project \/ NextLayer \/ Return => Next
  BY DEF Project, NextLayer, Return, Next
<1>3. UNCHANGED passVars => UNCHANGED vars
  BY DEF passVars
<1> QED
  BY <1>1, <1>2, <1>3 DEF PassNext

LEMMA PassKeepsIInv ==
  ASSUME MaxContext <= MaxSqlen
  PROVE  PassSpec => []IInv
<1>1. PassInit => IInv
  BY InitIInv DEF PassInit
<1>2. IInv /\ [PassNext]_passVars => IInv'
  BY PassStepIsCacheStep, NextKeepsIInv
<1> QED
  BY <1>1, <1>2, PTL DEF PassSpec

(* Whatever the calls, a forward pass uses the cache as module KVCache says.*)
THEOREM PassesUseCache ==
  ASSUME MaxContext <= MaxSqlen
  PROVE  PassSpec => Spec
<1>1. PassInit => Init
  BY DEF PassInit
<1>2. IInv /\ [PassNext]_passVars => [Next]_vars
  BY PassStepIsCacheStep
<1> QED
  BY <1>1, <1>2, PassKeepsIInv, PTL DEF PassSpec, Spec

(* In every pass each layer and head finds its own rows, in order           *)
(* (QwenAttention.cc:95-122), each query sees the positions up to its own   *)
(* (:124-144), and every layer's cache is a log (ModelContext.h).           *)
THEOREM PassesKeepCache ==
  ASSUME MaxContext <= MaxSqlen
  PROVE  PassSpec => []HoldsOwnRows /\ []AttendsToOwnPast /\ LogSpec
  BY PassesUseCache, RowsAreKept, QueriesSeeTheirPast, ImplementsLog, PTL

-----------------------------------------------------------------------------
(* The layers applied to a whole context, layer by layer.                   *)

Embedded(tokens) == [p \in 0..(Len(tokens) - 1) |-> Embedding(tokens[p + 1])]

SeenRows(l, x, p) == [h \in Heads |-> [j \in 0..p |-> <<h, Rotated(j, Norm(<<"input", l>>, x[j]))>>]]

Through(tokens, l, x) ==
  [p \in 0..(Len(tokens) - 1) |-> LayerRow(l, x[p], p, SeenRows(l, x, p))]

StatesUpto(s, tokens, m) ==
  s = [l \in 0..m |-> IF l = 0 THEN Embedded(tokens) ELSE Through(tokens, l - 1, s[l - 1])]

States(tokens) == CHOOSE s : StatesUpto(s, tokens, NumLayers)

LEMMA StatesExtend ==
  ASSUME NEW tokens, NEW m \in Nat, NEW s, StatesUpto(s, tokens, m)
  PROVE  \E t : StatesUpto(t, tokens, m + 1)
<1> DEFINE t == [l \in 0..(m + 1) |-> IF l = m + 1 THEN Through(tokens, m, s[m]) ELSE s[l]]
<1>1. ASSUME NEW l \in 0..m
      PROVE  s[l] = IF l = 0 THEN Embedded(tokens) ELSE Through(tokens, l - 1, s[l - 1])
  BY DEF StatesUpto
<1>2. ASSUME NEW l \in 0..(m + 1)
      PROVE  t[l] = IF l = 0 THEN Embedded(tokens) ELSE Through(tokens, l - 1, t[l - 1])
  <2>1. CASE l = 0
    <3>1. t[0] = s[0] /\ s[0] = Embedded(tokens)
      BY <1>1
    <3> QED
      BY <2>1, <3>1
  <2>2. CASE l = m + 1
    <3>1. l # 0 /\ l - 1 = m /\ m \in 0..(m + 1) /\ m # m + 1
      BY <2>2
    <3> QED
      BY <2>2, <3>1
  <2>3. CASE l # 0 /\ l # m + 1
    <3>1. l \in 0..m /\ l - 1 # m + 1 /\ l - 1 \in 0..(m + 1)
      BY <2>3
    <3>2. t[l] = s[l] /\ t[l - 1] = s[l - 1]
      BY <2>3, <3>1
    <3> HIDE DEF t
    <3> QED
      BY <1>1, <2>3, <3>1, <3>2
  <2> QED
    BY <2>1, <2>2, <2>3
<1>3. t = [l \in 0..(m + 1) |-> t[l]]
  OBVIOUS
<1> HIDE DEF t
<1>4. StatesUpto(t, tokens, m + 1)
  BY <1>2, <1>3, Zenon DEF StatesUpto
<1> QED
  BY <1>4

LEMMA StatesFacts ==
  ASSUME NEW tokens
  PROVE  /\ States(tokens)[0] = Embedded(tokens)
         /\ \A l \in Layers : States(tokens)[l + 1] = Through(tokens, l, States(tokens)[l])
         /\ Reference(tokens) = States(tokens)[NumLayers]
<1> DEFINE S == {m \in Nat : \E s : StatesUpto(s, tokens, m)}
<1>1. 0 \in S
  <2> DEFINE s == [l \in 0..0 |-> Embedded(tokens)]
  <2>1. \A l \in 0..0 : l = 0
    OBVIOUS
  <2>2. StatesUpto(s, tokens, 0)
    BY <2>1 DEF StatesUpto
  <2> QED
    BY <2>2
<1>2. \A m \in Nat : m \in S => m + 1 \in S
  BY StatesExtend
<1> HIDE DEF S
<1>3. NumLayers \in S
  BY <1>1, <1>2, SetInduction, SizesArePositive
<1>4. StatesUpto(States(tokens), tokens, NumLayers)
  BY <1>3 DEF S, States
<1>5. ASSUME NEW l \in 0..NumLayers
      PROVE  States(tokens)[l] =
               IF l = 0 THEN Embedded(tokens) ELSE Through(tokens, l - 1, States(tokens)[l - 1])
  BY <1>4 DEF StatesUpto
<1>6. States(tokens)[0] = Embedded(tokens)
  BY <1>5, SizesArePositive
<1>7. ASSUME NEW l \in Layers
      PROVE  States(tokens)[l + 1] = Through(tokens, l, States(tokens)[l])
  <2>1. PICK k \in 0..NumLayers : k = l + 1 /\ k # 0 /\ k - 1 = l
    BY SizesArePositive
  <2>2. States(tokens)[k] = Through(tokens, k - 1, States(tokens)[k - 1])
    BY <1>5, <2>1, Zenon
  <2> QED
    BY <2>1, <2>2, Zenon
<1>8. Reference(tokens) = States(tokens)[NumLayers]
  BY DEF Reference, States, StatesUpto, Embedded, Through, SeenRows
<1> QED
  BY <1>6, <1>7, <1>8

(* What the layers make of a row depends on the rows up to it alone: more   *)
(* tokens behind it change nothing.                                         *)
LEMMA StatesOfPrefix ==
  ASSUME NEW s \in Seq(Token), NEW t \in Seq(Token)
  PROVE  \A l \in 0..NumLayers : \A p \in 0..(Len(s) - 1) :
           States(s \o t)[l][p] = States(s)[l][p]
<1> DEFINE u == s \o t
           A == {l \in Nat : l <= NumLayers =>
                   \A p \in 0..(Len(s) - 1) : States(u)[l][p] = States(s)[l][p]}
<1>1. /\ Len(s) \in Nat /\ Len(t) \in Nat /\ Len(u) = Len(s) + Len(t)
      /\ \A p \in 0..(Len(s) - 1) : u[p + 1] = s[p + 1]
      /\ 0..(Len(s) - 1) \subseteq 0..(Len(u) - 1)
  BY ConcatProperties
<1> HIDE DEF u
<1>2. 0 \in A
  <2> SUFFICES ASSUME NEW p \in 0..(Len(s) - 1) PROVE States(u)[0][p] = States(s)[0][p]
    OBVIOUS
  <2>1. p \in 0..(Len(u) - 1) /\ u[p + 1] = s[p + 1]
    BY <1>1
  <2>2. Embedded(u)[p] = Embedding(u[p + 1]) /\ Embedded(s)[p] = Embedding(s[p + 1])
    BY <2>1 DEF Embedded
  <2> QED
    BY <2>1, <2>2, StatesFacts
<1>3. ASSUME NEW l \in Nat, l \in A PROVE l + 1 \in A
  <2> SUFFICES ASSUME l + 1 <= NumLayers, NEW p \in 0..(Len(s) - 1)
               PROVE  States(u)[l + 1][p] = States(s)[l + 1][p]
    OBVIOUS
  <2>1. l \in Layers
    BY SizesArePositive
  <2>2. \A q \in 0..(Len(s) - 1) : States(u)[l][q] = States(s)[l][q]
    BY <1>3, <2>1, SizesArePositive
  <2>3. SeenRows(l, States(u)[l], p) = SeenRows(l, States(s)[l], p)
    <3>1. \A j \in 0..p : j \in 0..(Len(s) - 1)
      BY <1>1
    <3> QED
      BY <2>2, <3>1 DEF SeenRows
  <2>4. /\ Through(u, l, States(u)[l])[p] = LayerRow(l, States(u)[l][p], p, SeenRows(l, States(u)[l], p))
        /\ Through(s, l, States(s)[l])[p] = LayerRow(l, States(s)[l][p], p, SeenRows(l, States(s)[l], p))
    BY <1>1 DEF Through
  <2> QED
    BY <2>1, <2>2, <2>3, <2>4, StatesFacts
<1>4. Nat \subseteq A
  <2> HIDE DEF A
  <2> QED
    BY <1>2, <1>3, SetInduction
<1> QED
  BY <1>4, SizesArePositive DEF u

-----------------------------------------------------------------------------
(* The inductive invariant: what the data of a pass are, in terms of the    *)
(* layers applied to the tokens fed so far, those of the call included.     *)

Fed == context \o input_ids

PassShape ==
  /\ context \in Seq(Token) /\ input_ids \in Seq(Token)
  /\ Len(context) = past_sqlen
  /\ Len(input_ids) = IF pc = "idle" THEN 0 ELSE sqlen
  /\ Len(hidden_states) = Len(input_ids)

KeysAreProjected ==
  /\ DOMAIN kv = Layers
  /\ \A l \in Layers :
       /\ DOMAIN kv[l] = 0..(MaxContext - 1)
       /\ \A p \in 0..(Filled(l) - 1) : kv[l][p] = Norm(<<"input", l>>, States(Fed)[l][p])

HiddenIsState ==
  pc # "idle" => \A i \in 1..sqlen : hidden_states[i] = States(Fed)[layer][past_sqlen + i - 1]

LogitsArePredicted == context # << >> => logits = Predicted(context)

CallFits == past_sqlen + (IF pc = "idle" THEN 0 ELSE sqlen) <= MaxContext

PassInv == PassShape /\ KeysAreProjected /\ HiddenIsState /\ LogitsArePredicted /\ CallFits

\* A prediction depends on its tokens alone.
LEMMA SamePrediction == Predicted(context)' = Predicted(context')
  BY DEF Predicted, Reference

LEMMA NumberFacts ==
  ASSUME IInv
  PROVE  /\ past_sqlen \in Nat /\ sqlen \in Nat /\ layer \in Layers /\ layer \in Nat
         /\ MaxContext \in Nat /\ NumLayers \in Nat \ {0}
         /\ \A l \in Layers : Filled(l) \in Nat
  BY SizesArePositive DEF IInv, TypeOK, Filled

\* What attention finds while a layer runs: the reference's rows.
LEMMA SeenIsReference ==
  ASSUME IInv, PassInv, pc = "attend", NEW i \in 1..sqlen
  PROVE  Seen(i - 1) = SeenRows(layer, States(Fed)[layer], past_sqlen + i - 1)
<1>1. past_sqlen \in Nat /\ sqlen \in Nat /\ layer \in Layers
  BY NumberFacts
<1>2. Filled(layer) = past_sqlen + sqlen
  BY <1>1, SizesArePositive DEF Filled
<1>3. {k \in 0..(past_sqlen + sqlen - 1) : Unmasked(i - 1, k)} = 0..(past_sqlen + i - 1)
  BY <1>1 DEF Unmasked
<1>4. ASSUME NEW h \in Heads, NEW j \in 0..(past_sqlen + i - 1)
      PROVE  Content(cache[ViewAddress(layer, h, j)]) =
               <<h, Rotated(j, Norm(<<"input", layer>>, States(Fed)[layer][j]))>>
  <2>1. j \in 0..(Filled(layer) - 1)
    BY <1>1, <1>2
  <2>2. cache[ViewAddress(layer, h, j)] = <<layer, h, j>>
    BY <1>1, <2>1 DEF IInv, HoldsOwnRows
  <2>3. <<layer, h, j>> # Blank
    BY <1>1, SizesArePositive DEF Blank
  <2>4. kv[layer][j] = Norm(<<"input", layer>>, States(Fed)[layer][j])
    BY <1>1, <2>1 DEF PassInv, KeysAreProjected
  <2> QED
    BY <2>2, <2>3, <2>4 DEF Content
<1> QED
  BY <1>3, <1>4 DEF Seen, SeenRows

LEMMA LayerOutputIsState ==
  ASSUME IInv, PassInv, pc = "attend"
  PROVE  /\ Len(LayerOutput) = sqlen
         /\ \A i \in 1..sqlen : LayerOutput[i] = States(Fed)[layer + 1][past_sqlen + i - 1]
<1>1. past_sqlen \in Nat /\ sqlen \in Nat /\ layer \in Layers
  BY NumberFacts
<1>2. Len(Fed) = past_sqlen + sqlen
  BY <1>1, ConcatProperties DEF PassInv, PassShape, Fed
<1>3. Len(LayerOutput) = sqlen
  BY <1>1 DEF LayerOutput
<1>4. ASSUME NEW i \in 1..sqlen
      PROVE  LayerOutput[i] = States(Fed)[layer + 1][past_sqlen + i - 1]
  <2> DEFINE p == past_sqlen + i - 1
             x == States(Fed)[layer]
  <2>1. p \in 0..(Len(Fed) - 1)
    BY <1>1, <1>2
  <2>2. Through(Fed, layer, x)[p] = LayerRow(layer, x[p], p, SeenRows(layer, x, p))
    BY <2>1 DEF Through
  <2>3. hidden_states[i] = x[p] /\ Seen(i - 1) = SeenRows(layer, x, p)
    BY SeenIsReference DEF PassInv, HiddenIsState
  <2>4. LayerOutput[i] = LayerRow(layer, hidden_states[i], p, Seen(i - 1))
    BY DEF LayerOutput
  <2> QED
    BY <1>1, <2>2, <2>3, <2>4, StatesFacts
<1> QED
  BY <1>3, <1>4

-----------------------------------------------------------------------------
LEMMA InitPassInv == PassInit => PassInv
<1> SUFFICES ASSUME PassInit PROVE PassInv
  OBVIOUS
<1>1. IInv /\ pc = "idle" /\ past_sqlen = 0 /\ context = << >> /\ input_ids = << >>
      /\ hidden_states = << >>
  BY InitIInv DEF PassInit, Init
<1>2. PassShape /\ HiddenIsState /\ LogitsArePredicted /\ CallFits
  BY <1>1, SizesArePositive DEF PassShape, HiddenIsState, LogitsArePredicted, CallFits
<1>3. KeysAreProjected
  BY <1>1 DEF KeysAreProjected, Filled, PassInit
<1> QED
  BY <1>2, <1>3 DEF PassInv

LEMMA EmbedKeeps ==
  ASSUME IInv, PassInv,
         NEW n \in 1..(MaxContext - past_sqlen), NEW ids \in [1..n -> Token], Embed(ids)
  PROVE  PassInv'
<1>1. past_sqlen \in Nat /\ MaxContext \in Nat /\ NumLayers \in Nat \ {0}
  BY NumberFacts
<1>2. n \in Nat /\ n >= 1 /\ past_sqlen + n <= MaxContext
  BY <1>1
<1>3. ids \in Seq(Token) /\ Len(ids) = n
  BY <1>2
<1>4. /\ pc = "idle" /\ pc' = "refresh" /\ sqlen' = n /\ layer' = 0
      /\ input_ids' = ids /\ UNCHANGED <<past_sqlen, kv, logits, context>>
      /\ hidden_states' = [i \in 1..n |-> Embedding(ids[i])]
  BY <1>3 DEF Embed, Begin
<1>5. /\ context \in Seq(Token) /\ Len(context) = past_sqlen
      /\ input_ids \in Seq(Token) /\ Len(input_ids) = 0
  BY <1>4 DEF PassInv, PassShape
<1>6. Fed = context
  <2>1. input_ids = << >>
    BY <1>5, EmptySeq
  <2> QED
    BY <1>5, <2>1, ConcatEmptySeq DEF Fed
<1>7. Fed' = context \o ids
  BY <1>4 DEF Fed
<1>8. PassShape'
  <2>1. Len(hidden_states') = n
    BY <1>2, <1>4
  <2> QED
    BY <1>3, <1>4, <1>5, <2>1 DEF PassShape
<1>9. KeysAreProjected'
  <2>1. \A l \in Layers : Filled(l)' = past_sqlen /\ Filled(l) = past_sqlen
    BY <1>1, <1>4, SizesArePositive DEF Filled
  <2>2. ASSUME NEW l \in Layers, NEW p \in 0..(past_sqlen - 1)
        PROVE  kv[l][p] = Norm(<<"input", l>>, States(context \o ids)[l][p])
    <3>1. kv[l][p] = Norm(<<"input", l>>, States(context)[l][p])
      BY <1>6, <2>1 DEF PassInv, KeysAreProjected
    <3>2. l \in 0..NumLayers
      BY SizesArePositive
    <3>3. States(context \o ids)[l][p] = States(context)[l][p]
      BY <1>3, <1>5, <3>2, StatesOfPrefix
    <3> QED
      BY <3>1, <3>3
  <2>3. DOMAIN kv' = Layers /\ \A l \in Layers : DOMAIN kv'[l] = 0..(MaxContext - 1)
    BY <1>4 DEF PassInv, KeysAreProjected
  <2> QED
    BY <1>4, <1>7, <2>1, <2>2, <2>3 DEF KeysAreProjected
<1>10. HiddenIsState'
  <2> SUFFICES ASSUME NEW i \in 1..n
               PROVE  hidden_states'[i] = States(context \o ids)[0][past_sqlen + i - 1]
    BY <1>4, <1>7 DEF HiddenIsState
  <2> DEFINE u == context \o ids
  <2>1. /\ Len(u) = past_sqlen + n
        /\ u[past_sqlen + i] = ids[i]
    <3>1. /\ Len(u) = Len(context) + Len(ids)
          /\ \A k \in 1..(Len(context) + Len(ids)) :
               u[k] = IF k <= Len(context) THEN context[k] ELSE ids[k - Len(context)]
      BY <1>3, <1>5, ConcatProperties
    <3>2. past_sqlen + i \in 1..(past_sqlen + n) /\ ~(past_sqlen + i <= past_sqlen)
          /\ past_sqlen + i - past_sqlen = i
      BY <1>1, <1>2
    <3> HIDE DEF u
    <3> QED
      BY <1>3, <1>5, <3>1, <3>2
  <2> HIDE DEF u
  <2>2. past_sqlen + i - 1 \in 0..(Len(u) - 1) /\ past_sqlen + i - 1 + 1 = past_sqlen + i
    BY <1>1, <1>2, <2>1
  <2>3. Embedded(u)[past_sqlen + i - 1] = Embedding(ids[i])
    BY <2>1, <2>2 DEF Embedded
  <2>4. hidden_states'[i] = Embedding(ids[i])
    BY <1>4
  <2> QED
    BY <2>3, <2>4, StatesFacts DEF u
<1>11. LogitsArePredicted' /\ CallFits'
  BY <1>1, <1>2, <1>4 DEF PassInv, LogitsArePredicted, CallFits, Predicted, Reference
<1> QED
  BY <1>8, <1>9, <1>10, <1>11 DEF PassInv

LEMMA ProjectKeeps ==
  ASSUME IInv, PassInv, Project
  PROVE  PassInv'
<1>1. /\ past_sqlen \in Nat /\ sqlen \in Nat /\ layer \in Layers
      /\ MaxContext \in Nat /\ NumLayers \in Nat \ {0}
  BY NumberFacts
<1>2. /\ pc = "refresh" /\ pc' = "attend"
      /\ UNCHANGED <<layer, past_sqlen, sqlen, input_ids, hidden_states, logits, context>>
      /\ kv' = [kv EXCEPT ![layer] = [p \in DOMAIN kv[layer] |->
                  IF p \in past_sqlen .. (past_sqlen + sqlen - 1)
                  THEN Norm(<<"input", layer>>, hidden_states[p - past_sqlen + 1])
                  ELSE kv[layer][p]]]
  BY DEF Project, RefreshKV
<1>3. Fed' = Fed
  BY <1>2 DEF Fed
<1>4. PassShape' /\ HiddenIsState' /\ LogitsArePredicted' /\ CallFits'
  <2>1. PassShape' /\ CallFits'
    BY <1>2 DEF PassInv, PassShape, CallFits
  <2>2. HiddenIsState'
    BY <1>2, <1>3 DEF PassInv, HiddenIsState
  <2>3. LogitsArePredicted'
    BY <1>2, SamePrediction DEF PassInv, LogitsArePredicted
  <2> QED
    BY <2>1, <2>2, <2>3
<1>5. KeysAreProjected'
  <2>1. DOMAIN kv = Layers /\ \A l \in Layers : DOMAIN kv[l] = 0..(MaxContext - 1)
    BY DEF PassInv, KeysAreProjected
  <2>2. DOMAIN kv' = Layers /\ \A l \in Layers : DOMAIN kv'[l] = 0..(MaxContext - 1)
    BY <1>2, <2>1
  <2>3. ASSUME NEW l \in Layers, NEW p \in 0..(Filled(l)' - 1)
        PROVE  kv'[l][p] = Norm(<<"input", l>>, States(Fed)[l][p])
    <3>1. CASE l # layer
      <4>1. Filled(l)' = Filled(l) /\ kv'[l] = kv[l]
        BY <1>1, <1>2, <2>1, <3>1, SizesArePositive DEF Filled
      <4> QED
        BY <4>1, <2>3 DEF PassInv, KeysAreProjected
    <3>2. CASE l = layer
      <4>1. Filled(l)' = past_sqlen + sqlen /\ Filled(l) = past_sqlen
        BY <1>1, <1>2, <3>2, SizesArePositive DEF Filled
      <4>2. past_sqlen + sqlen <= MaxContext
        BY <1>2 DEF PassInv, CallFits
      <4>3. p \in 0..(past_sqlen + sqlen - 1)
        <5>1. PICK n \in Nat : n = Filled(l)'
          BY <1>1, <4>1
        <5>2. p \in 0..(n - 1)
          BY <5>1
        <5>3. n = past_sqlen + sqlen
          BY <4>1, <5>1
        <5> QED
          BY <1>1, <5>2, <5>3
      <4>4. p \in DOMAIN kv[layer]
        BY <1>1, <2>1, <4>2, <4>3
      <4>5. CASE p < past_sqlen
        <5>1. kv'[l][p] = kv[l][p]
          BY <1>1, <1>2, <2>1, <3>2, <4>4, <4>5
        <5>2. p \in 0..(Filled(l) - 1)
          BY <1>1, <4>1, <4>3, <4>5
        <5> QED
          BY <5>1, <5>2 DEF PassInv, KeysAreProjected
      <4>6. CASE ~(p < past_sqlen)
        <5>1. PICK i \in 1..sqlen : i = p - past_sqlen + 1 /\ past_sqlen + i - 1 = p
          BY <1>1, <4>3, <4>6
        <5>2. p \in past_sqlen .. (past_sqlen + sqlen - 1)
          BY <1>1, <4>3, <4>6
        <5>3. kv'[l][p] = Norm(<<"input", l>>, hidden_states[i])
          BY <1>1, <1>2, <2>1, <3>2, <4>4, <5>1, <5>2
        <5>4. hidden_states[i] = States(Fed)[layer][p]
          BY <1>2, <5>1 DEF PassInv, HiddenIsState
        <5> QED
          BY <3>2, <5>3, <5>4
      <4> QED
        BY <4>5, <4>6
    <3> QED
      BY <3>1, <3>2
  <2> QED
    BY <1>3, <2>2, <2>3 DEF KeysAreProjected
<1> QED
  BY <1>4, <1>5 DEF PassInv

LEMMA NextLayerKeeps ==
  ASSUME IInv, PassInv, NextLayer
  PROVE  PassInv'
<1>1. /\ past_sqlen \in Nat /\ sqlen \in Nat /\ layer \in Layers /\ layer \in Nat
  BY NumberFacts
<1>2. /\ pc = "attend" /\ pc' = "refresh" /\ layer' = layer + 1 /\ hidden_states' = LayerOutput
      /\ UNCHANGED <<past_sqlen, sqlen, input_ids, kv, logits, context>>
  BY DEF NextLayer, Attend
<1>3. Fed' = Fed
  BY <1>2 DEF Fed
<1>4. /\ Len(LayerOutput) = sqlen
      /\ \A i \in 1..sqlen : LayerOutput[i] = States(Fed)[layer + 1][past_sqlen + i - 1]
  BY <1>2, LayerOutputIsState
<1>5. PassShape' /\ HiddenIsState'
  BY <1>2, <1>3, <1>4 DEF PassInv, PassShape, HiddenIsState
<1>6. \A l \in Layers : Filled(l)' = Filled(l)
  BY <1>1, <1>2, SizesArePositive DEF Filled
<1>7. KeysAreProjected'
  BY <1>2, <1>3, <1>6 DEF PassInv, KeysAreProjected
<1>8. LogitsArePredicted' /\ CallFits'
  BY <1>2 DEF PassInv, LogitsArePredicted, CallFits, Predicted, Reference
<1> QED
  BY <1>5, <1>7, <1>8 DEF PassInv

LEMMA ReturnKeeps ==
  ASSUME IInv, PassInv, Return
  PROVE  /\ PassInv'
         /\ context' \in Seq(Token)
         /\ Len(context') > Len(context)
         /\ SubSeq(context', 1, Len(context)) = context
<1>1. /\ past_sqlen \in Nat /\ sqlen \in Nat \ {0} /\ layer \in Layers /\ layer \in Nat
      /\ NumLayers \in Nat \ {0}
  BY NumberFacts DEF Return, Finish, IInv, InRoom
<1>2. /\ pc = "attend" /\ pc' = "idle" /\ layer = NumLayers - 1
      /\ past_sqlen' = past_sqlen + sqlen
      /\ logits' = Logits(Norm("output", LastRow(LayerOutput)))
      /\ context' = Fed /\ input_ids' = << >> /\ hidden_states' = << >>
      /\ UNCHANGED <<layer, sqlen, kv>>
  BY DEF Return, Finish, Fed
<1>3. /\ context \in Seq(Token) /\ input_ids \in Seq(Token)
      /\ Len(context) = past_sqlen /\ Len(input_ids) = sqlen
  BY <1>2 DEF PassInv, PassShape
<1>4. /\ Fed \in Seq(Token) /\ Len(Fed) = past_sqlen + sqlen
      /\ \A k \in 1..past_sqlen : Fed[k] = context[k]
  <2>1. /\ Fed \in Seq(Token) /\ Len(Fed) = Len(context) + Len(input_ids)
        /\ \A k \in 1..(Len(context) + Len(input_ids)) :
             Fed[k] = IF k <= Len(context) THEN context[k] ELSE input_ids[k - Len(context)]
    BY <1>3, ConcatProperties DEF Fed
  <2> QED
    BY <1>1, <1>3, <2>1
<1>5. Fed' = Fed
  BY <1>2, <1>4, ConcatEmptySeq DEF Fed
<1>6. PassShape' /\ HiddenIsState' /\ CallFits'
  BY <1>1, <1>2, <1>3, <1>4 DEF PassInv, PassShape, HiddenIsState, CallFits
<1>7. \A l \in Layers : Filled(l)' = Filled(l)
  BY <1>1, <1>2, SizesArePositive DEF Filled
<1>8. KeysAreProjected'
  BY <1>2, <1>5, <1>7 DEF PassInv, KeysAreProjected
<1>9. LogitsArePredicted'
  <2>1. LastRow(LayerOutput) = States(Fed)[layer + 1][past_sqlen + sqlen - 1]
    BY <1>1, <1>2, LayerOutputIsState DEF LastRow
  <2>2. layer + 1 = NumLayers
    BY <1>1, <1>2
  <2>3. Logits(Norm("output", LastRow(LayerOutput))) = Predicted(Fed)
    <3>1. Reference(Fed) = States(Fed)[layer + 1]
      BY <2>2, StatesFacts
    <3>2. Len(Fed) - 1 = past_sqlen + sqlen - 1
      BY <1>1, <1>4
    <3> QED
      BY <2>1, <3>1, <3>2 DEF Predicted
  <2>4. Predicted(context)' = Predicted(context')
    BY SamePrediction
  <2> QED
    BY <1>2, <2>3, <2>4 DEF LogitsArePredicted
<1>10. Len(Fed) > Len(context)
  BY <1>1, <1>3, <1>4
<1>11. SubSeq(Fed, 1, Len(context)) = context
  <2>1. SubSeq(Fed, 1, Len(context)) = [k \in 1..past_sqlen |-> Fed[k]]
    BY <1>1, <1>3, <1>4
  <2>2. context = [k \in 1..past_sqlen |-> context[k]]
    BY <1>3
  <2> QED
    BY <1>4, <2>1, <2>2
<1> QED
  BY <1>2, <1>4, <1>6, <1>8, <1>9, <1>10, <1>11 DEF PassInv

LEMMA PassNextKeeps ==
  ASSUME IInv, PassInv, [PassNext]_passVars
  PROVE  PassInv'
<1>1. CASE UNCHANGED passVars
  <2>1. UNCHANGED <<pc, layer, past_sqlen, sqlen, input_ids, hidden_states, kv, logits, context>>
    BY <1>1 DEF passVars, vars, dataVars
  <2>2. Fed' = Fed /\ \A l \in Layers : Filled(l)' = Filled(l)
    BY <2>1 DEF Fed, Filled
  <2>3. PassShape' /\ CallFits' /\ HiddenIsState'
    BY <2>1, <2>2 DEF PassInv, PassShape, CallFits, HiddenIsState
  <2>4. LogitsArePredicted'
    BY <2>1, SamePrediction DEF PassInv, LogitsArePredicted
  <2>5. KeysAreProjected'
    BY <2>1, <2>2 DEF PassInv, KeysAreProjected
  <2> QED
    BY <2>3, <2>4, <2>5 DEF PassInv
<1> QED
  BY <1>1, EmbedKeeps, ProjectKeeps, NextLayerKeeps, ReturnKeeps DEF PassNext

LEMMA PassKeepsPassInv ==
  ASSUME MaxContext <= MaxSqlen
  PROVE  PassSpec => [](IInv /\ PassInv)
<1>1. PassInit => PassInv
  BY InitPassInv
<1>2. IInv /\ PassInv /\ [PassNext]_passVars => PassInv'
  BY PassNextKeeps
<1> QED
  BY <1>1, <1>2, PassKeepsIInv, PTL DEF PassSpec

(* The data of a pass keep their shapes: one row of activations per token   *)
(* of the call, one entry of the context per position of the cache.         *)
THEOREM PassTypeCorrect ==
  ASSUME MaxContext <= MaxSqlen
  PROVE  PassSpec => []PassTypeOK
<1>1. IInv /\ PassInv => PassTypeOK
  <2> SUFFICES ASSUME IInv, PassInv PROVE PassTypeOK
    OBVIOUS
  <2>1. TypeOK /\ InRoom
    BY DEF IInv
  <2>2. PassShape /\ DOMAIN kv = Layers
    BY DEF PassInv, KeysAreProjected
  <2>3. pc = "idle" <=> input_ids = << >>
    BY <2>1, <2>2, EmptySeq DEF PassShape, InRoom, TypeOK
  <2> QED
    BY <2>1, <2>2, <2>3 DEF PassTypeOK, PassShape
<1> QED
  BY <1>1, PassKeepsPassInv, PTL

(* The model answers for its whole context: however the context was cut     *)
(* into calls, the logits of a call are those that the layers, applied to   *)
(* all tokens at once, give the last of them (QwenForCausalLM.cc:24-67).    *)
(* Nothing is asked of the calls but that they fit the cache.               *)
THEOREM ImplementsModel ==
  ASSUME MaxContext <= MaxSqlen
  PROVE  PassSpec => ModelSpec
<1> DEFINE scored == IF context # << >> /\ logits = Predicted(context) THEN context ELSE << >>
<1>1. IInv /\ PassInv => scored = context
  BY DEF PassInv, LogitsArePredicted
<1>2. (IInv /\ PassInv => scored = context)'
  BY <1>1, PTL
<1>3. PassInit => Model!Init
  <2> SUFFICES ASSUME PassInit PROVE Model!Init
    OBVIOUS
  <2>1. IInv /\ PassInv /\ context = << >>
    BY InitIInv, InitPassInv DEF PassInit
  <2> QED
    BY <1>1, <2>1 DEF Model!Init
<1>4. IInv /\ PassInv /\ IInv' /\ PassInv' /\ [PassNext]_passVars => [Model!Feed]_<<context, scored>>
  <2> SUFFICES ASSUME IInv, PassInv, IInv', PassInv', [PassNext]_passVars
               PROVE  Model!Feed \/ UNCHANGED <<context, scored>>
    OBVIOUS
  <2>1. scored = context /\ scored' = context'
    BY <1>1, <1>2
  <2>2. CASE Return
    BY <2>1, <2>2, ReturnKeeps DEF Model!Feed
  <2>3. ASSUME ~Return PROVE UNCHANGED context
    BY <2>3 DEF PassNext, Embed, Project, NextLayer, passVars, dataVars
  <2> HIDE DEF scored
  <2> QED
    BY <2>1, <2>2, <2>3
<1> QED
  BY <1>3, <1>4, PassKeepsPassInv, PTL DEF PassSpec, ModelSpec, Model!Spec
=============================================================================
