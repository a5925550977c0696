--------------------------- MODULE AttentionGemm ---------------------------
(***************************************************************************)
(* The two batched products of attention, bgemxGQA::forward_ink_kernel_qk  *)
(* (kernels rcr) and forward_ink_kernel_pv (kernels rrr): head by head a   *)
(* blocked product whose panels are packed into two static buffers by a    *)
(* team of OpenMP threads and multiplied by another, or, for a single      *)
(* token, one matrix-vector product per head.                              *)
(*                                                                         *)
(* An element of A or B is its head and its offset in memory; an element   *)
(* of C is the sequence of products added to it, so that a product that is *)
(* lost, repeated, or taken from a stale panel can be told.                *)
(***************************************************************************)
EXTENDS Integers, Sequences, FiniteSets

CONSTANTS
  Threads,
  NumHeads, GroupSize,  \* query heads, and how many of them share a B
  MR, NR,               \* the kernel's tile of C
  MC, NC, KC,           \* the blocks that the buffers hold
  Lanes,                \* floats of one vector register
  Shapes                \* the products asked for

Shape == [layout : {"rrr", "rcr"}, m : Nat \ {0}, n : Nat \ {0}, k : Nat \ {0}]

\* The inner dimension of the rcr product is head_dim, a multiple of a vector.
ASSUME GemmAssumption ==
  /\ {NumHeads, GroupSize, MR, NR, MC, NC, KC, Lanes} \subseteq Nat \ {0}
  /\ MC % MR = 0 /\ NC % NR = 0
  /\ Shapes \subseteq Shape
  /\ \A s \in Shapes : s.layout = "rcr" => s.k % Lanes = 0

VARIABLES
  shape,
  region,          \* the parallel region at work, "start" or "done"
  head,            \* head_idx
  ic, pk, jc,      \* origin of the current block in M, K and N
  next,            \* first iteration of the region no thread has taken
  busy,            \* busy[t]: the iteration thread t is in
  blockA_packed, blockB_packed,
  C

origin == <<head, ic, pk, jc>>
blocks == <<blockA_packed, blockB_packed>>
vars == <<shape, region, origin, next, busy, blocks, C>>

-----------------------------------------------------------------------------
Least(i, j) == IF i < j THEN i ELSE j

Heads == 0..(NumHeads - 1)
ValidMC == Least(shape.m - ic, MC)
ValidNC == Least(shape.n - jc, NC)
UnclippedKC == shape.k - pk
ValidKC == Least(shape.k - pk, KC)
ValidMR(ir) == Least(ValidMC - ir, MR)
ValidNR(jr) == Least(ValidNC - jr, NR)

\* The macros A(i, j), B(i, j) and the pointers of each head.
AElement(i, p) == <<head, i * shape.k + p>>
Group(h) == h \div GroupSize
BOffset(p, j) == IF shape.layout = "rrr" THEN p * shape.n + j ELSE j * shape.k + p
BElement(h, p, j) == <<Group(h), BOffset(p, j)>>
CAddress(i, j) == i * shape.n + j

Unset == << >>

\* Where a panel starts in its buffer.
PanelStart(i) == i * ValidKC

PackedA(ir) ==
  LET rows == ValidMR(ir)
      span == PanelStart(ir) .. (PanelStart(ir) + rows * ValidKC - 1)
      Offset(a) == a - PanelStart(ir)
  IN  [a \in DOMAIN blockA_packed |->
         IF a \in span THEN AElement(ic + ir + (Offset(a) % rows), pk + (Offset(a) \div rows))
         ELSE blockA_packed[a]]

PackedB(jr) ==
  LET columns == ValidNR(jr)
      span == PanelStart(jr) .. (PanelStart(jr) + columns * ValidKC - 1)
      Offset(a) == a - PanelStart(jr)
  IN  [a \in DOMAIN blockB_packed |->
         IF a \in span
         THEN BElement(head, pk + (Offset(a) \div columns), jc + jr + (Offset(a) % columns))
         ELSE blockB_packed[a]]

\* The elements of C that the masks and the switch over valid_m let through.
Tile(ir, jr) == (0..(ValidMR(ir) - 1)) \X (0..(ValidNR(jr) - 1))
TileAddress(ir, jr, rc) == CAddress(ic + ir + rc[1], jc + jr + rc[2])

LoadedTile(ir, jr) == [rc \in Tile(ir, jr) |-> C[<<head, TileAddress(ir, jr, rc)>>]]

\* The fmadds over p, on the panels as they are now.
Multiplied(regs, ir, jr) ==
  [rc \in Tile(ir, jr) |->
     regs[rc] \o [p \in 1..ValidKC |->
       <<blockA_packed[PanelStart(ir) + (p - 1) * ValidMR(ir) + rc[1]],
         blockB_packed[PanelStart(jr) + (p - 1) * ValidNR(jr) + rc[2]]>>]]

StoredTile(regs, ir, jr) ==
  [ha \in DOMAIN C |->
     IF \E rc \in Tile(ir, jr) : ha = <<head, TileAddress(ir, jr, rc)>>
     THEN regs[CHOOSE rc \in Tile(ir, jr) : ha = <<head, TileAddress(ir, jr, rc)>>]
     ELSE C[ha]]

\* One row of C by batch_gemv: rrr adds to it, rcr overwrites it with a sum
\* over whole vectors.
VectorSpan == ((shape.k + Lanes - 1) \div Lanes) * Lanes
GemvRow(h) ==
  [ha \in DOMAIN C |->
     IF ha[1] # h THEN C[ha]
     ELSE LET sum == [p \in 1..(IF shape.layout = "rcr" THEN VectorSpan ELSE shape.k) |->
                        <<<<h, p - 1>>, BElement(h, p - 1, ha[2])>>]
          IN  IF shape.layout = "rcr" THEN sum ELSE C[ha] \o sum]

-----------------------------------------------------------------------------
\* The loop bound and stride of the region's parallel for.
Limit ==
  CASE region \in {"packA", "multiply"} -> ValidMC
    [] region = "packB" -> ValidNC
    [] region = "gemv" -> NumHeads
    [] OTHER -> 0
Stride ==
  CASE region \in {"packA", "multiply"} -> MR
    [] region = "packB" -> NR
    [] OTHER -> 1

Idle == [start |-> -1, jr |-> 0, regs |-> Unset]

\* The implicit barrier at the end of a parallel for.
NoWait == next >= Limit
Barrier == next >= Limit /\ \A t \in Threads : busy[t] = Idle

Enter(r) == region' = r /\ next' = 0

\* Matrix3D allocates with make_unique<T[]>, which zeroes: no sum has a term.
FreshMatrix == [ha \in Heads \X (0..(shape.m * shape.n - 1)) |-> << >>]

Init ==
  /\ shape \in Shapes
  /\ region = "start"
  /\ head = 0 /\ ic = 0 /\ pk = 0 /\ jc = 0
  /\ next = 0
  /\ busy = [t \in Threads |-> Idle]
  /\ blockA_packed = [a \in 0..(MC * KC - 1) |-> Unset]
  /\ blockB_packed = [a \in 0..(KC * NC - 1) |-> Unset]
  /\ C = FreshMatrix

\* forward_ink_kernel_pv clears the output, forward_ink_kernel_qk relies on a
\* fresh Matrix3D being zero.
Begin ==
  /\ region = "start"
  /\ C' = IF shape.layout = "rrr" THEN [ha \in DOMAIN C |-> << >>] ELSE C
  /\ Enter(IF shape.m > 1 THEN "packA" ELSE "gemv")
  /\ UNCHANGED <<shape, origin, busy, blocks>>

\* schedule(dynamic): an idle thread takes the next iteration.
TakeWithoutAdvance(t) ==
  /\ busy[t] = Idle
  /\ next < Limit
  /\ busy' = [busy EXCEPT ![t] = [Idle EXCEPT !.start = next]]
  /\ UNCHANGED <<shape, region, origin, next, blocks, C>>
Take(t) ==
  /\ busy[t] = Idle
  /\ next < Limit
  /\ busy' = [busy EXCEPT ![t] = [Idle EXCEPT !.start = next]]
  /\ next' = next + Stride
  /\ UNCHANGED <<shape, region, origin, blocks, C>>

PackPanelA(t) ==
  /\ region = "packA" /\ busy[t] # Idle
  /\ blockA_packed' = PackedA(busy[t].start)
  /\ busy' = [busy EXCEPT ![t] = Idle]
  /\ UNCHANGED <<shape, region, origin, next, blockB_packed, C>>

PackPanelB(t) ==
  /\ region = "packB" /\ busy[t] # Idle
  /\ blockB_packed' = PackedB(busy[t].start)
  /\ busy' = [busy EXCEPT ![t] = Idle]
  /\ UNCHANGED <<shape, region, origin, next, blockA_packed, C>>

\* kernel_16x6 first loads the tile of C ...
LoadTile(t) ==
  /\ region = "multiply" /\ busy[t] # Idle /\ busy[t].regs = Unset
  /\ busy' = [busy EXCEPT ![t].regs = LoadedTile(busy[t].start, busy[t].jr)]
  /\ UNCHANGED <<shape, region, origin, next, blocks, C>>

\* ... and stores it once the products are added; then the next jr.
StoreTile(t) ==
  /\ region = "multiply" /\ busy[t] # Idle /\ busy[t].regs # Unset
  /\ LET ir == busy[t].start
         jr == busy[t].jr
     IN  /\ C' = StoredTile(Multiplied(busy[t].regs, ir, jr), ir, jr)
         /\ busy' = [busy EXCEPT ![t] =
                       IF jr + NR < ValidNC THEN [start |-> ir, jr |-> jr + NR, regs |-> Unset]
                       ELSE Idle]
  /\ UNCHANGED <<shape, region, origin, next, blocks>>

MultiplyHead(t) ==
  /\ region = "gemv" /\ busy[t] # Idle
  /\ C' = GemvRow(busy[t].start)
  /\ busy' = [busy EXCEPT ![t] = Idle]
  /\ UNCHANGED <<shape, region, origin, next, blocks>>

\* The master thread goes on when the team has joined.
PackedBlockA ==
  /\ region = "packA" /\ Barrier
  /\ Enter("packB")
  /\ UNCHANGED <<shape, origin, busy, blocks, C>>

PackedBlockB ==
  /\ region = "packB" /\ Barrier
  /\ Enter("multiply")
  /\ UNCHANGED <<shape, origin, busy, blocks, C>>

NextColumns ==
  /\ region = "multiply" /\ Barrier
  /\ jc + NC < shape.n
  /\ jc' = jc + NC
  /\ Enter("packB")
  /\ UNCHANGED <<shape, head, ic, pk, busy, blocks, C>>

RowDone == region = "multiply" /\ Barrier /\ jc + NC >= shape.n

NextDepthKeepingA ==
  /\ RowDone
  /\ pk + KC < shape.k
  /\ pk' = pk + KC /\ jc' = 0
  /\ Enter("packB")
  /\ UNCHANGED <<shape, head, ic, busy, blocks, C>>
NextDepth ==
  /\ RowDone
  /\ pk + KC < shape.k
  /\ pk' = pk + KC /\ jc' = 0
  /\ Enter("packA")
  /\ UNCHANGED <<shape, head, ic, busy, blocks, C>>

NextRows ==
  /\ RowDone
  /\ pk + KC >= shape.k /\ ic + MC < shape.m
  /\ ic' = ic + MC /\ pk' = 0 /\ jc' = 0
  /\ Enter("packA")
  /\ UNCHANGED <<shape, head, busy, blocks, C>>

ProductDone == RowDone /\ pk + KC >= shape.k /\ ic + MC >= shape.m

NextHead ==
  /\ ProductDone
  /\ head + 1 < NumHeads
  /\ head' = head + 1
  /\ ic' = 0 /\ pk' = 0 /\ jc' = 0
  /\ Enter("packA")
  /\ UNCHANGED <<shape, busy, blocks, C>>

Finish ==
  /\ \/ ProductDone /\ head + 1 = NumHeads
     \/ region = "gemv" /\ Barrier
  /\ Enter("done")
  /\ UNCHANGED <<shape, origin, busy, blocks, C>>

Work(t) ==
  Take(t) \/ PackPanelA(t) \/ PackPanelB(t) \/ LoadTile(t) \/ StoreTile(t) \/ MultiplyHead(t)

Master ==
  \/ Begin \/ PackedBlockA \/ PackedBlockB
  \/ NextColumns \/ NextDepth \/ NextRows \/ NextHead \/ Finish

Next == Master \/ \E t \in Threads : Work(t)

Spec == Init /\ [][Next]_vars

\* The operating system lets every runnable thread run again.
FairSpec == Spec /\ WF_vars(Master) /\ \A t \in Threads : WF_vars(Work(t))

-----------------------------------------------------------------------------
\* The sum that element a of head h stands for, in the order of p.
FullSum(h, a) ==
  LET i == a \div shape.n
      j == a % shape.n
  IN  [p \in 1..shape.k |->
         <<<<h, i * shape.k + p - 1>>,
           <<h \div GroupSize, IF shape.layout = "rrr" THEN (p - 1) * shape.n + j
                               ELSE j * shape.k + p - 1>>>>]

(* Whatever the threads' schedule, every element of C is at every moment a  *)
(* partial sum of its own row and column in the order of p: no product is   *)
(* lost, repeated, or made from a panel of another block or head.           *)
SumsInOrder ==
  \A ha \in DOMAIN C :
    Len(C[ha]) <= shape.k /\ C[ha] = SubSeq(FullSum(ha[1], ha[2]), 1, Len(C[ha]))

(* When the master returns, every sum is complete.                          *)
ProductComplete ==
  region = "done" => \A ha \in DOMAIN C : C[ha] = FullSum(ha[1], ha[2])

(* kernel_16x6 reads MR rows and NR columns of its panels even where fewer  *)
(* are valid: the surplus reads stay inside the static buffers.             *)
KernelReadsInside ==
  region = "multiply" =>
    \A t \in Threads : busy[t] # Idle =>
      /\ PanelStart(busy[t].start) + (ValidKC - 1) * ValidMR(busy[t].start) + MR <= MC * KC
      /\ PanelStart(busy[t].jr) + (ValidKC - 1) * ValidNR(busy[t].jr) + NR <= KC * NC

(* Every product comes to an end: no region waits for an iteration that     *)
(* nobody takes.                                                            *)
GemmEnds == <>(region = "done")
=============================================================================
