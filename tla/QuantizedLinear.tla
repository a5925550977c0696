-------------------------- MODULE QuantizedLinear --------------------------
(***************************************************************************)
(* Qwen_Linear_with_bias_Int4: the linear layers of the model, from their  *)
(* four files through the repack buffer all constructors share to two      *)
(* repacked copies of the weights, and the forward passes that quantise    *)
(* their activation into one more shared buffer, in a format that depends  *)
(* on the number of rows, before a team of threads multiplies.             *)
(*                                                                         *)
(* A number is the place it comes from: an element of a layer's file, or   *)
(* of the activation of a call.  An output is the set of products summed.  *)
(***************************************************************************)
EXTENDS Integers, Sequences, FiniteSets

CONSTANTS
  Layers,              \* the layers in order, records [n, k]
  QBlk, Pack, Cols,    \* weights per quantised block, per pack, columns together
  RowsAtOnce,          \* rows of one tile of gemm_repack_A81W41_fp32
  MaxWeights,          \* max_weight_rows * max_weight_cols
  MaxActCols, MaxLen,  \* max_activation_cols, max_sqlen
  RowCounts,           \* numbers of tokens a pass may have
  Threads, MaxPasses   \* the team; bound on the passes explored

ASSUME LinearAssumption ==
  /\ {QBlk, Pack, Cols, RowsAtOnce, MaxWeights, MaxActCols, MaxLen} \subseteq Nat \ {0}
  /\ QBlk % (2 * Pack) = 0
  /\ Layers \in Seq([n : Nat \ {0}, k : Nat \ {0}]) /\ Layers # << >>
  /\ \A l \in DOMAIN Layers :
       /\ Layers[l].n % Cols = 0 /\ Layers[l].k % (2 * QBlk) = 0
       /\ Layers[l].n * Layers[l].k <= MaxWeights /\ Layers[l].k <= MaxActCols
  /\ RowCounts \subseteq 1..MaxLen

VARIABLES
  phase,               \* "load", "repack", "stopped", "idle", "quantize", "multiply", "returned"
  layer,               \* the layer constructed, or the one that computes
  file,                \* index in Files of the next file to load
  repack_buffer,       \* what was last written to each byte
  spilled,             \* files of which a byte was written outside the buffer
  weight_repack,       \* weight_repack[l][format]: the blocks of the layer
  m,                   \* rows of the activation
  call,                \* number of the call of forward
  passes,
  activation_buffer,   \* format and origin of the blocks at its start
  next,                \* first column block no thread has taken
  busy,                \* busy[t]: the column block and row thread t is at
  output

loading == <<file, repack_buffer, spilled, weight_repack>>
team == <<next, busy>>
vars == <<phase, layer, loading, m, call, passes, activation_buffer, team, output>>

-----------------------------------------------------------------------------
Unset == << >>
Formats == {"fp16", "fp32"}
FloatBytes(fmt) == IF fmt = "fp16" THEN 2 ELSE 4

N == Layers[layer].n
K == Layers[layer].k
BlocksAlongK(l) == Layers[l].k \div (2 * QBlk)
NumRepackBlocks(l) == (Layers[l].n * Layers[l].k) \div (2 * QBlk * Cols)

\* The two buffers, in bytes, as the constructor of the model sizes them.
RepackBytes ==
  (MaxWeights \div QBlk) * (2 * 4 + 4 * 4 + (1 \div 2) * QBlk + (1 \div 2) * QBlk)
ActivationBytesOfQuants == ((MaxLen * MaxActCols) \div QBlk) * QBlk
ActivationBytes == ((MaxLen * MaxActCols) \div QBlk) * (4 * 4 + 2 * 4 + QBlk)

\* The files of a layer, one view of the repack buffer after the other.
Files == <<"weight", "scale", "offset", "zero_point">>
ElementBytes(f) == IF Files[f] \in {"scale", "offset"} THEN 4 ELSE 1
Length(l, f) == Layers[l].n * (Layers[l].k \div (IF f = 1 THEN 2 ELSE QBlk))
SectionBytes(l, f) == ElementBytes(f) * Length(l, f)
Start(l, f) ==
  CASE f = 1 -> 0
    [] f = 2 -> SectionBytes(l, 1)
    [] f = 3 -> SectionBytes(l, 1) + SectionBytes(l, 2)
    [] f = 4 -> SectionBytes(l, 1) + SectionBytes(l, 2) + SectionBytes(l, 3)

\* The buffer after `got` elements of file f of layer l were read into it.
ReadInto(l, f, got) ==
  [a \in DOMAIN repack_buffer |->
     IF a - Start(l, f) \in 0..(ElementBytes(f) * got - 1)
     THEN <<l, Files[f], (a - Start(l, f)) \div ElementBytes(f)>>
     ELSE repack_buffer[a]]

\* Element e of view f: the bytes must be those of one number.
Element(l, f, e) ==
  LET first == Start(l, f) + e * ElementBytes(f)
      bytes == first .. (first + ElementBytes(f) - 1)
  IN  IF bytes \subseteq DOMAIN repack_buffer
           /\ \A a \in bytes : repack_buffer[a] = repack_buffer[first]
      THEN repack_buffer[first]
      ELSE Unset

\* The block i along K and j along N of repack_w81_weight_fp16 and _fp32.
Scale(l, f, i, column) == Element(l, f, column * (Layers[l].k \div QBlk) + i)
Coupled(l, i, column, t) == Element(l, 1, column * (Layers[l].k \div 2) + i * QBlk + t)
RepackedBlock(l, j, i) ==
  [s_low    |-> [jj \in 0..(Cols - 1) |-> Scale(l, 2, 2 * i, j * Cols + jj)],
   s_high   |-> [jj \in 0..(Cols - 1) |-> Scale(l, 2, 2 * i + 1, j * Cols + jj)],
   min_low  |-> [jj \in 0..(Cols - 1) |-> Scale(l, 3, 2 * i, j * Cols + jj)],
   min_high |-> [jj \in 0..(Cols - 1) |-> Scale(l, 3, 2 * i + 1, j * Cols + jj)],
   q_coupled |->
     [b \in 0..(QBlk * Cols - 1) |->
        LET inPack == b % (Pack * Cols)
        IN  Coupled(l, i, j * Cols + inPack \div Pack,
                    (b \div (Pack * Cols)) * Pack + (inPack % Pack))]]
Repacked(l) ==
  [b \in 0..(NumRepackBlocks(l) - 1) |->
     RepackedBlock(l, b \div BlocksAlongK(l), b % BlocksAlongK(l))]

-----------------------------------------------------------------------------
\* The weight in half `h` of byte p of a layer's weight file.
Weight(byte, h) ==
  LET rowBytes == Layers[byte[1]].k \div 2
      r == byte[3] % rowBytes
  IN  <<byte[1], byte[3] \div rowBytes,
        2 * QBlk * (r \div QBlk) + (r % QBlk) + (IF h = "high" THEN QBlk ELSE 0)>>

\* Place of the t-th quantised value of a block before the two saturating
\* packs and the final permutation of the eight groups of four.
HalfOfGroups == QBlk \div (2 * Pack)
PackedOrder(group, t) ==
  (group % HalfOfGroups) * 2 * Pack + (group \div HalfOfGroups) * Pack + (t % Pack)
UnpermutedOrder(t) == PackedOrder(t \div Pack, t)
PermutedOrder(t) ==
  LET group == t \div Pack
  IN  PackedOrder((group % 2) * HalfOfGroups + group \div 2, t)

BlockBytes(fmt) == 4 * FloatBytes(fmt) + 2 * QBlk
QuantizedBytes(fmt, rows) == ((rows * K) \div (2 * QBlk)) * BlockBytes(fmt)

\* Block b of the activation buffer read in format fmt: quantised values and
\* scales of the call that wrote it there, or noise.
ActValue(fmt, b, h, t) ==
  IF activation_buffer.format = fmt /\ b < activation_buffer.blocks
  THEN <<activation_buffer.call,
         2 * QBlk * b + (IF h = "high" THEN QBlk ELSE 0) + PermutedOrder(t)>>
  ELSE Unset
ActScale(fmt, b, h) ==
  IF activation_buffer.format = fmt /\ b < activation_buffer.blocks
  THEN <<activation_buffer.call, 2 * b + (IF h = "high" THEN 1 ELSE 0)>>
  ELSE Unset

\* What the registers of row r and lane jj of column block j add up to.
Halves(w, jj) ==
  {[h |-> "low", s |-> w.s_low[jj], min |-> w.min_low[jj]],
   [h |-> "high", s |-> w.s_high[jj], min |-> w.min_high[jj]]}
Accumulated(fmt, r, j, jj) ==
  UNION {LET w == weight_repack[layer][fmt][j * BlocksAlongK(layer) + blk]
             b == r * BlocksAlongK(layer) + blk
         IN  UNION {{<<ActValue(fmt, b, half.h, t),
                       Weight(w.q_coupled[(t \div Pack) * Pack * Cols + jj * Pack + (t % Pack)],
                              half.h),
                       ActScale(fmt, b, half.h), half.s>> : t \in 0..(QBlk - 1)}
                    \cup {<<ActScale(fmt, b, half.h), half.min>>} : half \in Halves(w, jj)}
         : blk \in 0..(BlocksAlongK(layer) - 1)}

\* gemm takes several rows of more than one, gemv the only one.
Format == IF m > 1 THEN "fp32" ELSE "fp16"
RowStep == IF m > 1 THEN RowsAtOnce ELSE 1
ValidRows(i) == IF RowStep < m - i THEN RowStep ELSE m - i
Address(i, j, jj) == i * N + j * Cols + jj

-----------------------------------------------------------------------------
Idle == [j |-> -1, i |-> 0]
NoActivation == [format |-> "none", call |-> 0, blocks |-> 0]

Init ==
  /\ phase = "load" /\ layer = 1 /\ file = 1
  /\ repack_buffer = [a \in 0..(RepackBytes - 1) |-> Unset]
  /\ spilled = {}
  /\ weight_repack = [l \in DOMAIN Layers |-> Unset]
  /\ m = 0 /\ call = 0 /\ passes = 0
  /\ activation_buffer = NoActivation
  /\ next = 0 /\ busy = [t \in Threads |-> Idle]
  /\ output = << >>

Advance == IF file < Len(Files) THEN phase' = phase /\ file' = file + 1
           ELSE phase' = "repack" /\ file' = 1

\* q4_w.load, scale.load, offset.load and zero_point.load, one by one.
LoadFile ==
  /\ phase = "load"
  /\ repack_buffer' = ReadInto(layer, file, Length(layer, file))
  /\ spilled' = IF Start(layer, file) + SectionBytes(layer, file) > RepackBytes
                THEN spilled \cup {<<layer, Files[file]>>} ELSE spilled
  /\ Advance
  /\ UNCHANGED <<layer, weight_repack, m, call, passes, activation_buffer, team, output>>

\* A file that is missing or short: read_to_array throws, nothing catches it.
ReadFailsUnnoticed ==
  /\ phase = "load"
  /\ \E got \in {0, Length(layer, file) \div 2} :
       repack_buffer' = ReadInto(layer, file, got)
  /\ Advance
  /\ UNCHANGED <<layer, spilled, weight_repack, m, call, passes, activation_buffer, team, output>>
ReadFails ==
  /\ phase = "load"
  /\ \E got \in {0, Length(layer, file) \div 2} :
       repack_buffer' = ReadInto(layer, file, got)
  /\ phase' = "stopped"
  /\ UNCHANGED <<layer, file, spilled, weight_repack, m, call, passes, activation_buffer, team,
                 output>>

\* The end of a constructor; the next layer's, or the model is complete.
Repack ==
  /\ phase = "repack"
  /\ weight_repack' = [weight_repack EXCEPT ![layer] = [fmt \in Formats |-> Repacked(layer)]]
  /\ IF layer < Len(Layers) THEN phase' = "load" /\ layer' = layer + 1
     ELSE phase' = "idle" /\ layer' = layer
  /\ UNCHANGED <<file, repack_buffer, spilled, m, call, passes, activation_buffer, team, output>>

-----------------------------------------------------------------------------
\* A pass over all layers; every one is handed an activation of its own.
BeginPass ==
  /\ phase = "idle" /\ passes < MaxPasses
  /\ m' \in RowCounts
  /\ passes' = passes + 1
  /\ phase' = "quantize" /\ layer' = 1
  /\ UNCHANGED <<loading, call, activation_buffer, team, output>>

Quantize ==
  /\ phase = "quantize"
  /\ call' = call + 1
  /\ activation_buffer' =
       [format |-> Format, call |-> call + 1, blocks |-> (m * K) \div (2 * QBlk)]
  /\ phase' = "multiply" /\ next' = 0
  /\ UNCHANGED <<layer, loading, m, passes, busy, output>>

\* schedule(dynamic): an idle thread takes the next block of columns.
TakeSame(t) ==
  /\ phase = "multiply" /\ busy[t] = Idle
  /\ next < N \div Cols
  /\ busy' = [busy EXCEPT ![t] = [j |-> next, i |-> 0]]
  /\ UNCHANGED <<phase, layer, loading, m, call, passes, activation_buffer, next, output>>
Take(t) ==
  /\ phase = "multiply" /\ busy[t] = Idle
  /\ next < N \div Cols
  /\ busy' = [busy EXCEPT ![t] = [j |-> next, i |-> 0]]
  /\ next' = next + 1
  /\ UNCHANGED <<phase, layer, loading, m, call, passes, activation_buffer, output>>

\* One tile is accumulated and its valid rows are stored.
ComputeTile(t) ==
  /\ phase = "multiply" /\ busy[t] # Idle
  /\ LET i == busy[t].i
         j == busy[t].j
         tile == (0..(ValidRows(i) - 1)) \X (0..(Cols - 1))
         At(cell) == Address(i + cell[1], j, cell[2])
         sums == [cell \in tile |-> Accumulated(Format, i + cell[1], j, cell[2])]
         stored == {At(cell) : cell \in tile}
     IN  /\ output' =
              [a \in DOMAIN output \cup stored |->
                 IF a \in stored THEN sums[CHOOSE cell \in tile : At(cell) = a] ELSE output[a]]
         /\ busy' = [busy EXCEPT ![t] =
                       IF i + RowStep < m THEN [j |-> j, i |-> i + RowStep] ELSE Idle]
  /\ UNCHANGED <<phase, layer, loading, m, call, passes, activation_buffer, next>>

\* The implicit barrier, and forward returns.
AllTaken == next = N \div Cols
Joined == AllTaken /\ \A t \in Threads : busy[t] = Idle
Return ==
  /\ phase = "multiply" /\ Joined
  /\ phase' = "returned"
  /\ UNCHANGED <<layer, loading, m, call, passes, activation_buffer, team, output>>

\* The output is the caller's now; the next call makes its own.
NextLayer ==
  /\ phase = "returned"
  /\ output' = << >>
  /\ IF layer < Len(Layers) THEN phase' = "quantize" /\ layer' = layer + 1
     ELSE phase' = "idle" /\ layer' = layer
  /\ UNCHANGED <<loading, m, call, passes, activation_buffer, team>>

Work(t) == Take(t) \/ ComputeTile(t)
Next ==
  \/ LoadFile \/ ReadFails \/ Repack
  \/ BeginPass \/ Quantize \/ Return \/ NextLayer
  \/ \E t \in Threads : Work(t)

Spec == Init /\ [][Next]_vars
FairSpec ==
  /\ Spec
  /\ WF_vars(Quantize \/ Return)
  /\ \A t \in Threads : WF_vars(Work(t))

-----------------------------------------------------------------------------
\* The matrix product of the activation of this call with the weights of this
\* layer, each number with the scale of its own block (quantize_methods.py).
Product(r, column) ==
  {<<<<call, r * K + p>>, <<layer, column, p>>,
     <<call, (r * K + p) \div QBlk>>,
     <<layer, "scale", (column * K + p) \div QBlk>>>> : p \in 0..(K - 1)}
  \cup
  {<<<<call, r * (K \div QBlk) + b>>,
     <<layer, "offset", column * (K \div QBlk) + b>>>> : b \in 0..((K \div QBlk) - 1)}

\* Whatever earlier calls left in the activation buffer, in whichever format,
\* and whoever takes which columns: an output that is stored is the product of
\* the layer's own weights with this call's activation, and forward returns
\* with every output stored.
OutputIsProduct ==
  /\ phase \in {"multiply", "returned"} =>
       \A a \in DOMAIN output : output[a] = Product(a \div N, a % N)
  /\ phase = "returned" => DOMAIN output = 0..(m * N - 1)

\* A layer that was constructed holds, in both formats, numbers of its own
\* files only, although all constructors load through one buffer and a file
\* may be missing or short.
PackedIsOwn ==
  \A l \in DOMAIN Layers : weight_repack[l] # Unset =>
    \A fmt \in Formats, b \in 0..(NumRepackBlocks(l) - 1) :
      LET w == weight_repack[l][fmt][b]
      IN  /\ \A jj \in 0..(Cols - 1) :
               /\ {w.s_low[jj], w.s_high[jj]} \subseteq {l} \X {"scale"} \X (0..(Length(l, 2) - 1))
               /\ {w.min_low[jj], w.min_high[jj]}
                    \subseteq {l} \X {"offset"} \X (0..(Length(l, 3) - 1))
          /\ \A p \in DOMAIN w.q_coupled :
               w.q_coupled[p] \in {l} \X {"weight"} \X (0..(Length(l, 1) - 1))

\* The tile that starts in the last rows reads a full set of rows, however few
\* are valid: neither it nor the quantisation leaves the activation buffer.
KernelReadsInside ==
  phase = "multiply" =>
    /\ QuantizedBytes(Format, m) <= ActivationBytes
    /\ \A t \in Threads : busy[t] # Idle =>
         QuantizedBytes(Format, busy[t].i + RowStep) <= ActivationBytes

\* A forward that has been called returns.
ForwardReturns == (phase = "quantize") ~> (phase = "returned")

\* `buffer to load weights before repacking` (QwenOperator.h): what the
\* constructors load fits the buffer.
RepackBufferHolds == spilled = {}
=============================================================================
