------------------------------ MODULE KVCache ------------------------------
(***************************************************************************)
(* The key/value cache: one flat buffer (ModelContext::k_cache, and a      *)
(* v_cache treated alike) that the decoder layers share, each through a    *)
(* pointer to its slice, and that one forward pass refreshes layer by      *)
(* layer while the attention of each layer reads it through a strided      *)
(* view.  The unit is a row of head_dim floats: every offset of the code   *)
(* is a multiple of head_dim.                                              *)
(*                                                                         *)
(* A row's content is the layer, head and position it was computed for, so *)
(* a row found where another belongs is seen to be wrong.                  *)
(***************************************************************************)
EXTENDS Integers

CONSTANTS
  NumLayers,    \* config.num_layers
  NumKvHeads,   \* config.num_kv_head
  MaxSqlen,     \* config.max_sqlen
  MaxContext    \* bound: positions a caller ever reaches

ASSUME KVAssumption ==
  /\ {NumLayers, NumKvHeads, MaxSqlen} \subseteq Nat \ {0}
  /\ MaxContext \in Nat

VARIABLES
  pc,          \* "idle", "refresh" or "attend"
  layer,       \* index of the layer at work
  past_sqlen,
  sqlen,       \* tokens of the current pass
  cache,       \* cache[a]: content of row a of the buffer
  wild         \* addresses past the end of the buffer written to

vars == <<pc, layer, past_sqlen, sqlen, cache, wild>>

Layers == 0..(NumLayers - 1)
Heads == 0..(NumKvHeads - 1)
CacheSize == NumLayers * MaxSqlen * NumKvHeads
Addresses == 0..(CacheSize - 1)

Blank == <<-1, -1, -1>>     \* make_unique<float[]> zero-initialises
Row == Layers \X Heads \X Nat

-----------------------------------------------------------------------------
\* k_cache.get() + layer_idx * (num_kv_head * max_sqlen * head_dim)
Slice(l) == l * (NumKvHeads * MaxSqlen)

\* std::next(past_k_cache_end, k_cache_stride_dim0)
PackedStride == past_sqlen + sqlen
HeadStride == MaxSqlen

\* Row p of head h as the views k_cache_view and v_cache_view address it.
ViewAddress(l, h, p) == Slice(l) + h * HeadStride + p

\* Where std::copy starts for head h: past_k_cache_end after h increments.
CopyStart(l, h) == Slice(l) + past_sqlen + h * HeadStride

CopySpan(l, h) == CopyStart(l, h) .. (CopyStart(l, h) + sqlen - 1)

\* The heads are copied in order: where spans meet, the last head's row stays.
LastWriter(l, a) ==
  CHOOSE h \in Heads :
    /\ a \in CopySpan(l, h)
    /\ \A g \in Heads : a \in CopySpan(l, g) => g <= h

Refreshed(l) ==
  [a \in Addresses |->
     IF \E h \in Heads : a \in CopySpan(l, h)
     THEN LET h == LastWriter(l, a) IN <<l, h, past_sqlen + (a - CopyStart(l, h))>>
     ELSE cache[a]]

\* prepare_decoder_attention_mask: query i of the pass may look at key j.
UnmaskedStrictly(i, j) == j < i + past_sqlen
Unmasked(i, j) == j <= i + past_sqlen

\* What query i of the pass attends to in head h of layer l.
Attended(l, h, i) ==
  {cache[ViewAddress(l, h, j)] : j \in {k \in 0..(past_sqlen + sqlen - 1) : Unmasked(i, k)}}

-----------------------------------------------------------------------------
Init ==
  /\ pc = "idle"
  /\ layer = 0
  /\ past_sqlen = 0
  /\ sqlen = 0
  /\ cache = [a \in Addresses |-> Blank]
  /\ wild = {}

\* Qwen3ForCausalLM::forward is called with n tokens; encode leaves at most
\* max_sqlen of them (QwenTokenizer.cc:77-79).
Begin(n) ==
  /\ pc = "idle"
  /\ past_sqlen + n <= MaxContext
  /\ sqlen' = n
  /\ layer' = 0
  /\ pc' = "refresh"
  /\ UNCHANGED <<past_sqlen, cache, wild>>

\* Stage 2 of Qwen3Attention::forward.
RefreshKV ==
  /\ pc = "refresh"
  /\ cache' = Refreshed(layer)
  /\ wild' = wild \cup UNION {CopySpan(layer, h) \ Addresses : h \in Heads}
  /\ pc' = "attend"
  /\ UNCHANGED <<layer, past_sqlen, sqlen>>

\* The rest of the layer reads the views, then the next layer runs.
Attend ==
  /\ pc = "attend"
  /\ layer < NumLayers - 1
  /\ layer' = layer + 1
  /\ pc' = "refresh"
  /\ UNCHANGED <<past_sqlen, sqlen, cache, wild>>

FinishWithoutAdvance ==
  /\ pc = "attend"
  /\ layer = NumLayers - 1
  /\ pc' = "idle"
  /\ UNCHANGED <<layer, past_sqlen, sqlen, cache, wild>>

\* The last layer; past_sqlen advances once, after all layers used it.
Finish ==
  /\ pc = "attend"
  /\ layer = NumLayers - 1
  /\ past_sqlen' = past_sqlen + sqlen
  /\ pc' = "idle"
  /\ UNCHANGED <<layer, sqlen, cache, wild>>

Next ==
  \/ \E n \in 1..MaxSqlen : Begin(n)
  \/ RefreshKV
  \/ Attend
  \/ Finish

Spec == Init /\ [][Next]_vars

-----------------------------------------------------------------------------
TypeOK ==
  /\ pc \in {"idle", "refresh", "attend"}
  /\ layer \in Layers
  /\ past_sqlen \in Nat
  /\ sqlen \in 0..MaxSqlen
  /\ cache \in [Addresses -> Row \cup {Blank}]
  /\ wild \subseteq Nat

\* Rows that layer l holds of every head: those of earlier passes, and this
\* pass's once the layer has refreshed them.
Filled(l) ==
  IF pc # "idle" /\ (l < layer \/ (l = layer /\ pc = "attend"))
  THEN past_sqlen + sqlen
  ELSE past_sqlen

(* Each query attends to the rows of its own layer and head, of every       *)
(* position up to its own and of no later one: a prompt processed at once   *)
(* sees what it would see token by token (QwenAttention.cc:96-144,          *)
(* QwenDecoder.cc:6-21).                                                    *)
AttendsToOwnPast ==
  pc = "attend" =>
    \A h \in Heads, i \in 0..(sqlen - 1) :
      Attended(layer, h, i) = {<<layer, h, p>> : p \in 0..(past_sqlen + i)}

(* At every moment the cache holds, for every layer and head, its own rows  *)
(* in the order of their positions, and nothing outside the buffer was      *)
(* written.                                                                 *)
HoldsOwnRows ==
  /\ \A l \in Layers, h \in Heads :
       \A p \in 0..(Filled(l) - 1) : cache[ViewAddress(l, h, p)] = <<l, h, p>>
  /\ wild = {}

-----------------------------------------------------------------------------
(* What the layers promise of the cache: a log of rows per layer and head,  *)
(* to which a refresh of the layer appends.                                 *)
Log == INSTANCE KVLog WITH
  log <- [lh \in Layers \X Heads |->
            [p \in 1..Filled(lh[1]) |-> cache[ViewAddress(lh[1], lh[2], p - 1)]]],
  MaxAppend <- MaxSqlen

LogSpec == Log!Spec
=============================================================================
