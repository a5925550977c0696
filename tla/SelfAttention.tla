--------------------------- MODULE SelfAttention ---------------------------
(***************************************************************************)
(* The data layout of Qwen3Attention::forward: the fused projection is cut *)
(* into columns, regrouped into heads, normalised and rotated head by      *)
(* head, stored in the cache, multiplied group by group and put together   *)
(* again as one row per token.  All of it is index arithmetic on flat      *)
(* arrays, and a wrong index still yields a matrix of the right shape.     *)
(*                                                                         *)
(* A number is the term that computed it: column c of the projection of    *)
(* position p is <<p, c>>.  KVCache has the layers and their slices,       *)
(* AttentionGemm the kernels, AttentionWeights the mask and the softmax;   *)
(* here is one layer, down to the element.                                 *)
(***************************************************************************)
EXTENDS Tensor

CONSTANTS
  NumQHead, NumKvHead,   \* config.num_q_head, config.num_kv_head
  HeadDim,               \* config.head_dim
  MaxSqlen               \* config.max_sqlen

\* hidden_dim is num_q_head * head_dim, and the constructor asserts
\* head_dim == kv_dim / num_kv_head.
QDim == NumQHead * HeadDim
KvDim == QDim \div 4

ASSUME HeadAssumption ==
  /\ {NumQHead, NumKvHead, HeadDim, MaxSqlen} \subseteq Nat \ {0}
  /\ HeadDim % 2 = 0
  /\ HeadDim = KvDim \div NumKvHead

VARIABLES
  pc,              \* the stage that runs next
  past_sqlen,
  sqlen,
  query_states, key_states, value_states,
  k_cache, v_cache,
  attn_weights,    \* one score for each query head, query and key
  attn_output

states == <<query_states, key_states, value_states>>
caches == <<k_cache, v_cache>>
vars == <<pc, past_sqlen, sqlen, states, caches, attn_weights, attn_output>>

-----------------------------------------------------------------------------
Empty == Filled(0, 0, 0, LAMBDA i, j, k : << >>)

total_context_sqlen == past_sqlen + sqlen

\* qkv_proj.forward: one row for each token of the call.
Qkv == Filled(1, sqlen, QDim + 2 * KvDim, LAMBDA i, j, k : <<past_sqlen + j, k>>)

\* Each row of the last dimension over its root mean square, times weight.
RMSNorm(weight, m) ==
  Filled(m.x, m.y, m.z,
         LAMBDA i, j, k : <<weight, k, [c \in 0..(m.z - 1) |-> At(m, i, j, c)]>>)

\* q_buf and k_buf: the other half of the row, the first one negated.
Half == HeadDim \div 2
Partner(k) == IF k < Half THEN <<-1, k + Half>> ELSE <<1, k - Half>>

\* x * cos + rotate_half(x) * sin at position j + start_idx, written over x.
AppliedInPlace(m) ==
  LET Turned(i, j, k, other) ==
        <<j + past_sqlen, k, At(m, i, j, k), Partner(k)[1], other>>
      First(i, j, k) == Turned(i, j, k, At(m, i, j, k + Half))
  IN  Filled(m.x, m.y, m.z,
             LAMBDA i, j, k : IF k < Half THEN First(i, j, k)
                              ELSE Turned(i, j, k, First(i, j, k - Half)))
Applied(m) ==
  Filled(m.x, m.y, m.z,
         LAMBDA i, j, k :
           <<j + past_sqlen, k, At(m, i, j, k), Partner(k)[1], At(m, i, j, Partner(k)[2])>>)

\* The strides, in elements, between two heads of the new rows and of a cache.
new_head_stride == sqlen * HeadDim
context_head_stride == MaxSqlen * HeadDim

\* std::copy of each head's new rows behind its past ones.
Refreshed(cache, new) ==
  [a \in DOMAIN cache |->
     LET head   == a \div context_head_stride
         offset == (a % context_head_stride) - past_sqlen * HeadDim
     IN  IF offset \in 0..(new_head_stride - 1)
         THEN new.data[head * new_head_stride + offset]
         ELSE cache[a]]

\* k_cache_view(x, y, z) and v_cache_view(x, y, z).
Viewed(cache, x, y, z) == cache[x * context_head_stride + y * HeadDim + z]

\* bgemxGQA: num_q_head / num_kv_head query heads share a key and value head.
Group(h) == h \div (NumQHead \div NumKvHead)

\* The scaled product of a query row with a key row.
Score(h, i, j) ==
  <<[c \in 0..(HeadDim - 1) |-> At(query_states, h, i, c)],
    [c \in 0..(HeadDim - 1) |-> Viewed(k_cache, Group(h), j, c)]>>

\* The keys whose probabilities the mask leaves above zero.
Visible(i) == {j \in 0..(total_context_sqlen - 1) : j <= i + past_sqlen}

\* The sum over the keys of probability times value.
Weighted(h, i, c) ==
  <<[j \in Visible(i) |-> At(attn_weights, h, i, j)],
    [j \in Visible(i) |-> Viewed(v_cache, Group(h), j, c)]>>

-----------------------------------------------------------------------------
Init ==
  /\ pc = "idle"
  /\ past_sqlen = 0
  /\ sqlen = 0
  /\ query_states = Empty /\ key_states = Empty /\ value_states = Empty
  /\ k_cache = [a \in 0..(NumKvHead * context_head_stride - 1) |-> << >>]
  /\ v_cache = k_cache
  /\ attn_weights = Empty
  /\ attn_output = Empty

\* A call with n tokens, within the assertion of RotaryPosEmb::apply.
Call(n) ==
  /\ pc = "idle"
  /\ MaxSqlen > n + past_sqlen
  /\ sqlen' = n
  /\ attn_output' = Empty
  /\ pc' = "split"
  /\ UNCHANGED <<past_sqlen, states, caches, attn_weights>>

SplitQkv ==
  /\ pc = "split"
  /\ query_states' = View(Slice(Qkv, 0, QDim), sqlen, NumQHead, HeadDim)
  /\ key_states' = View(Slice(Qkv, QDim, QDim + KvDim), sqlen, NumKvHead, HeadDim)
  /\ value_states' = View(Slice(Qkv, QDim + KvDim, QDim + 2 * KvDim), sqlen, NumKvHead, HeadDim)
  /\ pc' = "norm"
  /\ UNCHANGED <<past_sqlen, sqlen, caches, attn_weights, attn_output>>

\* The values are not normalised.
NormPerHead ==
  /\ pc = "norm"
  /\ query_states' = Permute01(RMSNorm("q_norm", query_states))
  /\ key_states' = Permute01(RMSNorm("k_norm", key_states))
  /\ value_states' = Permute01(value_states)
  /\ pc' = "rotate"
  /\ UNCHANGED <<past_sqlen, sqlen, caches, attn_weights, attn_output>>

RopeEmbed ==
  /\ pc = "rotate"
  /\ query_states' = Applied(query_states)
  /\ key_states' = Applied(key_states)
  /\ pc' = "refresh"
  /\ UNCHANGED <<past_sqlen, sqlen, value_states, caches, attn_weights, attn_output>>

RefreshKV ==
  /\ pc = "refresh"
  /\ k_cache' = Refreshed(k_cache, key_states)
  /\ v_cache' = Refreshed(v_cache, value_states)
  /\ pc' = "score"
  /\ UNCHANGED <<past_sqlen, sqlen, states, attn_weights, attn_output>>

QkBmm ==
  /\ pc = "score"
  /\ attn_weights' = Filled(NumQHead, sqlen, total_context_sqlen, Score)
  /\ pc' = "weigh"
  /\ UNCHANGED <<past_sqlen, sqlen, states, caches, attn_output>>

\* Mask, softmax and the product with the values.
PvBmm ==
  /\ pc = "weigh"
  /\ attn_output' = Filled(NumQHead, sqlen, HeadDim, Weighted)
  /\ pc' = "reshape"
  /\ UNCHANGED <<past_sqlen, sqlen, states, caches, attn_weights>>

\* One row of hidden_dim columns for each token; the locals go out of scope,
\* and the model advances past_sqlen before the next call.
Reshape ==
  /\ pc = "reshape"
  /\ attn_output' = View(Permute01(attn_output), 1, sqlen, QDim)
  /\ past_sqlen' = total_context_sqlen
  /\ query_states' = Empty /\ key_states' = Empty /\ value_states' = Empty
  /\ attn_weights' = Empty
  /\ pc' = "idle"
  /\ UNCHANGED <<sqlen, caches>>

Next ==
  \/ \E n \in 1..MaxSqlen : Call(n)
  \/ SplitQkv \/ NormPerHead \/ RopeEmbed \/ RefreshKV
  \/ QkBmm \/ PvBmm \/ Reshape

Spec == Init /\ [][Next]_vars

-----------------------------------------------------------------------------
(* Attention as the model was trained with it, without arrays: head h owns  *)
(* HeadDim columns of the projection, from column `first` on.               *)
Normed(weight, p, first, k) == <<weight, k, [c \in 0..(HeadDim - 1) |-> <<p, first + c>>]>>

Rotated(weight, p, first) ==
  [k \in 0..(HeadDim - 1) |->
     <<p, k, Normed(weight, p, first, k), IF k < Half THEN -1 ELSE 1,
       Normed(weight, p, first, (k + Half) % HeadDim)>>]

Attention(p, h, c) ==
  LET g     == h \div 4
      key   == QDim + g * HeadDim
      value == QDim + KvDim + g * HeadDim
  IN  <<[j \in 0..p |-> <<Rotated("q_norm", p, h * HeadDim), Rotated("k_norm", j, key)>>],
        [j \in 0..p |-> <<j, value + c>>]>>

(* What a call returns is attention: whatever calls came before, column c   *)
(* of a token's row belongs to head c / head_dim, whose query was made from *)
(* that head's own columns, normalised over exactly these, rotated with its *)
(* partner half to the token's position, and met the keys of its group of   *)
(* every position up to its own, each with its own value.  Slices, views,   *)
(* both permutations, the copy into the cache and the grouping have to      *)
(* agree for that (QwenAttention.cc:79-92, 102-121, 192-195).               *)
OutputIsAttention ==
  pc = "idle" /\ past_sqlen > 0 =>
    \A i \in 0..(sqlen - 1), col \in 0..(QDim - 1) :
      At(attn_output, 0, i, col) =
        Attention(past_sqlen - sqlen + i, col \div HeadDim, col % HeadDim)
=============================================================================
