----------------------------- MODULE ForwardPass ----------------------------
(***************************************************************************)
(* Qwen3ForCausalLM::forward from token ids to logits, over the cache of   *)
(* module KVCache: embedding, the decoder layers with their norms, their   *)
(* attention and both residual additions, the output norm, and the head    *)
(* applied to the last row.  KVCache says which rows a query finds; here   *)
(* the rows have contents, so that a pass can be compared with what the    *)
(* layers make of the whole context at once.                               *)
(*                                                                         *)
(* A row of activations is the term that computed it.  Every operator but  *)
(* attention works on one row at a time, so equal terms mean equal floats  *)
(* up to rounding.                                                         *)
(***************************************************************************)
EXTENDS KVCache, Sequences, SequencesExt

CONSTANT Token        \* ids in the embedding table

ASSUME TokenAssumption == Token # {}

VARIABLES
  input_ids,          \* the tokens of the current call
  hidden_states,      \* one row per token, the input of the layer at work
  kv,                 \* kv[l][p]: what the key and value of position p in
                      \* layer l were projected from
  logits,             \* what the last call returned
  context             \* history: the tokens of the calls that returned

dataVars == <<input_ids, hidden_states, kv, logits, context>>
passVars == <<vars, dataVars>>

-----------------------------------------------------------------------------
Embedding(t) == <<"embedding", t>>
Norm(weight, x) == <<"norm", weight, x>>
Add(a, b) == <<"add", a, b>>
Mlp(l, x) == <<"mlp", l, x>>
Attention(l, query, seen) == <<"attention", l, query, seen>>
Logits(x) == <<"lm_head", x>>

\* A query or key after q_norm/k_norm and the rotation to its position.
Rotated(p, x) == <<"rope", p, x>>

NoLogits == << >>

\* Qwen3DecoderLayer::forward for one row, given what its query finds.
LayerRow(l, x, p, seen) ==
  LET residual == Add(x, Attention(l, Rotated(p, Norm(<<"input", l>>, x)), seen))
  IN  Add(residual, Mlp(l, Norm(<<"post", l>>, residual)))

\* The content of the cache row a view returns: make_unique left it zero, or
\* some head's key and value of some position.
Content(row) ==
  IF row = Blank THEN Blank ELSE <<row[2], Rotated(row[3], kv[row[1]][row[3]])>>

\* What query i of the pass finds in the layer at work, head by head.
Seen(i) ==
  [h \in Heads |->
     [j \in {k \in 0..(past_sqlen + sqlen - 1) : Unmasked(i, k)} |->
        Content(cache[ViewAddress(layer, h, j)])]]

LayerOutput ==
  [i \in 1..sqlen |-> LayerRow(layer, hidden_states[i], past_sqlen + i - 1, Seen(i - 1))]

FirstRow(states) == states[1]
LastRow(states) == states[sqlen]

-----------------------------------------------------------------------------
PassInit ==
  /\ Init
  /\ input_ids = << >>
  /\ hidden_states = << >>
  /\ kv = [l \in Layers |-> [p \in 0..(MaxContext - 1) |-> Blank]]
  /\ logits = NoLogits
  /\ context = << >>

\* The call, the embedding and the mask.
Embed(ids) ==
  /\ Begin(Len(ids))
  /\ input_ids' = ids
  /\ hidden_states' = [i \in 1..Len(ids) |-> Embedding(ids[i])]
  /\ UNCHANGED <<kv, logits, context>>

\* The layer's input norm, its projections and the refresh of the cache.
Project ==
  /\ RefreshKV
  /\ kv' = [kv EXCEPT ![layer] = [p \in DOMAIN @ |->
              IF p \in past_sqlen .. (past_sqlen + sqlen - 1)
              THEN Norm(<<"input", layer>>, hidden_states[p - past_sqlen + 1])
              ELSE @[p]]]
  /\ UNCHANGED <<input_ids, hidden_states, logits, context>>

\* The rest of a layer; its output is moved into hidden_states.
NextLayer ==
  /\ Attend
  /\ hidden_states' = LayerOutput
  /\ UNCHANGED <<input_ids, kv, logits, context>>

\* The last layer, the output norm, the head and the advance of past_sqlen.
Return ==
  /\ Finish
  /\ logits' = Logits(Norm("output", LastRow(LayerOutput)))
  /\ context' = context \o input_ids
  /\ input_ids' = << >>
  /\ hidden_states' = << >>
  /\ UNCHANGED kv

PassNext ==
  \/ \E n \in 1..(MaxContext - past_sqlen) : \E ids \in [1..n -> Token] : Embed(ids)
  \/ Project
  \/ NextLayer
  \/ Return

PassSpec == PassInit /\ [][PassNext]_passVars

-----------------------------------------------------------------------------
PassTypeOK ==
  /\ TypeOK
  /\ input_ids \in Seq(Token)
  /\ Len(hidden_states) = Len(input_ids)
  /\ DOMAIN kv = Layers
  /\ context \in Seq(Token)
  /\ Len(context) = past_sqlen
  /\ pc = "idle" <=> input_ids = << >>

-----------------------------------------------------------------------------
(* The layers applied to a whole context at once, row p seeing rows 0..p.   *)
Reference(tokens) ==
  LET n == Len(tokens)
      state[l \in 0..NumLayers] ==
        IF l = 0 THEN [p \in 0..(n - 1) |-> Embedding(tokens[p + 1])]
        ELSE [p \in 0..(n - 1) |->
                LayerRow(l - 1, state[l - 1][p], p,
                  [h \in Heads |-> [j \in 0..p |->
                     <<h, Rotated(j, Norm(<<"input", l - 1>>, state[l - 1][j]))>>]])]
  IN  state[NumLayers]

Predicted(tokens) == Logits(Norm("output", Reference(tokens)[Len(tokens) - 1]))

(* The model answers for its whole context: whatever the sequence of        *)
(* passes, the logits of the last one are those the layers give the last    *)
(* token of everything fed so far, processed in one piece.  It takes the    *)
(* offsets of cache, mask and rotation, the order of refresh and attention, *)
(* the row handed to lm_head (QwenForCausalLM.cc:43) and the advance of     *)
(* past_sqlen (:65) together to make this true.                             *)
Model == INSTANCE LanguageModel WITH
  scored <- IF context # << >> /\ logits = Predicted(context) THEN context ELSE << >>

ModelSpec == Model!Spec
=============================================================================
