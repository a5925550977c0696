# A TLA+ model of Qwen3.Ink.Cpp

This directory holds the formal model of the C++ inference program under
`qwen3/`: a chat application that runs a quantised Qwen3-8B on one CPU.  Paths
below are relative to `qwen3/`.

## The system and its parts

`application/chat.cc` builds one model and one `Pipeline` and then loops for
ever: read a line, `pipeline.generate({line}, params)`.  `generate` encodes the
line, `_generate_from_ids` alternates `model->forward(ids)` and
`sample_next_token(logits)` until the budget or the patience for the end-of-text
token is spent.  `forward` walks the decoder layers, each of which appends its
keys and values to a slice of one shared cache; only the position counter
`past_sqlen`, the cache and the random generator live from one turn to the next.

| component | state it keeps | operations | what makes it correct |
|---|---|---|---|
| chat application (`application/chat.cc`) | none beyond model and pipeline | read a line, generate | every turn ends; a turn finds room in the context |
| generation loop (`src/qwen/Pipeline.cc:388-447`) | `input_ids`, `n_remain`, `stop_generation_tolerance`, `last_n_tokens`, `generate_ids` | forward, sample, accept or skip the token | stops for one of two reasons; the context holds what was fed; the penalty window is the reply's tail |
| sampler (`Pipeline.cc:6-364`) | candidate array with a `sorted` flag, generator | penalties, top_k, tail-free, typical, top_p, temperature, draw | never empties the array; cuts from the unlikely end; the flag is true |
| causal LM (`src/qwen/QwenForCausalLM.cc`) | `past_sqlen`, `ModelContext` (cache, repack and activation buffers) | forward | the counter advances once per pass, after all layers |
| decoder, layers, mask (`QwenDecoder.cc`, `QwenDecoderLayer.cc`) | weights only | forward layer by layer | layers in order, the mask causal |
| attention and KV cache (`QwenAttention.cc`) | slice pointers into the shared cache | refresh the cache, attend | slices and heads do not overlap; a query sees its own past and nothing else |
| BPE (`include/qwen/tiktoken.h`) | encoder and decoder maps | encode, merge, decode | merging is greedy BPE, decoding gives the text back |
| tokenizer (`QwenTokenizer.cc`) | the above, special ids | build the prompt, encode, truncate, decode | the prompt fits `max_sqlen`, special ids do not clash |
| linear layers (`QwenOperator.cc`, `QwenOperator.h`) | weights; shared repack and activation buffers | repack at load, quantise activations, multiply | buffers are free when reused; the layout written is the layout read |
| GEMM kernels (`fp32_gemx_kernels_*.cc`, `quantized_gemx_kernels.cc`) | packed panels shared by OpenMP threads | pack, multiply a block, accumulate | every product once, no panel repacked while read |
| matrices (`include/common.h`) | shape, strides, ownership | view, slice, permute, move | index maps in range; one owner |
| element-wise operators (`src/ops/`) | RoPE tables | rotate, mask, softmax, embed | positions inside the tables |

Start-up, the profiler, the notebooks that quantise the weights, and the
vendored libraries (abseil, re2, `unordered_dense`, ggml) are not modelled.

The program is one thread but for the OpenMP regions of the kernels.  What is
hard in it is not scheduling but state that outlives its turn: a counter
nobody resets, a cache addressed by strides, a flag that stays set, ranks cached
across erasures, and loops whose end depends on what is drawn.

## The modules

| module | models | extends or instantiates |
|---|---|---|
| `LanguageModel` | abstract: a model that answers for every token it was fed | |
| `Generation` | chat loop, generation loop, position counter | instance of `LanguageModel` |
| `MCGeneration` | a vocabulary of five tokens and three prompts | `Generation` |
| `Foundations` | lemmas the proofs share: least and greatest elements, induction, recursion, division | `WellFoundedInduction` |
| `GenerationProofs` | theorems about `Generation` | `Generation`, `Foundations` |
| `ForwardPass` | from token ids to logits: embedding, layers, head | `KVCache`; instance of `LanguageModel` |
| `MCForwardPass` | two tokens | `ForwardPass` |
| `ForwardPassProofs` | theorems about `KVCache` and `ForwardPass` | `ForwardPass`, `Foundations` |
| `KVCache` | the flat cache, its slices and views, one forward pass layer by layer | instance of `KVLog` |
| `KVLog` | abstract: an append-only log per layer and head | |
| `Tensor` | `Matrix3D` as a value: index, slice, view, permute01 | |
| `SelfAttention` | the data layout of one attention layer, down to the element | `Tensor` |
| `AttentionWeights` | mask, clamp and softmax over classes of floats | |
| `MCAttentionWeights` | rows of scores | `AttentionWeights` |
| `SelfAttentionProofs` | theorems about `Tensor` and `SelfAttention` | `SelfAttention`, `Foundations` |
| `AttentionGemm` | the batched products of attention and their OpenMP teams | |
| `MCAttentionGemm` | product shapes | `AttentionGemm` |
| `AttentionKernelProofs` | theorems about `AttentionGemm` and `AttentionWeights` | `AttentionGemm`, `AttentionWeights`, `Foundations` |
| `QuantizedLinear` | the quantised linear layers from their files to their outputs | |
| `MCQuantizedLinear` | layer shapes | `QuantizedLinear` |
| `QuantizedLinearProofs` | theorems about `QuantizedLinear` | `QuantizedLinear`, `Foundations` |
| `Sampler` | `sample_next_token` and its filters | |
| `MCSampler` | logits, windows and parameter sets | `Sampler` |
| `SamplerProofs` | theorems about `Sampler` | `Sampler`, `Foundations` |
| `Tokenizer` | vocabulary file, special ids, prompt, encode, truncate, decode | instance of `GreedyBPE` |
| `MCTokenizer` | vocabulary files and lines | `Tokenizer` |
| `BytePairMerge` | `byte_pair_encode` with its rank cache | instance of `GreedyBPE` |
| `GreedyBPE` | abstract: merge the leftmost best pair until none is left | |
| `TiktokenProofs` | theorems about `BytePairMerge` and `Tokenizer` | `BytePairMerge`, `Tokenizer`, `Foundations` |
| `MCBytePairMerge` | an alphabet and the vocabularies over it | `BytePairMerge` |

Three interfaces join them.  `LanguageModel` stands between the generation loop
and the network: `Generation` is shown to use nothing but it, `ForwardPass` to
provide it.  `KVLog` stands between a decoder layer and the shared buffer.
`GreedyBPE` stands between the tokenizer and the merge loop with its cached ranks:
`Tokenizer` encodes pieces with it, `BytePairMerge` implements it.

### Generation

Variables are the locals of `_generate_from_ids` under their own names
(`input_ids`, `n_remain`, `stop_generation_tolerance`, `last_n_tokens`,
`generate_ids`), the model's `past_sqlen`, and `rows`, the token behind each
row of the cache.  `turn`, `prompt`, `base`, `drawn` and `pads` are history.
`pc` is where the thread stands: at `getline` ("user"), at the loop's head
("loop"), between `forward` and `sample_next_token` ("sample"), or dead.
`ReadLine` is the body of chat.cc's loop up to the first test, truncation of
the prompt included; `Forward` one forward pass; `ForwardAsserts` the Debug
build's abort in `RotaryPosEmb::apply`; `DrawEos`, `DrawPad` and `DrawToken`
the three continuations after the draw (Pipeline.cc:416-434), the last with the
exception `decode` throws on an unknown id; `Return` the loop's end.
Which token is drawn is free: the distribution has full support unless the
filters cut it, and that is the matter of `Sampler`.  For `LanguageModel` the
context is `rows`.

### ForwardPass and LanguageModel

`ForwardPass` adds contents to the actions of `KVCache`.  A row of activations is
the term that computed it, so a norm with another layer's weights, a residual of
the wrong value or a row of another position changes the logits.  `Embed` is
`Qwen3ForCausalLM::forward` up to the first layer, `Project` the input norm, the
projections and the refresh of the cache, `NextLayer` the rest of a layer with the
move of its output into `hidden_states`, `Return` the last layer, the output norm,
`lm_head` on the last row and the advance of `past_sqlen`.  `kv` holds what each
cached row was projected from; `KVCache`'s `cache` says which row lies where.
`LanguageModel` has no layers: its logits score the context, however it was fed.

### Sampler

`data` and `sorted` are the candidate array; one action per filter in the order
of Pipeline.cc:354-362, `pc` naming the next.  Logits are integers, softmax
weights powers of two which underflow to zero, thresholds fractions compared
exactly; `std::sort` is any order that satisfies the comparison.  Both penalties
are one action, since no other code reads the array between them.

### KVCache and KVLog

The unit is a row of `head_dim` floats.  A row's content is what it ought to be
the key of, `<<layer, head, position>>`, so a row at a wrong address shows.
`Begin` is the head of `Qwen3ForCausalLM::forward`, `RefreshKV` the copies of
QwenAttention.cc:96-122 for all heads, `Attend` the rest of a layer, `Finish`
the last one with the advance of `past_sqlen`.  `KVLog` is what the layers
promise; the refinement mapping reads each log through the strided view.  The
module is checked as part of `ForwardPass`, whose steps are its steps.

### Tensor and SelfAttention

`Tensor` has the flat row-major array of `Matrix3D` and the operations attention
uses; the value of an operation is a new array, as in the code, which copies.
`SelfAttention` goes through `Qwen3Attention::forward` stage by stage, one action
each: `SplitQkv` (three slices of the fused projection, viewed as tokens by
heads), `NormPerHead` (both norms over a head's columns, `permute01`),
`RopeEmbed`, `RefreshKV`, `QkBmm`, `PvBmm`, `Reshape`.  A float is the term that
computed it.  The key heads share a quarter of the width, as the literal
`kv_dim = hidden_dim / 4` of QwenAttention.cc:21 has it.

### AttentionWeights

The same stage of `Qwen3Attention::forward` seen from the side of values: `BatchAdd`
adds the mask's plane to every head, `ClampInfinities` replaces infinities of either
sign by the lowest float, and `SoftmaxRow` is one iteration of softmax's parallel
loop, in any order.  A float is ordinary, the largest or lowest, infinite or NaN;
addition absorbs an ordinary number in the largest float and overflows beyond it.

### BytePairMerge and GreedyBPE

`parts` is the vector of boundaries with the cached rank of the part that starts
there, as `_byte_pair_merge` keeps it; `Merge` is one turn of its `while (true)`
with both refreshes and the erasure.  `GreedyBPE` has no cache.

### Tokenizer

`ReadLine`, `BadLine` and `EndOfFile` are the constructor of `QwenTokenizer`: the
vocabulary file and the numbering of the special tokens behind it; `EncodeHistory` is `build_prompt` for one line;
`Split`, `EncodePiece`, `PushSpecial` and `Truncate` are the loop of
`tiktoken::_encode_native` and the end of `encode`; `Decode` drops the
special ids and spells the others, or throws.  The template puts one `Newline` between
two turns.  A text is a sequence of symbols, a
special token being one.  The regular expression is RE2's: a piece may end
anywhere, begins at the first valid byte and contains valid bytes only; the
properties hold for all ways of cutting.

### AttentionGemm

`forward_ink_kernel_qk` (layout "rcr") and `_pv` ("rrr"), head by head: `region`
is the parallel region at work; `Take`, `PackPanelA`, `PackPanelB`, `LoadTile`,
`StoreTile` and `MultiplyHead` are steps of a thread of the team, the others of
the master between regions.  An element of `C` is the sequence of products added
to it.  A tile's load and store are two steps, so that two threads on one tile
would lose products.  Left out: the scaling by `alpha` at the end, and the
association of the vector kernel's sum.

### QuantizedLinear

`Qwen_Linear_with_bias_Int4` in the order the program lives: the constructors, one
after the other, each `LoadFile` four times and `Repack`; then passes, each of
which calls `forward` on every layer: `Quantize` (both quantisers), `Take` and
`ComputeTile` by the threads of `gemv_repack_A81W41_fp16` or
`gemm_repack_A81W41_fp32`, `Return`.  `repack_buffer` is the buffer byte by byte,
so that a number read where none was written whole shows as no number.  The
activation buffer is the format, call and length of what the last quantiser left
at its start; everything else in it, and everything read in the other format, is
noise.  A number is where it came from, an output the set of products summed:
quantised values with their partner's place and both scales, and the minima with
the scaled sums.  `ReadFails` is a file that is missing or short.  Left out: values,
and with them the rounding to fp16; copying and moving a layer.

## What is checked

| run | configuration | question and answer |
|---|---|---|
| `generation` | `MCGeneration.cfg` | Does a turn end, for the right reasons, with the right context and window, in the room the account grants, and does the loop use its model as `LanguageModel` allows? Yes. |
| `generation_rope` | `MCGenerationRope.cfg` | Does every forward find room in the RoPE tables (RotaryPosEmb.cc:16)? **No**, after three short turns. |
| `forward_pass` | `MCForwardPass.cfg` | Do the logits depend on the context alone, does each query see its own past, does no write hit another's row, and does the buffer implement a log per head? Yes. |
| `attention_heads` | `SelfAttention.cfg` | Is every column of every row the attention of its own head and group, through slices, views, permutations and cache? Yes. |
| `attention_weights` | `MCAttentionWeights.cfg` | Are the probabilities numbers, and zero for the future, whatever infinities the scores contain? Yes. |
| `attention_gemm` | `MCAttentionGemm.cfg` | Does every schedule of the team give every product once, from the right panels? Yes. |
| `quantized_linear` | `MCQuantizedLinear.cfg` | Is every output the product of the layer's own weights with this call's activation, whatever the shared buffers held before? Yes. |
| `quantized_linear_spill` | `MCQuantizedLinearSpill.cfg` | Does the repack buffer (QwenOperator.h:37) hold the largest layer it is sized for? **No**: 24 bytes per block for 25. |
| `sampler` | `MCSampler.cfg` | Do the filters keep a candidate, keep the best and draw a possible token, and do the penalties demote? Yes. |
| `sampler_typical` | `MCSamplerTypical.cfg` | Is the flag `sorted` true with `typical_p < 1`? **No.** |
| `tokenizer` | `MCTokenizer.cfg` | Does encode keep the text, end, and keep the cue; does decode undo it? Yes. |
| `bpe` | `MCBytePairMerge.cfg` | Is the cached merge greedy BPE, and does decoding undo it? Yes. |

The runs that fail each state what a comment or an assertion of the repository
says; PROJECT.json quotes it under "findings".  With the defaults of chat.cc
`generation_rope` is met by a long conversation and `quantized_linear_spill` by
every start: `lm_head` (QwenForCausalLM.cc:121) has exactly the largest number of
blocks.  Nothing reads the zero points that are written past the buffer.
`sampler_typical` needs `typical_p < 1`, which chat.cc does not set.

Some divergences need no run to be seen:

* QwenConfig.h:72 says of `top_k` `<= 0 to use vocab size`; Pipeline.cc:110 clamps
  it to `min_keep`, one candidate.
* QwenConfig.h:81 offers `mirostat`; the branch of Pipeline.cc:352-353 is empty and
  returns token 0, which the model may rule out.  `DrawnIsPossible` leaves it out.
* QwenConfig.h:78 promises the `last n tokens to penalize`, and the window starts as zeros
  (Pipeline.cc:391): token 0 is penalised before it ever occurred.  `PenaltyWindow`
  says exactly what the window holds.
* `MatrixView::repeat_dimension` (common.h:463) sets repetition counts that the
  access no longer consults (common.h:452, commented out).  It has no caller.
* `build_prompt` does not repeat the word `assistant` in front of earlier replies
  as it does in the closing cue.  chat.cc passes one line only.
* Infinities of either sign are clamped to the *lowest* float
  (QwenAttention.cc:168), so a score of +infinity becomes the least likely.

### The properties worth a second look

`ContextReplaysDraws` (Generation) says what the two `continue` statements of the
generation loop do to the model's context: a second Eos, or a Pad, has the same
input processed again at new positions.  `StopRule` tells from the draws alone
when a turn stops, and how the program dies: at the assertion of `RotaryPosEmb` or on
an id that `decode` throws on, which no turn that prints survives.
`TurnContextBound` is the price of a turn in rows, and `RoomSuffices` what a caller would have to test before a turn to keep the
assertion true.  `ModelSpec` (ForwardPass) compares every way of splitting a context into passes
with the layers applied to all of it at once; the offsets of cache, mask and
rotation, the row given to the head and the advance of the counter must agree.
`AttendsToOwnPast` and `LogSpec` (KVCache) relate the writer's
address arithmetic to the reader's.  `OutputIsAttention` (SelfAttention) does so for
the elements: with two permutations or slices exchanged every shape still fits, and
a call of one token does not notice.  `FutureIsHidden` (AttentionWeights) is about
a mask that is a finite number; its exception is real: a masked score equal to the
largest float cancels the mask.  `NoNaN` is why the clamp is there.
`LosesNothing` (Tokenizer) follows the text through an input that is advanced by
reference; `DecodesBack` ties the ids numbered behind the file to those the config
fixes.
`KeepsTheBest` and `NucleusIsLongest`
(Sampler) cover all filters in sequence, ties included.  `CachedRanksFresh` and
`GreedySpec` (BytePairMerge) are about the two ranks refreshed on a vector that
has not been shortened yet.  `SumsInOrder` and `ProductComplete` (AttentionGemm)
fail as soon as one implicit barrier or one repacking is missing.
`OutputIsProduct` (QuantizedLinear) joins four orders that are written in four
places: the export's nibbles, the repacked blocks, the quantiser's lanes and the
kernel's packs; it holds only if they agree in both formats, and if no row of an
earlier call is stored.  `KernelReadsInside` compares the kernel's full tiles with
the slack of the buffer.

### Bounds, and why they are enough

* `generation`: prompts of one token, of two, and one that `encode` truncates; replies
  of two tokens, one Pad, two turns, with `max_sqlen` 14 in the Debug build, so that
  a second turn may end in the assertion.  A budget of two is the least with a token between two others; one
  Pad per turn can fall before, between and after two Eos draws; the second turn
  starts from a context the first has left.  `MaxTurns`, `MaxPads`, `MaxReply`
  are the bounds; the budget itself is the code's.
* `forward_pass`: three layers (first, inner, last), two heads, contexts of up to
  five tokens over two, split into passes in every way; addresses are linear in all
  of them.  Two tokens suffice, as no operator looks at an id but the embedding.
* `attention_heads`: eight query heads on two key heads, the ratio of the code, four
  columns per head, so that a rotation has two pairs; calls of one to five tokens
  behind every past, within the assertion of `RotaryPosEmb::apply`.
* `attention_weights`: two heads, one or two queries behind no or one past position,
  and every row of scores over five kinds; two kinds of rows per call, so that
  neighbouring rows differ.  `Small`, `Huge`, `Infinity` and `NaN` are far enough apart
  for the sums of two to be told apart (`FloatAssumption`).
* `sampler`: four ids, three logits, so that ties, underflow and all cuts from one
  candidate to all of them occur; seven parameter sets that turn each filter on
  alone and with others.
* `bpe`: pieces of up to five bytes over two letters, every vocabulary over four
  longer strings in every order: up to four merges, with repeated pairs.
* `tokenizer`: files of up to four tokens with ranks 0 to 3, gaps and duplicates
  included; the empty line, a line with every merge, one with an invalid byte inside,
  one with special tokens, one with an invalid byte in front of a special token;
  `max_length` 4, which cuts every prompt, and 20, which cuts none.  The properties
  assume dense ranks, as qwen.tiktoken has them (`DenseRanks`).
* `attention_gemm`: two threads; tiles of 2 x 2 in blocks of 6 x 4 x 3, so that there
  are up to three row panels and two blocks in every dimension, partial ones
  among them.  The code's sizes are 6 x 16 in 4800 x 512 x 500 or so; the index
  arithmetic does not depend on them beyond `MC % MR = 0` and `NC % NR = 0`,
  which is assumed (`GemmAssumption`).

* `quantized_linear`: two layers, the second with fewer columns and more blocks along
  K, so that each one's views end elsewhere in the buffer; blocks of 16 weights in
  four packs, two columns together instead of eight; tiles of six rows, as in the
  code, and passes of 1, 2, 7 and 8 rows of at most 8, which is one short tile, one
  full and one short, and the whole buffer; two passes, so that each format meets
  the leavings of the other; two threads.  The slack that `KernelReadsInside` needs
  is relative to `max_sqlen`: with the code's 80 bytes per 64 activations against
  112 bytes of buffer it is there from `max_sqlen = 9` on; the default is 4096.
* `quantized_linear_spill`: the code's block of 32, and one layer with as many weights
  as the buffer is sized for, as `lm_head` has.

Deadlock is not checked in the state machines that stop: the bounds stop
`Generation`, `ForwardPass` and `SelfAttention`; `Sampler`, `BytePairMerge`,
`Tokenizer`, `AttentionWeights` and `AttentionGemm` return; `QuantizedLinear` stops
when a file fails to load or the passes are over.

### Fairness

`Generation`: one thread runs the loop, so whichever of forward, return and
draw is next is taken (weak fairness on both groups); nothing is assumed of the
user.  That Pad is drawn finitely often is the bound `MaxPads`, not a fact of the
code: a model that draws Pad for ever never ends its turn, and `TurnEnds` is to be
read so.  `BytePairMerge`: weak fairness of the one thread; `Tokenizer`: weak
fairness of the four steps of encode, nothing of who types.  `AttentionGemm`: the
master and each thread of the team are scheduled again and again, and so in
`QuantizedLinear`; there nothing is assumed of who calls `forward`.

## What is proved

Each theorem holds for every value of the constants that satisfies the module's
named assumptions, and under the hypotheses given here.

| module | theorem | statement |
|---|---|---|
| `GenerationProofs` | `TypeCorrect` | `Spec => []TypeOK` |
| | `TurnsAreAccounted` | `Spec => []TurnAccount` |
| | `ContextBounded`, `RoomIsEnough` | `Spec => []TurnContextBound`, `Spec => []RoomSuffices` |
| | `ContextIsReplay` | `Spec => []ContextReplaysDraws` |
| | `WindowIsReplyTail` | `Spec => []PenaltyWindow` |
| | `StopsForOneReason` | `Spec => []StopRule` |
| | `ImplementsModel` | `Spec => ModelSpec`: the chat loop is a client of `LanguageModel` |
| `ForwardPassProofs` | `TypeCorrect` | `Spec => []TypeOK` |
| | `RowsAreKept`, `QueriesSeeTheirPast` | `Spec => []HoldsOwnRows`, `Spec => []AttendsToOwnPast`, if `MaxContext <= MaxSqlen` |
| | `ImplementsLog` | `Spec => LogSpec`, if `MaxContext <= MaxSqlen` |
| | `PassesKeepCache` | `PassSpec` implies the three of `KVCache`, if `MaxContext <= MaxSqlen` |
| | `PassTypeCorrect`, `ImplementsModel` | `PassSpec => []PassTypeOK`, `PassSpec => ModelSpec`, if `MaxContext <= MaxSqlen` |
| `TiktokenProofs` | `TypeCorrect`, `CachesStayFresh` | `Spec => []TypeOK`, `Spec => []CachedRanksFresh` |
| | `ImplementsGreedy` | `Spec => GreedySpec` |
| | `DecodesToPiece` | `Spec => []RoundTrip`, if `RanksAreDistinct` |
| | `NothingIsLost` | `TokenizerSpec => []LosesNothing` |
| | `CueSurvives` | `TokenizerSpec => []EndsWithCue` |
| | `DecodingUndoesEncoding` | `TokenizerSpec => []DecodesBack` |
| `SelfAttentionProofs` | `CallIsAttention` | `Spec => []OutputIsAttention`, if `FourToOne` |
| `AttentionKernelProofs` | `NeverNaN`, `FutureStaysHidden` | `WeightsSpec => []NoNaN`, `WeightsSpec => []FutureIsHidden` |
| | `NoProductIsLost`, `ProductIsWhole` | `Spec => []SumsInOrder`, `Spec => []ProductComplete` |
| | `ReadsStayInside` | `Spec => []KernelReadsInside` |
| `QuantizedLinearProofs` | `WeightsAreOwn` | `Spec => []PackedIsOwn`, if `BlocksFit` |
| | `ForwardIsProduct` | `Spec => []OutputIsProduct`, if `BlocksFit` |
| | `KernelStaysInside` | `Spec => []KernelReadsInside`, if `TilesFit` |
| | `OnlyZeroPointsSpill` | `Spec => []ZeroPointsSpill`, if `BlocksFit` |
| `SamplerProofs` | `TypeCorrect`, `ArrayIsNeverEmpty` | `Spec => []TypeOK`, `Spec => []NeverEmpty` |
| | `BestAreKept`, `PenaltyOnlyDemotes` | `Spec => []KeepsTheBest`, `Spec => []PenaltyDemotes` |
| | `DrawIsPossible` | `Spec => []DrawnIsPossible` |
| | `NucleusKeepsTheLongest` | `Spec => NucleusIsLongest` |

The two halves meet in `LanguageModel`: the generation loop is a client of it for
every vocabulary and parameter set, and the forward pass provides it for every
number of layers and heads.

### The hypotheses

* `MaxContext <= MaxSqlen`: no conversation outgrows the cache.  The code does not
  enforce it (`generation_rope` shows the contrary); it is what a caller must
  ensure, and `RoomIsEnough` says how: test for `TurnRoom` rows before a turn.
* `RanksAreDistinct`: the vocabulary lists each rank once, as qwen.tiktoken does.
  With two tokens of one rank `decoder_` keeps one of them.  The properties of
  `Tokenizer` have the stronger `DenseRanks` among their own conditions, since special
  tokens get the ids behind the number of tokens, not behind the largest rank.
* `ConfigAssumption` (`Tokenizer`): the second and the third special token are the
  markers of the turns (`special_tokens_s`, QwenTokenizer.cc), none is listed twice, and
  the ids of the two in the config follow one another.  What the ids are relative to
  the size of the vocabulary is not assumed: it is a condition of `DecodesBack`.
* `FourToOne`: `NumQHead = 4 * NumKvHead`.  The code takes a quarter of `hidden_dim` for
  `kv_dim` and divides it among the key heads; the views of keys and values have
  the size of what they view only then.  The 32 query heads over 8 key heads of
  QwenConfig.h:48-49 satisfy it.
* The named assumptions of the modules.  The one that a reader should know of is
  `ScoreAssumption` (`AttentionWeights`): the product of queries and keys yields ordinary numbers, the
  largest floats and infinities, and no NaN.  A NaN among the weights would pass
  through mask, clamp and softmax.
* `BlocksFit`: `QBlk <= 32`.  Per block of weights the repack buffer has 24 bytes
  (`1 / 2` is zero in integers), and what a constructor keeps of a block, its
  quants, scale and offset, takes `QBlk / 2 + 8`: the code's 32 just fits.  The zero
  points do not, and nothing reads them: `OnlyZeroPointsSpill` is the part of the
  finding of `quantized_linear_spill` that does hold.
* `TilesFit`: `(RowsAtOnce - 1) * (QBlk + 8) <= 16 * MaxLen`.  A full tile reads the
  blocks of rows behind the last valid one.  With the code's six rows and blocks of
  32 the condition holds from `max_sqlen = 13` on; it bounds the last tile by
  multiplication, so it is sufficient and not necessary (the reads stay inside from 9
  on).  The default is 4096.
* `TypicalOff` is not a hypothesis but a condition of `KeepsTheBest`, `DrawnIsPossible`
  and `NucleusIsLongest`: sample_typical is off, as it is by default
  (QwenConfig.h:75).  With it on, the first candidate is not the best one and a token
  of underflowing weight can be drawn; this is the divergence of `sampler_typical`.

### The inductive invariants

`Generation` needs two.  The bound on a turn is not inductive: it speaks of the end
of the turn and says nothing of where the rows went.  `TurnAccount` does.  It splits the rows a turn has
added into those spent on inputs already left behind, two at most per input
(`SpentEarlier`), those spent on the present input, one for each point of
tolerance lost and one while its logits wait (`SpentOnInput`), and those spent
on Pads.  A forward moves one input from "to be paid" to "paid", an Eos draws a
point of tolerance, an accepted token closes the present input and opens one of
length one.  The account also ties `n_remain` to the reply's length, without which
the guard of the loop says nothing.  `IInv == TypeOK /\ TurnAccount` is inductive;
`SpendingBound` derives the bound by arithmetic on products.  `HInv` adds what the
variables owe to the draws: the reply is the accepted draws, the tolerance is two
less the streak of Eos, the input is what `FedAfter` says, and a turn that has
returned has run into one of its limits.  From it follow the replay of the
context, the window and the rule of stopping; `DInv` adds the two ways to die.

`KVCache`: `HoldsOwnRows` is inductive with the types and `InRoom`, that the pass at
work has room behind the ones before it.  Its proof is the arithmetic of the flat
buffer: addresses of two layers, heads or positions differ inside the
room, for every size (`ViewAddress` is one-to-one), so that a refresh writes its own
rows and no other.  `ForwardPass` refines it step by step and adds `PassInv`: each
cached key is projected from the row the reference has there, `hidden_states` are the
reference's rows of the present layer, and the logits are its prediction.  A query's
row then depends on the tokens before it alone, which is why the way of feeding
does not show.

`BytePairMerge`: freshness of the cached ranks is inductive only with the boundaries
ascending from zero to the piece's length and every part being a token; the
refreshes compute ranks of parts on the vector that still has the boundary to be
erased, and `MergedFacts` says which parts these become.  A merge step then picks the
leftmost pair of least rank by true ranks, which is `GreedyBPE`'s step.

`Tokenizer`: `LosesNothing` is a sum, what the ids spell and what is still to come, and
each step of encode moves one summand (`Balance`, `BalanceOfPiece`): `SplitFacts` cuts
a text at its first special token, `MatchFacts` a match out of the rest.  That the ids
of a piece spell the piece is `PartsFacts`, by induction over the merges, whose number
`AllMergedFacts` bounds by the length, and `RanksAreDense`, by which no two tokens and no
special token share an id.  `TokenizerInv` adds the types, that every id is known,
and for the time after truncation `EncodedOK`: the ids spell an end of the prompt, and
all of it if there was room.  `EndsWithCue` follows because an id spells at least one
symbol (`DecodedIsLong`), so that `max_length` ids cover the cue; `DecodesBack` because
leaving out the two ids of the config and leaving out the two markers commute with
decoding (`DecodedWithout`).

`SelfAttention`: the invariant (`IInv` of `SelfAttentionProofs`) says of each stage what its
arrays hold, in the terms of the reference: after the split every head has its own
columns of the projection (`SplitOK`), after the norms and the permutation each row was
normalised over exactly these (`NormedOK`, `ValuesOK`), after the rotation it is the
reference's row (`QueriesOK`, `KeysOK`), and at any time the caches hold rotated keys
and plain values of every position so far (`CachesOK`), which is all that one call
leaves for the next.  Under it lie lemmas about `Tensor`, for all dimensions: an index
and its place in the flat array determine each other (`EveryPlace`), a slice keeps its columns,
`permute01` exchanges the first two indices, a view cuts rows into heads
and joins them again.  `RefreshedIs` is the copy behind the past rows of each head.

`AttentionWeights` is nearly a function, and its invariant says so (`Computed`: each
stage holds what the earlier stages make of the scores); the work is in the
arithmetic of the float classes, where a masked ordinary score is exactly the lowest float.

`AttentionGemm`: four parts.  `MasterOK` has where the master is in its loops and the
bounds of the block; `TeamOK` that a thread is idle or at a panel that was taken, with
the sums of its tile in its registers once it has loaded them, and that no two threads
are at one panel; `PanelsOK` that a panel whose packing has ended holds its block's
elements, and every panel does while one multiplies; `SumsOK` how many products each
element has by the loop counters and by whether its tile has been stored (`Depth`).
A tile's load and store are separated by steps of the other threads, which `TeamOK`
keeps away from it.

`QuantizedLinear`: `PackedIsOwn` says what the layers hold at the end, and the buffer
that it came from belongs to the next layer by then.  `LoadingOK` has the sections read
so far one behind the other, each holding its own file; `WeightsOK` that a layer whose
constructor has ended holds its own blocks, in the terms of its files
(`RepackedIsOwn` is the arithmetic of the interleaving); `CallOK` that the
activation buffer is in the format that the kernel of this call reads, whatever the last
call left; `TeamOK` which column block and row each thread is at; and `OutputOK` that
the elements behind every thread (`Passed`) are there and are products.  That a
product of repacked weights and packed activation is the product of the originals
is `AccumulatedIsProduct`: the two saturating packs and the permutation of the kernel
cancel out (`PermutationRestores`), and each pair of halves meets its own scales.  For the
reads `RowsInv` is enough, which says only where the threads are.

`Sampler`: `SInv` says what the array is at each stage.  It is never empty and has no
candidate twice; from the first sort to the draw its logits are the scores of its
ids, scaled after `sample_temperature`; and with sample_typical off it is in the order
of the scores and every dropped score is below every kept one.  Neither
`KeepsTheBest` nor the property of the draw is inductive alone: a cut keeps the best
only if the array is in order, and the flag `sorted` must be true for the sorts that
are skipped.  The same order makes `sample_top_p` right: the mass it accumulates is a
sum over the places of the array, `NucleusIsLongest` speaks of sets of candidates, and
`TotalIs` and `MaskedSum` show that the fold over indices is one and the same sum.
Both need sample_typical off: TLC finds a nucleus that keeps one unlikely
candidate when `typical_p` and `top_p` are both one half, as the array is then in the order
of the shifted scores and `sorted` still holds.

### How the proofs are built

The library's induction takes an operator as its parameter and cannot be used with the
provers at hand.  `Foundations` has induction over sets instead (`SetInduction`: a set that
contains zero and with every number the next one contains them all), from the
well-foundedness of `<`, and from it lemmas about recursive functions in which the
step is itself a function (`RecursionExists`, `RecursionIsTyped`, `RecursionAgrees`).
Folds and recursive definitions of the model (`Reply`, `FlattenSeq`, `Spelled`,
`PowerOfTwo`, `Total`, the maximum of a row of scores) are first shown to be such recursions, each
in a lemma of its own, and are reasoned about from there.

### What is only model-checked, and why

* Liveness (`TurnEnds`, `MergeEnds`, `GemmEnds`, `ForwardReturns`, `EncodeEnds`): it needs
  fairness and ENABLED, which the proof system does not handle.

## What is not modelled

Floating-point values beyond the classes of `AttentionWeights`, and so rounding and
the scaling by `alpha`; the arithmetic inside norm, MLP and embedding, which are terms;
the operations of `common.h` without a caller in the program (`cat`, `permute120`,
`contiguous`, `repeat`, the statistics) and the copies and moves of its owned array;
the regular expression; base64; loading the norm weights and the embedding;
`sample_token_mirostat` and `_v2`, the A80W40 and q8_0 kernels, the `_dummy` and
`_naive` kernels (but `batch_gemv_fp32_rrr_naive`, which `forward_ink_kernel_pv` calls and
`MultiplyHead` models) and `forward_reference`, which nothing calls; the profiler; the
notebooks; vendored code.  At end of input `getline` fails, chat.cc goes on with
an empty line, and the model sees one more short prompt, again and again: this
is the `ReadLine` of an undisturbed user as far as the context goes.

## Plan

Every part of the program that keeps state and is called has a module, and every
safety property that a passing run checks is a theorem.
