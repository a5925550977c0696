------------------------------ MODULE Sampler ------------------------------
(***************************************************************************)
(* Pipeline::sample_next_token: the penalties and the filters that turn    *)
(* the logits of one forward pass into the next token.  The candidates are *)
(* an array with a `sorted` flag that every filter trusts and some set.    *)
(*                                                                         *)
(* Logits are integers and a softmax weight is a power of two, zero when   *)
(* the logit lies too far below the first one (expf underflows).  The      *)
(* probabilities p, z, typical_p are fractions over Denominator, compared  *)
(* exactly.  std::sort may leave equal keys in any order.                  *)
(***************************************************************************)
EXTENDS Integers, Sequences, SequencesExt, FiniteSetsExt

CONSTANTS
  NVocab,       \* generation_config.n_vocab
  Logits,       \* the logits lm_head may return
  Windows,      \* the last_n_repeat tokens handed to the penalties
  Configs,      \* the sampling parameters in use, a set of records
  Denominator,  \* of the fields tfs_z, typical_p and top_p
  Underflow     \* expf(-x) is zero for x > Underflow

\* inv_temp is 1 / temp, and zero stands for temp <= 0.
Config ==
  [repeat_penalty : Nat \ {0}, frequency_penalty : Nat, presence_penalty : Nat,
   top_k : Int, tfs_z : 0..Denominator, typical_p : 0..Denominator, top_p : 0..Denominator,
   inv_temp : Nat, mirostat : Nat]

ASSUME SamplerAssumption ==
  /\ {NVocab, Denominator} \subseteq Nat \ {0}
  /\ Underflow \in Nat
  /\ Logits \subseteq Int
  /\ Windows \subseteq Seq(0..NVocab-1)
  /\ Configs \subseteq Config
  /\ \A c \in Configs, l \in Logits : l % c.repeat_penalty = 0

VARIABLES
  pc,             \* the filter about to run, then "done"
  config,         \* generation_config
  logits,         \* the argument: a logit for every id
  last_tokens,    \* the argument: the window of recent tokens
  data,           \* candidates->data[0 .. size-1]
  sorted,         \* candidates->sorted
  next_token_id

args == <<config, logits, last_tokens>>
vars == <<pc, args, data, sorted, next_token_id>>

Ids == 0..(NVocab - 1)
MinKeep == 1
None == -1

-----------------------------------------------------------------------------
(* Arithmetic on the candidate array                                        *)

Descending(s) == \A i, j \in DOMAIN s : i < j => s[i].logit >= s[j].logit
Ascending(s) == \A i, j \in DOMAIN s : i < j => s[i].logit <= s[j].logit

\* The results std::sort may give for the array.
SortedUpwards(s) == {r \in SetToSeqs(ToSet(s)) : Ascending(r)}
SortedOrders(s) == {r \in SetToSeqs(ToSet(s)) : Descending(r)}
Sort(s) == IF sorted THEN {s} ELSE SortedOrders(s)

\* expf(logit - data[0].logit), the probabilities before normalisation.
PowerOfTwo(n) == LET p[k \in 0..n] == IF k = 0 THEN 1 ELSE 2 * p[k - 1] IN p[n]
Weight(first, l) == IF first - l > Underflow THEN 0 ELSE PowerOfTwo(Underflow - (first - l))
Weights(s) == [i \in DOMAIN s |-> Weight(s[1].logit, s[i].logit)]
Total(w) == FoldLeft(+, 0, w)
Cumulated(w, i) == Total(SubSeq(w, 1, i))

Abs(n) == IF n < 0 THEN -n ELSE n
Differences(w) == [i \in 1..(Len(w) - 1) |-> w[i] - w[i + 1]]
Curvature(w) == LET d == Differences(Differences(w)) IN [i \in DOMAIN d |-> Abs(d[i])]

\* Indices (from 0, as in the code) at which the mass passes the threshold.
Passing(w, threshold) ==
  {i \in 0..(Len(w) - 1) : Cumulated(w, i + 1) * Denominator > threshold * Total(w)}

\* |-log p - entropy|: both are log Z minus a logit, so the shifted score is
\* the distance of the logit from the mean logit, here times Total(w).
ShiftedScores(s, w) ==
  LET mean == Total([i \in DOMAIN s |-> w[i] * s[i].logit])
  IN  [i \in DOMAIN s |-> Abs(mean - Total(w) * s[i].logit)]

\* The orders sample_typical may leave; a zero probability makes every score
\* NaN, and std::sort is then free.
TypicalOrders(s, w) ==
  LET score   == ShiftedScores(s, w)
      Place(c) == CHOOSE i \in DOMAIN s : s[i] = c
      InOrder(r) == \A i, j \in DOMAIN r : i < j => score[Place(r[i])] <= score[Place(r[j])]
  IN  {r \in SetToSeqs(ToSet(s)) : 0 \in ToSet(w) \/ InOrder(r)}

\* last_idx: the first index of the set, or size when the loop runs out.
FirstOr(S, size) == IF S = {} THEN size ELSE Min(S)

-----------------------------------------------------------------------------
InWindow(id) == \E i \in DOMAIN last_tokens : last_tokens[i] = id
Count(id) == Cardinality({i \in DOMAIN last_tokens : last_tokens[i] = id})

DivideAlways(id, l) == IF InWindow(id) THEN l \div config.repeat_penalty ELSE l
Repeat(id, l) ==
  IF ~InWindow(id) THEN l
  ELSE IF l <= 0 THEN l * config.repeat_penalty ELSE l \div config.repeat_penalty

Discount(id, l) ==
  IF InWindow(id) THEN l - (Count(id) * config.frequency_penalty + config.presence_penalty) ELSE l

\* The array once both penalties have run.
Penalised == [i \in 1..NVocab |-> [id |-> i - 1, logit |-> Discount(i - 1, Repeat(i - 1, logits[i - 1]))]]

-----------------------------------------------------------------------------
Init ==
  /\ pc = "penalise"
  /\ config \in Configs
  /\ logits \in [Ids -> Logits]
  /\ last_tokens \in Windows
  /\ data = [i \in 1..NVocab |-> [id |-> i - 1, logit |-> logits[i - 1]]]
  /\ sorted = FALSE
  /\ next_token_id = None

\* Both penalties leave the array unsorted; a window of size zero or a
\* disabled penalty leaves it as it was.
Penalise ==
  /\ pc = "penalise"
  /\ data' = Penalised
  /\ sorted' = FALSE
  /\ pc' = IF config.inv_temp = 0 THEN "greedy" ELSE IF config.mirostat # 0 THEN "mirostat" ELSE "top_k"
  /\ UNCHANGED <<args, next_token_id>>

\* std::max_element returns the first of the greatest.
Greedy ==
  /\ pc = "greedy"
  /\ next_token_id' = Min({data[i].id : i \in {j \in DOMAIN data :
                                 \A k \in DOMAIN data : data[k].logit <= data[j].logit}})
  /\ pc' = "done"
  /\ UNCHANGED <<args, data, sorted>>

MirostatBranchUnset ==
  /\ pc = "mirostat"
  /\ pc' = "done"
  /\ UNCHANGED <<args, data, sorted, next_token_id>>

\* The branch is empty: next_token_id keeps its initial 0.
MirostatBranch ==
  /\ pc = "mirostat"
  /\ next_token_id' = 0
  /\ pc' = "done"
  /\ UNCHANGED <<args, data, sorted>>

ClampK == LET k == Max({config.top_k, MinKeep}) IN Min({k, Len(data)})

\* A full or a partial sort: the first k of a sorted array either way.
SampleTopK ==
  /\ pc = "top_k"
  /\ \E s \in Sort(data) : data' = SubSeq(s, 1, ClampK)
  /\ sorted' = TRUE
  /\ pc' = "tail_free"
  /\ UNCHANGED <<args, next_token_id>>

SampleTailFree ==
  /\ pc = "tail_free"
  /\ IF config.tfs_z >= Denominator \/ Len(data) <= 2
       THEN UNCHANGED <<data, sorted>>
       ELSE /\ sorted' = TRUE
            /\ \E s \in Sort(data) :
                 LET cut == {i \in Passing(Curvature(Weights(s)), config.tfs_z) : i >= MinKeep}
                 IN  data' = SubSeq(s, 1, FirstOr(cut, Len(s)))
  /\ pc' = "typical"
  /\ UNCHANGED <<args, next_token_id>>

\* The array is put in the order of the shifted scores; sorted stays TRUE.
SampleTypical ==
  /\ pc = "typical"
  /\ IF config.typical_p >= Denominator
       THEN UNCHANGED <<data, sorted>>
       ELSE /\ sorted' = TRUE
            /\ \E s0 \in Sort(data) : \E s \in TypicalOrders(s0, Weights(s0)) :
                 LET w   == [i \in DOMAIN s |-> Weight(s0[1].logit, s[i].logit)]
                     cut == {i \in Passing(w, config.typical_p) : i >= MinKeep - 1}
                 IN  data' = SubSeq(s, 1, FirstOr({i + 1 : i \in cut}, Len(s)))
  /\ pc' = "top_p"
  /\ UNCHANGED <<args, next_token_id>>

\* Indices at which sample_top_p may stop.
NucleusCutUnguarded(w) == Passing(w, config.top_p)
NucleusCutInclusive(w) == {i + 1 : i \in {j \in Passing(w, config.top_p) : j >= MinKeep}}
NucleusCut(w) == {i \in Passing(w, config.top_p) : i >= MinKeep}

SampleTopP ==
  /\ pc = "top_p"
  /\ IF config.top_p >= Denominator
       THEN UNCHANGED <<data, sorted>>
       ELSE /\ sorted' = TRUE
            /\ \E s \in Sort(data) :
                 data' = SubSeq(s, 1, FirstOr(NucleusCut(Weights(s)), Len(s)))
  /\ pc' = "temperature"
  /\ UNCHANGED <<args, next_token_id>>

SampleTemperatureSkipped ==
  /\ pc = "temperature"
  /\ pc' = "draw"
  /\ UNCHANGED <<args, data, sorted, next_token_id>>

\* sample_temperature divides in place and leaves the flag alone.
SampleTemperature ==
  /\ pc = "temperature"
  /\ data' = [i \in DOMAIN data |-> [data[i] EXCEPT !.logit = @ * config.inv_temp]]
  /\ pc' = "draw"
  /\ UNCHANGED <<args, sorted, next_token_id>>

\* std::discrete_distribution never returns an index of weight zero.
Drawable(s) == {i \in DOMAIN s : Weights(s)[i] > 0}
SampleToken ==
  /\ pc = "draw"
  /\ \E s \in Sort(data) :
       /\ data' = s
       /\ \E i \in Drawable(s) : next_token_id' = s[i].id
  /\ sorted' = TRUE
  /\ pc' = "done"
  /\ UNCHANGED args

Next ==
  \/ Penalise
  \/ Greedy
  \/ MirostatBranch
  \/ SampleTopK
  \/ SampleTailFree
  \/ SampleTypical
  \/ SampleTopP
  \/ SampleTemperature
  \/ SampleToken

Spec == Init /\ [][Next]_vars

-----------------------------------------------------------------------------
TypeOK ==
  /\ pc \in {"penalise", "greedy", "mirostat", "top_k", "tail_free", "typical", "top_p",
             "temperature", "draw", "done"}
  /\ config \in Configs
  /\ logits \in [Ids -> Logits]
  /\ last_tokens \in Windows
  /\ data \in Seq([id : Ids, logit : Int])
  /\ sorted \in BOOLEAN
  /\ next_token_id \in IF pc = "done" THEN Ids ELSE {None}

KeptIds == {data[i].id : i \in DOMAIN data}
Score(id) == Penalised[id + 1].logit
TypicalOff == config.typical_p >= Denominator

(* No filter empties the array, whatever the thresholds: sample_softmax     *)
(* (Pipeline.cc:71, 80) and sample_token (105) read data[0] unchecked in    *)
(* Release.  A candidate may appear once only.                              *)
NeverEmpty == data # << >> /\ Cardinality(KeptIds) = Len(data)

(* The filters cut the unlikely end: with sample_typical disabled no        *)
(* candidate that was dropped scores higher than one that was kept, however *)
(* the penalties reordered the logits before the first sort.                *)
KeepsTheBest ==
  TypicalOff => \A kept \in KeptIds, dropped \in Ids \ KeptIds : Score(kept) >= Score(dropped)

(* A set `sorted` flag is true of the array: the filters after it take      *)
(* data[0] for the most likely candidate and cut a suffix.                  *)
SortedIsHonest == sorted => Descending(data)

(* The penalties push a token of the window down, never up, whatever the    *)
(* sign of its logit, and leave every other token alone (Pipeline.cc:18-22, *)
(* 42-48): no token gains a rank by having just been said.                  *)
PenaltyDemotes ==
  pc \in {"greedy", "mirostat", "top_k"} =>
    \A i, j \in DOMAIN data :
      /\ ~InWindow(data[i].id) => data[i].logit = logits[data[i].id]
      /\ InWindow(data[i].id) /\ ~InWindow(data[j].id)
           /\ logits[data[i].id] <= logits[data[j].id] => data[i].logit <= data[j].logit

(* The mass of some of the candidates, relative to the most likely one.     *)
Mass(ids) ==
  LET most == Max({data[i].logit : i \in DOMAIN data})
      w    == [i \in DOMAIN data |-> IF data[i].id \in ids THEN Weight(most, data[i].logit) ELSE 0]
  IN  Total(w)

(* Those kept stay within the limit, and with the best of the others would  *)
(* not.                                                                     *)
LongestWithin(limit, kept) ==
  /\ Cardinality(kept) > 1 => Mass(kept) * Denominator <= limit
  /\ \A id \in KeptIds \ kept :
       (\A other \in KeptIds \ kept : Score(other) <= Score(id)) =>
         Mass(kept \cup {id}) * Denominator > limit

(* sample_top_p keeps the longest run of most likely candidates whose mass  *)
(* does not exceed p, the most likely one in any case: the candidate that   *)
(* crosses p is not kept (Pipeline.cc:304-315).  After sample_typical the   *)
(* array it accumulates over is in another order, and it may not.           *)
NucleusIsLongest ==
  [][ pc = "top_p" /\ config.top_p < Denominator /\ TypicalOff =>
        LongestWithin(config.top_p * Mass(KeptIds), {data'[i].id : i \in DOMAIN data'}) ]_vars

(* With sample_typical disabled, as by default (QwenConfig.h:75), the token *)
(* returned is one the model gave a positive probability, drawn or greedy,  *)
(* through both penalties and the other filters.  sample_typical may leave  *)
(* only candidates whose weight underflows, and the branch for mirostat     *)
(* (Pipeline.cc:352) returns token 0 whatever its weight.                   *)
Possible(id) ==
  LET best == Max({Score(i) : i \in Ids})
  IN  Weight(best * config.inv_temp, Score(id) * config.inv_temp) > 0
DrawnIsPossible ==
  pc = "done" /\ config.mirostat = 0 /\ TypicalOff => Possible(next_token_id)
=============================================================================
