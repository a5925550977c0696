-------------------------- MODULE AttentionWeights --------------------------
(***************************************************************************)
(* From scores to probabilities inside Qwen3Attention::forward: the causal *)
(* mask is added to the scores of every head (batch_Add), infinities are   *)
(* replaced by the lowest float, and softmax normalises the rows, which a  *)
(* team of threads takes in any order.                                     *)
(*                                                                         *)
(* Floats are what these steps tell apart: integers up to Small stand for  *)
(* scores of ordinary size, Huge and -Huge for the largest and the lowest  *)
(* float, in which an ordinary number is absorbed, then the infinities and *)
(* NaN.  Of a probability only its kind is kept: positive, zero where exp  *)
(* underflows, or NaN.                                                     *)
(***************************************************************************)
EXTENDS Integers

CONSTANTS
  NumHead,      \* num_q_head
  Sqlen,        \* lengths of a call
  Past,         \* positions before it
  Small,        \* bound: ordinary scores are -Small .. Small
  Huge,         \* std::numeric_limits<float>::max()
  Infinity, NaN,
  ScoreRows(_)  \* bound: the rows of n scores that qk_bmm may produce

\* The mask has one plane and batch_Add throws unless the heads are more.
ASSUME FloatAssumption ==
  /\ NumHead \in Nat /\ NumHead > 1
  /\ Sqlen \subseteq Nat \ {0} /\ Past \subseteq Nat
  /\ {Small, Huge, Infinity, NaN} \subseteq Nat \ {0}
  /\ 4 * Small < Huge /\ 3 * Huge < Infinity /\ 3 * Infinity < NaN

\* The floats that are not NaN.
Score == (-Small .. Small) \cup {Huge, -Huge, Infinity, -Infinity}

ASSUME ScoreAssumption ==
  \A n \in {p + s : p \in Past, s \in Sqlen} : ScoreRows(n) \subseteq [1..n -> Score]

VARIABLES
  pc,
  past_sqlen, sqlen,
  raw,           \* history: the scores as qk_bmm left them
  attn_weights,  \* scores, of the row <<h, i>> at key j
  attn_probs

weightsVars == <<pc, past_sqlen, sqlen, raw, attn_weights, attn_probs>>

-----------------------------------------------------------------------------
\* The nearest float to an exact sum of finite ones.
Near(x, limit) == x \in (limit - 2 * Small) .. (limit + 2 * Small)
Rounded(x) ==
  CASE Near(x, -Huge) -> -Huge
    [] Near(x, Huge) -> Huge
    [] x < -Huge -> -Infinity
    [] x > Huge -> Infinity
    [] OTHER -> x

Plus(x, y) ==
  IF NaN \in {x, y} \/ {x, y} = {-Infinity, Infinity} THEN NaN
  ELSE IF Infinity \in {x, y} THEN Infinity
  ELSE IF -Infinity \in {x, y} THEN -Infinity
  ELSE Rounded(x + y)

Negated(x) == IF x = NaN THEN NaN ELSE -x

\* std::max, which keeps its first argument when the second is NaN.
Larger(x, y) == IF NaN \notin {x, y} /\ x < y THEN y ELSE x

None == "zero"
Exp(x) == IF x = NaN THEN "nan" ELSE IF x < -2 * Small THEN None ELSE "positive"

-----------------------------------------------------------------------------
Rows == (0..(NumHead - 1)) \X (0..(sqlen - 1))
Keys == 0..(past_sqlen + sqlen - 1)

MaskOneLate(i, j) == IF j <= i + past_sqlen + 1 THEN 0 ELSE -Huge
Mask(i, j) == IF j <= i + past_sqlen THEN 0 ELSE -Huge

\* batch_Add: the one plane of the mask for every head.
Masked == [r \in Rows |-> [j \in Keys |-> Plus(attn_weights[r][j], Mask(r[2], j))]]

\* std::isinf, of either sign.
ClampedNowhere(x) == x
Clamped(x) == IF x \in {Infinity, -Infinity} THEN -Huge ELSE x

\* The first pass of softmax.
MaxOf(row) ==
  LET max_val[k \in Keys] == IF k = 0 THEN row[0] ELSE Larger(max_val[k - 1], row[k])
  IN  max_val[past_sqlen + sqlen - 1]

\* exps[k], its sum and the product with the sum's inverse.
Softmax(row) ==
  LET exps == [k \in Keys |-> Exp(Plus(row[k], Negated(MaxOf(row))))]
      lost == (\E k \in Keys : exps[k] = "nan") \/ (\A k \in Keys : exps[k] = None)
  IN  [k \in Keys |-> IF lost THEN "nan" ELSE exps[k]]

-----------------------------------------------------------------------------
WeightsInit ==
  /\ pc = "idle"
  /\ past_sqlen \in Past
  /\ sqlen \in Sqlen
  /\ raw = << >>
  /\ attn_weights = << >>
  /\ attn_probs = << >>

\* qk_bmm; two of the rows differ, the others repeat them.
QkBmm ==
  /\ pc = "idle"
  /\ \E even, odd \in ScoreRows(past_sqlen + sqlen) :
       attn_weights' = [r \in Rows |->
         [j \in Keys |-> IF (r[1] + r[2]) % 2 = 0 THEN even[j + 1] ELSE odd[j + 1]]]
  /\ raw' = attn_weights'
  /\ pc' = "mask"
  /\ UNCHANGED <<past_sqlen, sqlen, attn_probs>>

BatchAdd ==
  /\ pc = "mask"
  /\ attn_weights' = Masked
  /\ pc' = "clamp"
  /\ UNCHANGED <<past_sqlen, sqlen, raw, attn_probs>>

ClampInfinities ==
  /\ pc = "clamp"
  /\ attn_weights' = [r \in Rows |-> [j \in Keys |-> Clamped(attn_weights[r][j])]]
  /\ pc' = "softmax"
  /\ UNCHANGED <<past_sqlen, sqlen, raw, attn_probs>>

\* The iterations of the parallel for are one row each.
SoftmaxRow(r) ==
  /\ pc = "softmax"
  /\ r \in Rows \ DOMAIN attn_probs
  /\ attn_probs' = [s \in DOMAIN attn_probs \cup {r} |->
                      IF s = r THEN Softmax(attn_weights[r]) ELSE attn_probs[s]]
  /\ UNCHANGED <<pc, past_sqlen, sqlen, raw, attn_weights>>

WeightsNext ==
  \/ QkBmm \/ BatchAdd \/ ClampInfinities
  \/ \E r \in Rows : SoftmaxRow(r)

WeightsSpec == WeightsInit /\ [][WeightsNext]_weightsVars

-----------------------------------------------------------------------------
(* Whatever finite or infinite scores the product yields, the softmax makes *)
(* no NaN of them, as the assertion behind it says (QwenAttention.cc:182):  *)
(* a row that was nothing but infinities must not become inf - inf, nor a   *)
(* sum of zeros.                                                            *)
NoNaN == \A r \in DOMAIN attn_probs : \A j \in Keys : attn_probs[r][j] # "nan"

(* No query gives weight to a key of a later position, although the mask is *)
(* a finite number that a score is added to: as long as the query has a     *)
(* score of ordinary size to look at, a later key's probability is exactly  *)
(* zero, whatever its score, the largest float excepted.                    *)
FutureIsHidden ==
  \A r \in DOMAIN attn_probs :
    (\E j \in 0..(past_sqlen + r[2]) : raw[r][j] \in -Small .. Small) =>
      \A j \in Keys : j > past_sqlen + r[2] /\ raw[r][j] # Huge => attn_probs[r][j] = None
=============================================================================
