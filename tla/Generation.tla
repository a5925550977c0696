----------------------------- MODULE Generation -----------------------------
(***************************************************************************)
(* The chat loop of application/chat.cc and the generation loop of         *)
(* Pipeline::_generate_from_ids, together with the position counter that   *)
(* Qwen3ForCausalLM::forward keeps across turns.                           *)
(*                                                                         *)
(* One turn reads a line, encodes it into input_ids and then alternates    *)
(* model->forward and sample_next_token.  Any token of the vocabulary can  *)
(* be drawn: the sampler is a draw from a distribution over all n_vocab    *)
(* ids (module Sampler looks inside it).  Tokens are model values; the     *)
(* three that the control flow tells apart are Eos, Pad and the ids that   *)
(* the tokenizer cannot decode.                                            *)
(***************************************************************************)
EXTENDS Integers, FiniteSets, Sequences, SequencesExt

CONSTANTS
  Token,        \* ids the lm_head can score: 0 .. n_vocab-1
  Zero,         \* id 0, with which last_n_tokens is filled
  Eos, Pad,     \* config.eos_token_id, config.pad_token_id
  Undecodable,  \* ids below n_vocab that the tiktoken vocabulary lacks
  Prompts,      \* what the tokenizer makes of the lines a user may type
  MaxSqlen,     \* config.max_sqlen
  NPredict,     \* generation_config.n_predict; negative means no limit
  NCtx,         \* generation_config.n_ctx, the length of last_n_tokens
  Interactive,  \* the pipeline prints, hence decodes, every token
  Asserts,      \* TRUE in the Debug build, FALSE under -DNDEBUG
  MaxTurns,     \* bound: lines the user types
  MaxPads,      \* bound: padding tokens drawn in one turn
  MaxReply      \* bound: tokens of one reply, only felt when NPredict < 0

ASSUME TokenAssumption ==
  /\ {Zero, Eos, Pad} \subseteq Token
  /\ Eos # Pad
  /\ Undecodable \subseteq Token \ {Eos, Pad}

ASSUME PromptAssumption == Prompts \subseteq Seq(Token) /\ \A p \in Prompts : p # << >>

ASSUME SizeAssumption ==
  /\ MaxSqlen \in Nat \ {0}
  /\ NPredict \in Int
  /\ NCtx \in Nat \ {0}
  /\ {Interactive, Asserts} \subseteq BOOLEAN

ASSUME BoundAssumption == {MaxTurns, MaxPads, MaxReply} \subseteq Nat

VARIABLES
  pc,                         \* "user", "loop", "sample" or "aborted"
  input_ids,                  \* what the next forward is fed
  n_remain,
  stop_generation_tolerance,
  last_n_tokens,              \* the window of the repetition penalty
  generate_ids,               \* the reply
  past_sqlen,                 \* Qwen3ForCausalLM::past_sqlen
  rows,                       \* rows[p]: the token whose key/value is row p-1
  turn,                       \* history: turns begun
  prompt,                     \* history: input_ids at the start of the turn
  base,                       \* history: past_sqlen at the start of the turn
  pads,                       \* history: padding tokens drawn in the turn
  drawn                       \* history: all tokens drawn in the turn

loopVars == <<input_ids, n_remain, stop_generation_tolerance, last_n_tokens, generate_ids>>
modelVars == <<past_sqlen, rows>>
turnVars == <<turn, prompt, base>>
drawVars == <<pads, drawn>>
vars == <<pc, loopVars, modelVars, turnVars, drawVars>>

-----------------------------------------------------------------------------
LastN(s, n) == SubSeq(s, Len(s) - n + 1, Len(s))

\* QwenTokenizer::encode keeps the last max_length ids.
Truncate(ids) == IF Len(ids) > MaxSqlen THEN LastN(ids, MaxSqlen) ELSE ids

\* What stop_generation_tolerance starts at and an accepted token restores.
ToleranceOfThree == 3
Tolerance == 2

\* last_n_tokens.erase(begin) followed by push_back.
SlideKeepsOldest(window, t) == Append(window, t)
Slide(window, t) == Append(Tail(window), t)

\* The rows at positions past .. past+Len(ids)-1 take the keys/values of ids.
WriteRowsFromTurnStart(r, past, ids) ==
  SubSeq(r, 1, past - base) \o ids \o SubSeq(r, past - base + Len(ids) + 1, Len(r))
WriteRows(r, past, ids) ==
  SubSeq(r, 1, past) \o ids \o SubSeq(r, past + Len(ids) + 1, Len(r))

\* The assertion of RotaryPosEmb::apply about the rows the next forward writes.
RopeInRange == MaxSqlen > Len(input_ids) + past_sqlen

ContinuesOnEither == n_remain # 0 \/ stop_generation_tolerance # 0
ContinuesOnBudget == n_remain # 0
Continues == n_remain # 0 /\ stop_generation_tolerance # 0

-----------------------------------------------------------------------------
Init ==
  /\ pc = "user"
  /\ input_ids = << >>
  /\ n_remain = NPredict
  /\ stop_generation_tolerance = Tolerance
  /\ last_n_tokens = [i \in 1..NCtx |-> Zero]
  /\ generate_ids = << >>
  /\ past_sqlen = 0
  /\ rows = << >>
  /\ turn = 0
  /\ prompt = << >>
  /\ base = 0
  /\ pads = 0
  /\ drawn = << >>

\* getline, generate, encode_history and the locals of _generate_from_ids.
ReadLine ==
  /\ pc = "user"
  /\ turn < MaxTurns
  /\ \E p \in Prompts : input_ids' = Truncate(p)
  /\ n_remain' = NPredict
  /\ stop_generation_tolerance' = Tolerance
  /\ last_n_tokens' = [i \in 1..NCtx |-> Zero]
  /\ generate_ids' = << >>
  /\ pc' = "loop"
  /\ turn' = turn + 1
  /\ prompt' = input_ids'
  /\ base' = past_sqlen
  /\ pads' = 0
  /\ drawn' = << >>
  /\ UNCHANGED modelVars

\* model->forward: every layer writes its rows, past_sqlen advances last.
Forward ==
  /\ pc = "loop"
  /\ Continues
  /\ Asserts => RopeInRange
  /\ rows' = WriteRows(rows, past_sqlen, input_ids)
  /\ past_sqlen' = past_sqlen + Len(input_ids)
  /\ pc' = "sample"
  /\ UNCHANGED <<loopVars, turnVars, drawVars>>

\* The assertion of RotaryPosEmb::apply stops a Debug build.
ForwardAsserts ==
  /\ pc = "loop"
  /\ Continues
  /\ Asserts /\ ~RopeInRange
  /\ pc' = "aborted"
  /\ UNCHANGED <<loopVars, modelVars, turnVars, drawVars>>

DrawEosFedBack ==
  /\ pc = "sample"
  /\ stop_generation_tolerance' = stop_generation_tolerance - 1
  /\ drawn' = Append(drawn, Eos)
  /\ input_ids' = <<Eos>>
  /\ pc' = "loop"
  /\ UNCHANGED <<n_remain, last_n_tokens, generate_ids, modelVars, turnVars, pads>>
DrawEos ==
  /\ pc = "sample"
  /\ stop_generation_tolerance' = stop_generation_tolerance - 1
  /\ drawn' = Append(drawn, Eos)
  /\ pc' = "loop"
  /\ UNCHANGED <<input_ids, n_remain, last_n_tokens, generate_ids, modelVars, turnVars, pads>>

DrawPad ==
  /\ pc = "sample"
  /\ pads < MaxPads
  /\ pads' = pads + 1
  /\ drawn' = Append(drawn, Pad)
  /\ pc' = "loop"
  /\ UNCHANGED <<loopVars, modelVars, turnVars>>

\* decode throws on an unknown id, after the reply took it and before
\* --n_remain; nothing catches the exception.
DrawToken(t) ==
  /\ pc = "sample"
  /\ NPredict < 0 => Len(generate_ids) < MaxReply
  /\ stop_generation_tolerance' = Tolerance
  /\ last_n_tokens' = Slide(last_n_tokens, t)
  /\ generate_ids' = Append(generate_ids, t)
  /\ input_ids' = <<t>>
  /\ IF Interactive /\ t \in Undecodable
       THEN pc' = "aborted" /\ UNCHANGED n_remain
       ELSE pc' = "loop" /\ n_remain' = n_remain - 1
  /\ drawn' = Append(drawn, t)
  /\ UNCHANGED <<modelVars, turnVars, pads>>

ReturnOnEos ==
  /\ pc = "loop"
  /\ stop_generation_tolerance = 0
  /\ pc' = "user"
  /\ UNCHANGED <<loopVars, modelVars, turnVars, drawVars>>

Return ==
  /\ pc = "loop"
  /\ ~Continues
  /\ pc' = "user"
  /\ UNCHANGED <<loopVars, modelVars, turnVars, drawVars>>

Next ==
  \/ ReadLine
  \/ Forward
  \/ ForwardAsserts
  \/ DrawEos
  \/ DrawPad
  \/ \E t \in Token \ {Eos, Pad} : DrawToken(t)
  \/ Return

Spec == Init /\ [][Next]_vars

\* The loop is straight-line code of one thread: whenever it can take a step
\* it does.  Nothing is assumed of the user.
FairSpec ==
  /\ Spec
  /\ WF_vars(Forward \/ ForwardAsserts \/ Return)
  /\ WF_vars(DrawEos \/ DrawPad \/ \E t \in Token \ {Eos, Pad} : DrawToken(t))

-----------------------------------------------------------------------------
TypeOK ==
  /\ pc \in {"user", "loop", "sample", "aborted"}
  /\ input_ids \in Seq(Token)
  /\ n_remain \in Int
  /\ stop_generation_tolerance \in 0..2
  /\ last_n_tokens \in [1..NCtx -> Token]
  /\ generate_ids \in Seq(Token)
  /\ past_sqlen \in Nat
  /\ rows \in Seq(Token)
  /\ turn \in Nat
  /\ prompt \in Seq(Token)
  /\ base \in Nat
  /\ drawn \in Seq(Token)
  /\ pads \in Nat

-----------------------------------------------------------------------------
(* What the draws of a turn say happened, told without the loop's own state *)

Accepted(t) == t \notin {Eos, Pad}
Reply(s) ==
  LET kept[n \in 0..Len(s)] ==
        IF n = 0 THEN << >>
        ELSE IF Accepted(s[n]) THEN Append(kept[n - 1], s[n]) ELSE kept[n - 1]
  IN  kept[Len(s)]
EosStreak(s) ==
  Cardinality({i \in DOMAIN s : s[i] = Eos /\ \A j \in i..Len(s) : ~Accepted(s[j])})

\* What the model is fed once s has been drawn: the prompt until a token is
\* accepted, then the last accepted token.
FedAfter(s) == LET r == Reply(s) IN IF r = << >> THEN prompt ELSE <<Last(r)>>

\* One pass before every draw, and the one whose logits await sampling.
Passes == Len(drawn) + (IF pc = "sample" THEN 1 ELSE 0)

DiedAtRope == Asserts /\ ~RopeInRange
DiedAtDecode == Interactive /\ drawn # << >> /\ Last(drawn) \in Undecodable

-----------------------------------------------------------------------------
(* The context of a turn holds exactly what its passes fed, in order: each  *)
(* pass that drew Eos or Pad (Pipeline.cc:416-424, the two `continue`) has  *)
(* the same input_ids processed once more at new positions, and the token   *)
(* that exhausts n_predict, like Eos itself, never enters the context.      *)
ContextReplaysDraws ==
  SubSeq(rows, base + 1, past_sqlen) =
    FlattenSeq([k \in 1..Passes |-> FedAfter(SubSeq(drawn, 1, k - 1))])

(* The loop is a client of the language model of module LanguageModel: past *)
(* _sqlen lives as long as the model (chat.cc:60), every forward extends    *)
(* the context by one token at least, no step of a later turn or pass       *)
(* touches what an earlier one has left, and nothing else changes it.       *)
Model == INSTANCE LanguageModel WITH context <- rows, scored <- rows
ModelSpec == Model!Spec

(* The loop samples only while neither the budget nor the tolerance is      *)
(* spent, and a turn returns for one of two reasons: n_predict tokens were  *)
(* accepted, or Eos was drawn twice with no token accepted in between.  A   *)
(* Pad in between does not reset the tolerance; an accepted token does.     *)
(* The program dies for one of two reasons: the assertion of RotaryPosEmb,  *)
(* or an id just drawn that decode throws on (Pipeline.cc:431); a program   *)
(* that prints has drawn no such id in a turn it survives.                  *)
StopRule ==
  /\ pc = "sample" => Len(Reply(drawn)) # NPredict /\ EosStreak(drawn) < 2
  /\ pc = "user" /\ turn > 0 => Len(Reply(drawn)) = NPredict \/ EosStreak(drawn) = 2
  /\ pc = "aborted" => DiedAtRope \/ DiedAtDecode
  /\ pc # "aborted" => ~(Interactive /\ \E i \in DOMAIN drawn : drawn[i] \in Undecodable)

(* The penalties of Pipeline.cc:328-345 look at the last tokens of this     *)
(* turn's reply, preceded by zeros as long as the reply is shorter than     *)
(* n_ctx; neither the prompt, nor Eos, nor an earlier turn is looked at.    *)
PenaltyWindow ==
  last_n_tokens = LastN([i \in 1..NCtx |-> Zero] \o Reply(drawn), NCtx)

(* Whatever is drawn, a turn takes at most two rows for every row of the    *)
(* prompt and every accepted token but the last, and a prompt's worth for   *)
(* every Pad: the room a turn must find in a cache of MaxSqlen rows.        *)
TurnRoom == 2 * (Len(prompt) + NPredict - 1) + pads * Len(prompt)
TurnContextBound == NPredict > 0 => past_sqlen - base <= TurnRoom

(* A turn that found that room keeps RotaryPosEmb::apply inside its tables. *)
RoomSuffices ==
  pc = "loop" /\ Continues /\ NPredict > 0 /\ base + TurnRoom < MaxSqlen => RopeInRange

(* How the rows of a turn were spent, at every moment of it: the account    *)
(* that makes the two bounds above inductive.  An input that led to an      *)
(* accepted token was processed at most twice, the current one once for     *)
(* every point of tolerance lost and once more while its logits await       *)
(* sampling, and a Pad costs no more than the prompt's length.              *)
SpentEarlier ==
  IF generate_ids = << >> THEN 0 ELSE 2 * (Len(prompt) + Len(generate_ids) - 1)
SpentOnInput ==
  (2 - stop_generation_tolerance + (IF pc = "sample" THEN 1 ELSE 0)) * Len(input_ids)
TurnAccount ==
  /\ past_sqlen = Len(rows)
  /\ base <= past_sqlen
  /\ turn > 0 => prompt # << >>
  /\ turn = 0 => pc = "user" /\ generate_ids = << >>
  /\ Len(input_ids) = IF generate_ids = << >> THEN Len(prompt) ELSE 1
  /\ pc # "aborted" => n_remain + Len(generate_ids) = NPredict
  /\ pc = "sample" => n_remain # 0 /\ stop_generation_tolerance # 0
  /\ NPredict > 0 =>
       /\ Len(generate_ids) <= NPredict
       /\ Len(generate_ids) = NPredict => stop_generation_tolerance = 2
       /\ past_sqlen - base <= SpentEarlier + SpentOnInput + pads * Len(prompt)

(* Every turn ends, or the program dies, as long as Pad is drawn finitely   *)
(* often: nothing in the loop counts the padding tokens.                    *)
TurnEnds == pc \in {"loop", "sample"} ~> pc \in {"user", "aborted"}

-----------------------------------------------------------------------------
(* RotaryPosEmb.cc:16, `assert(max_sqlen > len + start_idx)`: a forward is  *)
(* only started with room for it.  Nothing in chat.cc or Pipeline.cc checks *)
(* it, and the Release build compiles the assertion out.                    *)
ForwardHasRoom == pc = "loop" /\ Continues => RopeInRange
=============================================================================
