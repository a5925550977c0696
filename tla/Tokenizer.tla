------------------------------ MODULE Tokenizer ------------------------------
(***************************************************************************)
(* QwenTokenizer and the tiktoken class it wraps: the vocabulary file is   *)
(* read line by line, the special tokens get the ids behind it, the prompt *)
(* is built around the user's line, cut at special tokens and by the       *)
(* regular expression into pieces, each piece is encoded by byte pairs     *)
(* (module GreedyBPE, which BytePairMerge implements), the ids are         *)
(* truncated, and ids are decoded.                                         *)
(*                                                                         *)
(* A text is a sequence of symbols: a byte, an invalid byte that no piece  *)
(* contains, or a special token, one symbol for its whole spelling.        *)
(***************************************************************************)
EXTENDS Integers, Sequences, FiniteSets, SequencesExt

CONSTANTS
  Char, Invalid,
  Specials,                 \* special_tokens_s, in the order of their ids
  ImStart, ImEnd,           \* two of them
  ThinkOpen, ThinkClose,    \* <|extra_21|> and <|extra_22|>, two more
  FileTokens, FileRanks,    \* bound: what the lines of the file may hold
  ImStartId, ImEndId,       \* config.im_start_id, config.im_end_id
  System, User, Assistant,  \* the words of the prompt template
  Newline,                  \* the byte between two turns of the template
  Lines,                    \* bound: lines the user may type
  MaxLengths                \* bound: values of max_length

Special == ToSet(Specials)
NoSpecial == "nullopt"

ASSUME SymbolAssumption ==
  /\ Specials \in Seq(Special) /\ NoSpecial \notin Special
  /\ Char \cap Special = {} /\ Invalid \notin Char \cup Special
  /\ {ImStart, ImEnd, ThinkOpen, ThinkClose} \subseteq Special
  /\ FileTokens \subseteq Seq(Char) \ {<< >>} /\ FileRanks \subseteq Nat
  /\ {System, User, Assistant} \subseteq Seq(Char) /\ Newline \in Char
  /\ Lines \subseteq Seq(Char \cup {Invalid} \cup Special)
  /\ MaxLengths \subseteq Nat \ {0}

\* The list of special tokens and the config agree on the second and the third.
ASSUME ConfigAssumption ==
  /\ Len(Specials) >= 3 /\ Specials[2] = ImStart /\ Specials[3] = ImEnd
  /\ \A i, j \in 1..Len(Specials) : Specials[i] = Specials[j] => i = j
  /\ ImStartId \in Nat /\ ImEndId = ImStartId + 1

VARIABLES
  phase,
  encoder_,                 \* rank of every token read so far
  special_tokens_encoder,   \* id of every special token
  max_length,
  prompt,                   \* what build_prompt returns
  input,                    \* what lies behind the last special token found
  special,                  \* the special token that ends sub_input, if any
  sub_input,                \* what is left of the text in front of it
  ids,                      \* ret, then what encode returns
  text                      \* what decode returns

fileVars == <<encoder_, special_tokens_encoder>>
callVars == <<max_length, prompt>>
loopVars == <<input, special, sub_input, ids>>
tokenizerVars == <<phase, fileVars, callVars, loopVars, text>>

-----------------------------------------------------------------------------
SpecialIdsFromOne(n) == [s \in Special |-> n + CHOOSE i \in DOMAIN Specials : Specials[i] = s]
SpecialIds(n) == [s \in Special |-> n + (CHOOSE i \in DOMAIN Specials : Specials[i] = s) - 1]

BuildPrompt(line) ==
  <<ImStart>> \o System \o <<ImEnd, Newline, ImStart>> \o User \o line
    \o <<ImEnd, Newline, ImStart>> \o Assistant

\* The text in front of the first special token; the input advances past it.
FirstSpecial(t) == SelectInSeq(t, LAMBDA c : c \in Special)
InputAfterCopied(t) == t
InputAfter(t) == SubSeq(t, FirstSpecial(t) + 1, Len(t))

\* byte_pair_encode: the merges of GreedyBPE until none is left.
Bpe(split) == INSTANCE GreedyBPE WITH text <- << >>, vocabulary <- encoder_
AllMerged[split \in Seq(Seq(Char))] ==
  IF Bpe(split)!Candidates = {} THEN split
  ELSE AllMerged[Bpe(split)!Merged(CHOOSE k \in Bpe(split)!Candidates : Bpe(split)!Best(k))]
Parts(piece) ==
  IF piece \in DOMAIN encoder_ THEN <<piece>>
  ELSE AllMerged[[k \in 1..Len(piece) |-> <<piece[k]>>]]

\* FindAndConsume: a match takes bytes, behind invalid ones that it skips.  The
\* regular expression decides where a piece ends.
Skipped(t) == SelectInSeq(t, LAMBDA c : c \in Char) - 1
Matches(t) ==
  IF Skipped(t) < 0 THEN {}
  ELSE {n \in 1..(Len(t) - Skipped(t)) :
          \A k \in 1..n : t[Skipped(t) + k] \in Char}
PiecesDoneAtEnd == sub_input = << >>
PiecesDone == Matches(sub_input) = {}

KeepFirst(s) == IF Len(s) > max_length THEN SubSeq(s, 1, max_length) ELSE s
KeepLast(s) == IF Len(s) > max_length THEN SubSeq(s, Len(s) - max_length + 1, Len(s)) ELSE s

\* What stays of s when the elements of S are left out.
Without(s, S) == FlattenSeq([k \in DOMAIN s |-> IF s[k] \in S THEN << >> ELSE <<s[k]>>])

\* _decode_native: the vocabulary is asked before the special tokens.  Which of
\* two tokens with one rank decoder_ keeps is left open.
Known(id) == \E s \in DOMAIN encoder_ : encoder_[s] = id
KnownSpecial(id) == \E s \in Special : special_tokens_encoder[s] = id
TextOf(id) ==
  IF Known(id) THEN CHOOSE s \in DOMAIN encoder_ : encoder_[s] = id
  ELSE <<CHOOSE s \in Special : special_tokens_encoder[s] = id>>
Decoded(s) == FlattenSeq([k \in DOMAIN s |-> TextOf(s[k])])

\* eos_token_id and im_end_id are one number in the config.
SpecialIdsOfConfig == {ImStartId, ImEndId}

Tag(c) == IF c = ThinkOpen THEN "<think>" ELSE IF c = ThinkClose THEN "</think>" ELSE c
Replaced(t) == [k \in DOMAIN t |-> Tag(t[k])]

-----------------------------------------------------------------------------
TokenizerInit ==
  /\ phase = "load"
  /\ encoder_ = << >>
  /\ special_tokens_encoder = << >>
  /\ max_length \in MaxLengths
  /\ prompt = << >>
  /\ input = << >> /\ special = NoSpecial /\ sub_input = << >>
  /\ ids = << >>
  /\ text = << >>

\* One line of the file, parsed and added.
ReadLine(token, rank) ==
  /\ phase = "load"
  /\ token \notin DOMAIN encoder_
  /\ encoder_' = [s \in DOMAIN encoder_ \cup {token} |->
                    IF s = token THEN rank ELSE encoder_[s]]
  /\ UNCHANGED <<phase, special_tokens_encoder, callVars, loopVars, text>>

\* No space, no number behind it, or a token that was there before.
BadLine ==
  /\ phase = "load"
  /\ phase' = "threw"
  /\ UNCHANGED <<fileVars, callVars, loopVars, text>>

EndOfFile ==
  /\ phase = "load"
  /\ special_tokens_encoder' = SpecialIds(Cardinality(DOMAIN encoder_))
  /\ phase' = "ready"
  /\ UNCHANGED <<encoder_, callVars, loopVars, text>>

\* encode_history with the one line that chat.cc passes.
EncodeHistory(line) ==
  /\ phase = "ready"
  /\ prompt' = BuildPrompt(line)
  /\ input' = prompt'
  /\ phase' = "split"
  /\ UNCHANGED <<fileVars, max_length, special, sub_input, ids, text>>

\* split_with_allowed_special_token; every match of special_regex_ is allowed.
Split ==
  /\ phase = "split"
  /\ IF FirstSpecial(input) > 0
       THEN /\ special' = input[FirstSpecial(input)]
            /\ sub_input' = SubSeq(input, 1, FirstSpecial(input) - 1)
            /\ input' = InputAfter(input)
       ELSE /\ special' = NoSpecial
            /\ sub_input' = input
            /\ UNCHANGED input
  /\ phase' = "pieces"
  /\ UNCHANGED <<fileVars, callVars, ids, text>>

\* ranks.at throws when a byte that no merge absorbed is not a token.
EncodePiece ==
  /\ phase = "pieces"
  /\ \E n \in Matches(sub_input) :
       LET from  == Skipped(sub_input)
           parts == Parts(SubSeq(sub_input, from + 1, from + n))
       IN  IF ToSet(parts) \subseteq DOMAIN encoder_
           THEN /\ ids' = ids \o [k \in DOMAIN parts |-> encoder_[parts[k]]]
                /\ sub_input' = SubSeq(sub_input, from + n + 1, Len(sub_input))
                /\ UNCHANGED phase
           ELSE phase' = "threw" /\ UNCHANGED <<ids, sub_input>>
  /\ UNCHANGED <<fileVars, callVars, input, special, text>>

PushSpecial ==
  /\ phase = "pieces"
  /\ PiecesDone
  /\ special # NoSpecial
  /\ ids' = Append(ids, special_tokens_encoder[special])
  /\ sub_input' = << >>
  /\ special' = NoSpecial
  /\ phase' = "split"
  /\ UNCHANGED <<fileVars, callVars, input, text>>

\* The loop breaks, and encode keeps max_length ids.
Truncate ==
  /\ phase = "pieces"
  /\ PiecesDone
  /\ special = NoSpecial
  /\ ids' = KeepLast(ids)
  /\ sub_input' = << >>
  /\ input' = << >>
  /\ phase' = "encoded"
  /\ UNCHANGED <<fileVars, callVars, special, text>>

Decode ==
  /\ phase = "encoded"
  /\ LET normal_ids == Without(ids, SpecialIdsOfConfig)
     IN  IF \A id \in ToSet(normal_ids) : Known(id) \/ KnownSpecial(id)
         THEN text' = Replaced(Decoded(normal_ids)) /\ phase' = "decoded"
         ELSE phase' = "threw" /\ UNCHANGED text
  /\ UNCHANGED <<fileVars, callVars, loopVars>>

Encode == Split \/ EncodePiece \/ PushSpecial \/ Truncate

TokenizerNext ==
  \/ \E token \in FileTokens, rank \in FileRanks : ReadLine(token, rank)
  \/ BadLine
  \/ EndOfFile
  \/ \E line \in Lines : EncodeHistory(line)
  \/ Encode
  \/ Decode

TokenizerSpec == TokenizerInit /\ [][TokenizerNext]_tokenizerVars

\* Straight-line code once the prompt is there.
FairTokenizerSpec == TokenizerSpec /\ WF_tokenizerVars(Encode)

-----------------------------------------------------------------------------
\* What qwen.tiktoken is and the code relies on: the ranks are 0 .. n-1.
DenseRanks == {encoder_[s] : s \in DOMAIN encoder_} = 0..(Cardinality(DOMAIN encoder_) - 1)

\* What of a text can be encoded at all.
Valid(t) == Without(t, {Invalid})

(* At every moment of encode the ids spell the part of the prompt that is   *)
(* behind them, and the rest is still to come: no text is dropped, repeated *)
(* or reordered where special tokens and pieces meet (tiktoken.h:167-238),  *)
(* however the regular expression cuts.                                     *)
LosesNothing ==
  phase \in {"split", "pieces"} /\ DenseRanks =>
    Decoded(ids) \o Valid(sub_input) \o (IF special = NoSpecial THEN << >> ELSE <<special>>)
      \o (IF phase = "pieces" /\ special = NoSpecial THEN << >> ELSE Valid(input))
    = Valid(prompt)

(* Decoding an untruncated prompt gives what was put in, without the frame, *)
(* the invalid bytes and with readable think tags, if the vocabulary has as *)
(* many tokens as the config's special ids presuppose: encode numbers the   *)
(* specials behind the file (QwenTokenizer.cc:46-51), decode drops those of *)
(* the config (55-57, 110-112).                                             *)
DecodesBack ==
  phase = "decoded" /\ DenseRanks /\ Cardinality(DOMAIN encoder_) + 1 = ImStartId
    /\ Len(ids) < max_length =>
      text = Replaced(Without(Valid(prompt), {ImStart, ImEnd}))

(* However long the line, what encode hands to the model ends with the cue  *)
(* for the assistant, and is a suffix of the prompt.                        *)
Cue == <<ImStart>> \o Assistant
EndsWithCue ==
  phase = "encoded" /\ DenseRanks /\ max_length >= Len(Cue) =>
    /\ Len(ids) <= max_length
    /\ IsSuffix(Decoded(ids), Valid(prompt))
    /\ IsSuffix(Cue, Decoded(ids))

(* encode ends for every text and every way of cutting it, or throws.       *)
EncodeEnds == phase = "split" ~> phase \in {"encoded", "decoded", "threw"}
=============================================================================
