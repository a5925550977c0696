-------------------------- MODULE GenerationProofs --------------------------
(***************************************************************************)
(* Theorems about the chat loop, for every vocabulary, prompt set, cache   *)
(* size, window and limit on the reply.  The inductive invariant is        *)
(* TypeOK /\ TurnAccount; that no row is overwritten and that a turn's     *)
(* share of the context is bounded follow from it.                         *)
(***************************************************************************)
EXTENDS Generation, Foundations, FiniteSetTheorems, SequenceTheorems, TLAPS

IInv == TypeOK /\ TurnAccount

-----------------------------------------------------------------------------
(* The operators of the loop on sequences                                   *)

(* encode returns ids of the vocabulary, and some, if it was given some     *)
(* (QwenTokenizer.cc:77-79).                                                *)
LEMMA TruncateKeepsIds ==
  ASSUME NEW ids \in Seq(Token), ids # << >>
  PROVE  Truncate(ids) \in Seq(Token) /\ Truncate(ids) # << >>
<1>1. Len(ids) \in Nat \ {0} /\ MaxSqlen \in Nat \ {0}
  BY EmptySeq, SizeAssumption
<1>2. CASE Len(ids) > MaxSqlen
  <2>1. \A i \in (Len(ids) - MaxSqlen + 1) .. Len(ids) : ids[i] \in Token
    BY <1>1, <1>2, ElementOfSeq
  <2>2. LastN(ids, MaxSqlen) \in Seq(Token) /\ Len(LastN(ids, MaxSqlen)) = MaxSqlen
    BY <1>1, <1>2, <2>1, SubSeqProperties DEF LastN
  <2>3. LastN(ids, MaxSqlen) # << >>
    BY <1>1, <2>2, EmptySeq
  <2> QED
    BY <1>2, <2>2, <2>3 DEF Truncate
<1>3. CASE ~(Len(ids) > MaxSqlen)
  BY <1>3 DEF Truncate
<1> QED
  BY <1>2, <1>3

(* The window keeps its length and takes ids only (Pipeline.cc:426-427).    *)
LEMMA SlideKeepsWindow ==
  ASSUME NEW window \in [1..NCtx -> Token], NEW t \in Token
  PROVE  Slide(window, t) \in [1..NCtx -> Token]
<1>1. NCtx \in Nat \ {0}
  BY SizeAssumption
<1>2. window \in Seq(Token) /\ Len(window) = NCtx /\ window # << >>
  BY <1>1, EmptySeq, SeqDef
<1>3. Tail(window) \in Seq(Token) /\ Len(Tail(window)) = NCtx - 1
  BY <1>2, HeadTailProperties
<1>4. Append(Tail(window), t) \in Seq(Token) /\ Len(Append(Tail(window), t)) = NCtx
  BY <1>1, <1>3
<1> QED
  BY <1>4, LenProperties DEF Slide

(* A forward that starts where the context ends extends it and leaves every *)
(* row it finds as it was.                                                  *)
LEMMA WriteRowsExtends ==
  ASSUME NEW r \in Seq(Token), NEW ids \in Seq(Token)
  PROVE  /\ WriteRows(r, Len(r), ids) \in Seq(Token)
         /\ Len(WriteRows(r, Len(r), ids)) = Len(r) + Len(ids)
         /\ SubSeq(WriteRows(r, Len(r), ids), 1, Len(r)) = r
<1>1. Len(r) \in Nat /\ Len(ids) \in Nat
  OBVIOUS
<1>2. SubSeq(r, 1, Len(r)) = r
  BY SubSeqFull
<1>3. SubSeq(r, Len(r) + Len(ids) + 1, Len(r)) = << >>
  BY <1>1, SubSeqEmpty
<1>4. r \o ids \in Seq(Token) /\ Len(r \o ids) = Len(r) + Len(ids)
  BY ConcatProperties
<1>5. WriteRows(r, Len(r), ids) = r \o ids
  BY <1>2, <1>3, <1>4, ConcatEmptySeq DEF WriteRows
<1>6. SubSeq(r \o ids, 1, Len(r)) = r
  <2>1. CASE r = << >>
    BY <2>1, <1>1, SubSeqEmpty
  <2>2. CASE r # << >>
    <3>1. 1 \in 1..Len(r) /\ Len(r) \in 1..Len(r)
      BY <2>2, EmptySeq, <1>1
    <3> QED
      BY <3>1, <1>2, SubSeqOfConcat1
  <2> QED
    BY <2>1, <2>2
<1> QED
  BY <1>4, <1>5, <1>6

-----------------------------------------------------------------------------
(* The inductive invariant                                                  *)

LEMMA InitIInv == Init => IInv
<1> SUFFICES ASSUME Init PROVE IInv
  OBVIOUS
<1>1. << >> \in Seq(Token) /\ Len(<< >>) = 0
  BY EmptySeq
<1>2. TypeOK
  BY <1>1, SizeAssumption, TokenAssumption DEF Init, TypeOK, Tolerance
<1>3. TurnAccount
  <2>1. SpentEarlier = 0 /\ SpentOnInput = 0
    BY <1>1 DEF Init, SpentEarlier, SpentOnInput, Tolerance
  <2> QED
    BY <1>1, <2>1, SizeAssumption DEF Init, TurnAccount, Tolerance
<1> QED
  BY <1>2, <1>3 DEF IInv

LEMMA ReadLineKeeps == IInv /\ ReadLine => IInv'
<1> SUFFICES ASSUME IInv, ReadLine PROVE IInv'
  OBVIOUS
<1> USE DEF IInv
<1>1. PICK p \in Prompts : input_ids' = Truncate(p)
  BY DEF ReadLine
<1>2. p \in Seq(Token) /\ p # << >>
  BY PromptAssumption
<1>3. input_ids' \in Seq(Token) /\ input_ids' # << >> /\ Len(input_ids') \in Nat
  BY <1>1, <1>2, TruncateKeepsIds, LenProperties
<1>4. << >> \in Seq(Token) /\ Len(<< >>) = 0
  BY EmptySeq
<1>5. TypeOK'
  BY <1>3, <1>4, SizeAssumption, TokenAssumption DEF ReadLine, TypeOK, Tolerance, modelVars
<1>6. SpentEarlier' = 0 /\ SpentOnInput' = 0
  BY <1>3, <1>4 DEF ReadLine, SpentEarlier, SpentOnInput, Tolerance
<1>7. TurnAccount'
  BY <1>3, <1>4, <1>6, SizeAssumption, SMTT(30)
  DEF ReadLine, TypeOK, TurnAccount, Tolerance, modelVars
<1> QED
  BY <1>5, <1>7

(* Both halves of the forward's effect: the rows and the counter.           *)
LEMMA ForwardKeeps == IInv /\ Forward => IInv'
<1> SUFFICES ASSUME IInv, Forward PROVE IInv'
  OBVIOUS
<1> USE DEF IInv
<1>1. rows \in Seq(Token) /\ input_ids \in Seq(Token) /\ past_sqlen = Len(rows)
  BY DEF TypeOK, TurnAccount
<1>2. rows' \in Seq(Token) /\ Len(rows') = past_sqlen + Len(input_ids) /\ Len(input_ids) \in Nat
  BY <1>1, WriteRowsExtends, LenProperties DEF Forward
<1>3. TypeOK'
  BY <1>2 DEF Forward, TypeOK, loopVars, turnVars, drawVars
<1>4. SpentEarlier' = SpentEarlier
  BY DEF Forward, loopVars, turnVars, SpentEarlier
<1>5. SpentOnInput' = SpentOnInput + Len(input_ids)
  <2>1. stop_generation_tolerance \in 0..2
    BY DEF TypeOK
  <2> QED
    BY <1>2, <2>1 DEF Forward, loopVars, SpentOnInput
<1>6. SpentOnInput \in Int /\ SpentEarlier \in Int /\ pads * Len(prompt) \in Int
  <2>1. Len(prompt) \in Nat /\ Len(generate_ids) \in Nat /\ pads \in Nat
    BY LenProperties DEF TypeOK
  <2>2. stop_generation_tolerance \in 0..2
    BY DEF TypeOK
  <2> QED
    BY <1>2, <2>1, <2>2 DEF SpentOnInput, SpentEarlier
<1>7. (pads * Len(prompt))' = pads * Len(prompt)
  BY DEF Forward, turnVars, drawVars
<1>8. TurnAccount'
  <2>1. past_sqlen' = Len(rows') /\ base' <= past_sqlen'
    BY <1>2 DEF Forward, TypeOK, TurnAccount, turnVars
  <2>2. /\ turn' > 0 => prompt' # << >>
        /\ turn' = 0 => pc' = "user" /\ generate_ids' = << >>
        /\ Len(input_ids') = IF generate_ids' = << >> THEN Len(prompt') ELSE 1
        /\ pc' # "aborted" => n_remain' + Len(generate_ids') = NPredict
        /\ pc' = "sample" => n_remain' # 0 /\ stop_generation_tolerance' # 0
    BY DEF Forward, TurnAccount, Continues, loopVars, turnVars
  <2>3. ASSUME NPredict > 0
        PROVE  /\ Len(generate_ids') <= NPredict
               /\ Len(generate_ids') = NPredict => stop_generation_tolerance' = 2
               /\ past_sqlen' - base' <= SpentEarlier' + SpentOnInput' + (pads * Len(prompt))'
    <3>1. past_sqlen' - base' = (past_sqlen - base) + Len(input_ids)
      BY <1>2 DEF Forward, TypeOK, turnVars
    <3>2. past_sqlen - base <= SpentEarlier + SpentOnInput + pads * Len(prompt)
      BY <2>3 DEF TurnAccount
    <3>3. past_sqlen - base \in Int
      BY DEF TypeOK
    <3>4. past_sqlen' - base' <= SpentEarlier' + SpentOnInput' + (pads * Len(prompt))'
      BY <3>1, <3>2, <3>3, <1>2, <1>4, <1>5, <1>6, <1>7
    <3> QED
      BY <2>3, <3>4 DEF Forward, TurnAccount, loopVars
  <2> QED
    BY <2>1, <2>2, <2>3 DEF TurnAccount
<1> QED
  BY <1>3, <1>8
(* A step that leaves the loop's, the model's and the turn's variables, and *)
(* does not go to sampling from elsewhere, keeps the invariant.             *)
LEMMA QuietStepKeeps ==
  ASSUME IInv, UNCHANGED <<loopVars, modelVars, turnVars, drawVars>>,
         turn > 0, pc # "sample", pc' \in {"user", "loop", "aborted"},
         pc' # "aborted" => pc # "aborted"
  PROVE  IInv'
<1>1. TypeOK'
  BY DEF IInv, TypeOK, loopVars, modelVars, turnVars, drawVars
<1>2. SpentEarlier' = SpentEarlier /\ SpentOnInput' = SpentOnInput
  BY DEF SpentEarlier, SpentOnInput, loopVars, turnVars
<1>3. TurnAccount'
  BY <1>2 DEF IInv, TypeOK, TurnAccount, loopVars, modelVars, turnVars, drawVars
<1> QED
  BY <1>1, <1>3 DEF IInv

(* Eos takes a point of tolerance and leaves the rows its forward wrote.    *)
LEMMA DrawEosKeeps == IInv /\ DrawEos => IInv'
<1> SUFFICES ASSUME IInv, DrawEos PROVE IInv'
  OBVIOUS
<1> USE DEF IInv
<1>1. stop_generation_tolerance \in 1..2 /\ pc = "sample"
  BY DEF DrawEos, TypeOK, TurnAccount
<1>2. Append(drawn, Eos) \in Seq(Token)
  BY TokenAssumption DEF TypeOK
<1>3. TypeOK'
  BY <1>1, <1>2 DEF DrawEos, TypeOK, modelVars, turnVars
<1>4. SpentEarlier' = SpentEarlier /\ SpentOnInput' = SpentOnInput
  BY <1>1 DEF DrawEos, SpentEarlier, SpentOnInput, turnVars
<1>5. NPredict > 0 => Len(generate_ids) < NPredict
  <2>1. n_remain # 0 /\ n_remain + Len(generate_ids) = NPredict /\ n_remain \in Int
    BY <1>1 DEF TypeOK, TurnAccount
  <2>2. NPredict > 0 => Len(generate_ids) <= NPredict
    BY DEF TurnAccount
  <2> QED
    BY <2>1, <2>2, SizeAssumption, LenProperties DEF TypeOK
<1>6. TurnAccount'
  BY <1>1, <1>4, <1>5, LenProperties DEF DrawEos, TypeOK, TurnAccount, modelVars, turnVars
<1> QED
  BY <1>3, <1>6

(* A Pad changes nothing but the bill: the rows of one more input, which is *)
(* no longer than the prompt.                                               *)
LEMMA DrawPadKeeps == IInv /\ DrawPad => IInv'
<1> SUFFICES ASSUME IInv, DrawPad PROVE IInv'
  OBVIOUS
<1> USE DEF IInv
<1>1. stop_generation_tolerance \in 1..2 /\ pc = "sample"
  BY DEF DrawPad, TypeOK, TurnAccount
<1>2. Append(drawn, Pad) \in Seq(Token)
  BY TokenAssumption DEF TypeOK
<1>3. TypeOK'
  BY <1>2 DEF DrawPad, TypeOK, loopVars, modelVars, turnVars
<1>4. Len(prompt) \in Nat \ {0} /\ Len(input_ids) \in Nat /\ pads \in Nat
  <2>1. turn > 0
    BY <1>1 DEF TypeOK, TurnAccount
  <2> QED
    BY <2>1, EmptySeq, LenProperties DEF TypeOK, TurnAccount
<1>5. Len(input_ids) <= Len(prompt)
  BY <1>4 DEF TurnAccount
<1>6. SpentEarlier' = SpentEarlier
  BY DEF DrawPad, SpentEarlier, loopVars, turnVars
<1>7. SpentOnInput' = SpentOnInput - Len(input_ids)
  BY <1>1, <1>4 DEF DrawPad, SpentOnInput, loopVars
<1>8. (pads * Len(prompt))' = pads * Len(prompt) + Len(prompt)
  BY <1>4 DEF DrawPad, turnVars
<1>9. SpentOnInput \in Int /\ SpentEarlier \in Int /\ pads * Len(prompt) \in Int
  BY <1>1, <1>4, LenProperties DEF SpentOnInput, SpentEarlier, TypeOK
<1>10. TurnAccount'
  <2>1. ASSUME NPredict > 0
        PROVE  past_sqlen' - base' <= SpentEarlier' + SpentOnInput' + (pads * Len(prompt))'
    <3>1. past_sqlen - base <= SpentEarlier + SpentOnInput + pads * Len(prompt)
      BY <2>1 DEF TurnAccount
    <3>2. past_sqlen' - base' = past_sqlen - base /\ past_sqlen - base \in Int
      BY DEF DrawPad, TypeOK, modelVars, turnVars
    <3> QED
      BY <3>1, <3>2, <1>4, <1>5, <1>6, <1>7, <1>8, <1>9
  <2> QED
    BY <2>1, <1>1 DEF DrawPad, TurnAccount, loopVars, modelVars, turnVars
<1> QED
  BY <1>3, <1>10

(* An accepted token settles the bill of the input it came from.            *)
LEMMA DrawTokenKeeps ==
  ASSUME IInv, NEW t \in Token, DrawToken(t)
  PROVE  IInv'
<1> USE DEF IInv
<1>1. stop_generation_tolerance \in 1..2 /\ pc = "sample" /\ n_remain # 0
  BY DEF DrawToken, TypeOK, TurnAccount
<1>2. /\ Append(drawn, t) \in Seq(Token) /\ <<t>> \in Seq(Token) /\ Len(<<t>>) = 1
      /\ Append(generate_ids, t) \in Seq(Token)
      /\ Append(generate_ids, t) # << >>
      /\ Len(Append(generate_ids, t)) = Len(generate_ids) + 1
  <2>1. drawn \in Seq(Token) /\ generate_ids \in Seq(Token)
    BY DEF TypeOK
  <2>2. /\ Append(drawn, t) \in Seq(Token) /\ Append(generate_ids, t) \in Seq(Token)
        /\ Len(Append(generate_ids, t)) = Len(generate_ids) + 1
    BY <2>1
  <2>3. Append(generate_ids, t) # << >>
    BY <2>1, <2>2, LenProperties, EmptySeq
  <2>4. <<t>> \in Seq(Token) /\ Len(<<t>>) = 1
    OBVIOUS
  <2> QED
    BY <2>2, <2>3, <2>4
<1>3. n_remain' \in Int /\ pc' \in {"loop", "aborted"}
  BY DEF DrawToken, TypeOK
<1>4. TypeOK'
  <2>1. last_n_tokens' \in [1..NCtx -> Token]
    BY SlideKeepsWindow DEF DrawToken, TypeOK
  <2>2. past_sqlen' \in Nat /\ rows' \in Seq(Token) /\ turn' \in Nat /\ prompt' \in Seq(Token)
        /\ base' \in Nat /\ pads' \in Nat
    BY DEF DrawToken, TypeOK, modelVars, turnVars
  <2>3. input_ids' \in Seq(Token) /\ generate_ids' \in Seq(Token) /\ drawn' \in Seq(Token)
    BY <1>2 DEF DrawToken
  <2>4. stop_generation_tolerance' \in 0..2
    BY DEF DrawToken, Tolerance
  <2> QED
    BY <1>3, <2>1, <2>2, <2>3, <2>4 DEF TypeOK
<1>5. n_remain + Len(generate_ids) = NPredict /\ Len(generate_ids) \in Nat /\ n_remain \in Int
  BY <1>1, LenProperties DEF TypeOK, TurnAccount
<1>6. pc' # "aborted" => n_remain' + Len(generate_ids') = NPredict
  BY <1>2, <1>5, SizeAssumption DEF DrawToken
<1>7. Len(prompt) \in Nat \ {0} /\ Len(input_ids) \in Nat /\ turn > 0
  <2>1. turn > 0
    BY <1>1 DEF TypeOK, TurnAccount
  <2> QED
    BY <2>1, EmptySeq, LenProperties DEF TypeOK, TurnAccount
<1>8. SpentOnInput' = 0
  BY <1>2, <1>3 DEF DrawToken, SpentOnInput, Tolerance
<1>9. SpentEarlier + SpentOnInput <= SpentEarlier'
  <2>1. SpentOnInput <= 2 * Len(input_ids) /\ SpentOnInput \in Int
    BY <1>1, <1>7 DEF SpentOnInput
  <2>2. SpentEarlier' = 2 * (Len(prompt) + Len(generate_ids))
    BY <1>2, <1>5, <1>7 DEF DrawToken, SpentEarlier, turnVars
  <2>3. CASE generate_ids = << >>
    <3>1. SpentEarlier = 0 /\ Len(input_ids) = Len(prompt)
      BY <2>3 DEF SpentEarlier, TurnAccount
    <3> QED
      BY <3>1, <2>1, <2>2, <1>5, <1>7
  <2>4. CASE generate_ids # << >>
    <3>1. SpentEarlier = 2 * (Len(prompt) + Len(generate_ids) - 1) /\ Len(input_ids) = 1
      BY <2>4 DEF SpentEarlier, TurnAccount
    <3> QED
      BY <3>1, <2>1, <2>2, <1>5, <1>7
  <2> QED
    BY <2>3, <2>4
<1>10. /\ SpentEarlier \in Int /\ SpentOnInput \in Int /\ SpentEarlier' \in Int
       /\ pads * Len(prompt) \in Int
  BY <1>1, <1>2, <1>5, <1>7, LenProperties
  DEF SpentEarlier, SpentOnInput, DrawToken, turnVars, TypeOK
<1>11. TurnAccount'
  <2>1. ASSUME NPredict > 0
        PROVE  /\ Len(generate_ids') <= NPredict
               /\ Len(generate_ids') = NPredict => stop_generation_tolerance' = 2
               /\ past_sqlen' - base' <= SpentEarlier' + SpentOnInput' + (pads * Len(prompt))'
    <3>1. past_sqlen - base <= SpentEarlier + SpentOnInput + pads * Len(prompt)
      BY <2>1 DEF TurnAccount
    <3>2. past_sqlen' - base' = past_sqlen - base /\ past_sqlen - base \in Int
      BY DEF DrawToken, TypeOK, modelVars, turnVars
    <3>3. (pads * Len(prompt))' = pads * Len(prompt)
      BY DEF DrawToken, turnVars
    <3>4. past_sqlen' - base' <= SpentEarlier' + SpentOnInput' + (pads * Len(prompt))'
      BY <3>1, <3>2, <3>3, <1>8, <1>9, <1>10
    <3>5. Len(generate_ids) <= NPredict /\ Len(generate_ids) # NPredict
      BY <2>1, <1>1, <1>5, SizeAssumption DEF TurnAccount
    <3>6. Len(generate_ids') <= NPredict
      BY <3>5, <1>2, <1>5, SizeAssumption DEF DrawToken
    <3> QED
      BY <3>4, <3>6 DEF DrawToken, Tolerance
  <2>2. past_sqlen' = Len(rows') /\ base' <= past_sqlen' /\ turn' > 0 /\ prompt' # << >>
    BY <1>7 DEF DrawToken, TurnAccount, TypeOK, modelVars, turnVars
  <2>3. Len(input_ids') = IF generate_ids' = << >> THEN Len(prompt') ELSE 1
    BY <1>2 DEF DrawToken
  <2>4. turn' # 0 /\ pc' # "sample"
    BY <1>3, <1>7 DEF DrawToken, TypeOK, turnVars
  <2> QED
    BY <2>1, <2>2, <2>3, <2>4, <1>6 DEF TurnAccount
<1> QED
  BY <1>4, <1>11

LEMMA StutterKeeps == IInv /\ UNCHANGED vars => IInv'
BY DEF IInv, TypeOK, TurnAccount, SpentEarlier, SpentOnInput, vars, loopVars, modelVars, turnVars, drawVars

LEMMA NextKeepsIInv == IInv /\ [Next]_vars => IInv'
<1> SUFFICES ASSUME IInv, [Next]_vars PROVE IInv'
  OBVIOUS
<1>1. CASE ReadLine
  BY <1>1, ReadLineKeeps
<1>2. CASE Forward
  BY <1>2, ForwardKeeps
<1>3. CASE ForwardAsserts
  <2>1. turn > 0
    BY <1>3 DEF ForwardAsserts, IInv, TypeOK, TurnAccount
  <2> QED
    BY <1>3, <2>1, QuietStepKeeps DEF ForwardAsserts
<1>4. CASE DrawEos
  BY <1>4, DrawEosKeeps
<1>5. CASE DrawPad
  BY <1>5, DrawPadKeeps
<1>6. CASE \E t \in Token \ {Eos, Pad} : DrawToken(t)
  BY <1>6, DrawTokenKeeps
<1>7. CASE Return
  <2>1. turn > 0
    BY <1>7 DEF Return, IInv, TypeOK, TurnAccount
  <2> QED
    BY <1>7, <2>1, QuietStepKeeps DEF Return
<1>8. CASE UNCHANGED vars
  BY <1>8, StutterKeeps
<1> QED
  BY <1>1, <1>2, <1>3, <1>4, <1>5, <1>6, <1>7, <1>8 DEF Next

(* In every reachable state the variables have their types and the rows of  *)
(* the turn are accounted for.                                              *)
THEOREM Invariance == Spec => []IInv
<1>1. Init => IInv
  BY InitIInv
<1>2. IInv /\ [Next]_vars => IInv'
  BY NextKeepsIInv
<1> QED
  BY <1>1, <1>2, PTL DEF Spec

(* The account is settled in every reachable state.                         *)
THEOREM TurnsAreAccounted == Spec => []TurnAccount
<1>1. IInv => TurnAccount
  BY DEF IInv
<1> QED
  BY <1>1, Invariance, PTL

(* Every variable keeps its type: in particular the window keeps its length *)
(* n_ctx and the tolerance never goes below zero.                           *)
THEOREM TypeCorrect == Spec => []TypeOK
<1>1. IInv => TypeOK
  BY DEF IInv
<1> QED
  BY <1>1, Invariance, PTL

-----------------------------------------------------------------------------
(* What follows from it                                                     *)

(* The room that a turn takes, at each of its moments: the account summed   *)
(* up, with the next forward included when one is due.                      *)
LEMMA SpendingBound ==
  ASSUME IInv, NPredict > 0
  PROVE  /\ past_sqlen - base <= TurnRoom
         /\ pc = "loop" /\ Continues => past_sqlen + Len(input_ids) - base <= TurnRoom
<1> USE DEF IInv
<1>1. /\ Len(prompt) \in Nat /\ Len(generate_ids) \in Nat /\ Len(input_ids) \in Nat
      /\ pads \in Nat /\ pads * Len(prompt) \in Nat
      /\ past_sqlen - base \in Int /\ stop_generation_tolerance \in 0..2
      /\ NPredict \in Nat \ {0} /\ n_remain \in Int
  BY SizeAssumption, LenProperties DEF TypeOK
<1>2. past_sqlen - base <= SpentEarlier + SpentOnInput + pads * Len(prompt)
  BY DEF TurnAccount
<1>3. Len(generate_ids) <= NPredict /\ (Len(generate_ids) = NPredict => stop_generation_tolerance = 2)
  BY DEF TurnAccount
<1>4. pc = "sample" \/ (pc = "loop" /\ Continues) =>
        Len(generate_ids) < NPredict /\ stop_generation_tolerance \in 1..2
  <2>1. ASSUME pc = "sample" \/ (pc = "loop" /\ Continues)
        PROVE  n_remain # 0 /\ stop_generation_tolerance # 0 /\ n_remain + Len(generate_ids) = NPredict
    BY <2>1 DEF TurnAccount, Continues
  <2> QED
    BY <2>1, <1>1, <1>3
<1>5. generate_ids = << >> <=> Len(generate_ids) = 0
  BY EmptySeq DEF TypeOK
<1> DEFINE Due == IF pc = "loop" /\ Continues THEN Len(input_ids) ELSE 0
<1>6. Due \in Nat
  BY <1>1
<1>7. /\ SpentEarlier \in Int /\ SpentOnInput \in Int
      /\ Len(generate_ids) = NPredict => SpentOnInput + Due = 0
      /\ SpentOnInput + Due <= 2 * Len(input_ids)
  <2>1. SpentEarlier \in Int
    BY <1>1 DEF SpentEarlier
  <2>2. CASE pc = "sample"
    <3>1. Due = 0 /\ Len(generate_ids) # NPredict
      BY <2>2, <1>4, <1>1
    <3>2. SpentOnInput = Len(input_ids) \/ SpentOnInput = 2 * Len(input_ids)
      BY <2>2, <1>4, <1>1 DEF SpentOnInput
    <3> QED
      BY <2>1, <3>1, <3>2, <1>1
  <2>3. CASE pc # "sample" /\ Due = 0
    <3>1. SpentOnInput \in {0, Len(input_ids), 2 * Len(input_ids)}
      BY <2>3, <1>1 DEF SpentOnInput
    <3>2. Len(generate_ids) = NPredict => SpentOnInput = 0
      BY <2>3, <1>3, <1>1 DEF SpentOnInput
    <3> QED
      BY <2>1, <2>3, <3>1, <3>2, <1>1
  <2>4. CASE pc # "sample" /\ Due # 0
    <3>1. Due = Len(input_ids) /\ pc = "loop" /\ Continues
      BY <2>4
    <3>2. SpentOnInput = 0 \/ SpentOnInput = Len(input_ids)
      <4>1. stop_generation_tolerance = 1 \/ stop_generation_tolerance = 2
        BY <3>1, <1>4
      <4>2. SpentOnInput = (2 - stop_generation_tolerance + 0) * Len(input_ids)
        BY <3>1 DEF SpentOnInput
      <4> QED
        BY <4>1, <4>2, <1>1
    <3>3. Len(generate_ids) # NPredict
      BY <3>1, <1>4, <1>1
    <3> QED
      BY <2>1, <3>1, <3>2, <3>3, <1>1
  <2> QED
    BY <2>2, <2>3, <2>4
<1>8. SpentEarlier + SpentOnInput + Due <= 2 * (Len(prompt) + NPredict - 1)
  <2> HIDE DEF Due
  <2>1. CASE generate_ids = << >>
    <3>1. SpentEarlier = 0 /\ Len(input_ids) = Len(prompt)
      BY <2>1 DEF SpentEarlier, TurnAccount
    <3> QED
      BY <3>1, <1>1, <1>6, <1>7
  <2>2. CASE generate_ids # << >> /\ Len(generate_ids) < NPredict
    <3>1. SpentEarlier = 2 * (Len(prompt) + Len(generate_ids) - 1) /\ Len(input_ids) = 1
      BY <2>2 DEF SpentEarlier, TurnAccount
    <3>2. SpentOnInput + Due <= 2
      BY <3>1, <1>7
    <3>3. SpentEarlier + 2 <= 2 * (Len(prompt) + NPredict - 1)
      BY <3>1, <2>2, <1>1
    <3> QED
      BY <3>2, <3>3, <1>1, <1>6, <1>7
  <2>3. CASE generate_ids # << >> /\ Len(generate_ids) = NPredict
    <3>1. SpentEarlier = 2 * (Len(prompt) + Len(generate_ids) - 1)
      BY <2>3 DEF SpentEarlier
    <3> QED
      BY <3>1, <2>3, <1>1, <1>6, <1>7
  <2> QED
    BY <2>1, <2>2, <2>3, <1>1, <1>3
<1>9. past_sqlen - base + Due <= 2 * (Len(prompt) + NPredict - 1) + pads * Len(prompt)
  <2> HIDE DEF Due
  <2> QED
    BY <1>1, <1>2, <1>6, <1>7, <1>8
<1>10. past_sqlen - base <= TurnRoom /\ past_sqlen - base + Due <= TurnRoom
  <2> HIDE DEF Due
  <2> QED
    BY <1>1, <1>6, <1>9 DEF TurnRoom
<1>11. past_sqlen + Len(input_ids) - base = past_sqlen - base + Len(input_ids)
  BY <1>1 DEF TypeOK
<1> QED
  BY <1>10, <1>11

(* A turn takes no more rows than the bound, whatever is drawn.             *)
THEOREM ContextBounded == Spec => []TurnContextBound
<1>1. IInv => TurnContextBound
  BY SpendingBound DEF TurnContextBound
<1> QED
  BY <1>1, Invariance, PTL

(* A turn that began with the bound's room left never lets a forward reach  *)
(* past the tables of RotaryPosEmb.                                         *)
THEOREM RoomIsEnough == Spec => []RoomSuffices
<1>1. ASSUME IInv PROVE RoomSuffices
  <2> SUFFICES ASSUME pc = "loop", Continues, NPredict > 0, base + TurnRoom < MaxSqlen
               PROVE  RopeInRange
    BY DEF RoomSuffices
  <2>1. past_sqlen + Len(input_ids) - base <= TurnRoom
    BY <1>1, SpendingBound
  <2>2. /\ past_sqlen \in Nat /\ base \in Nat /\ Len(input_ids) \in Nat
        /\ MaxSqlen \in Nat /\ TurnRoom \in Int
    BY <1>1, SizeAssumption, LenProperties DEF IInv, TypeOK, TurnRoom
  <2> QED
    BY <2>1, <2>2 DEF RopeInRange
<1> QED
  BY <1>1, Invariance, PTL

(* The loop and the context it builds implement the abstract language       *)
(* model: every forward adds its input_ids, one at least, behind the rows   *)
(* it finds (QwenAttention.cc:104-121), and no other step touches a row.    *)
THEOREM ImplementsModel == Spec => ModelSpec
<1>1. Init => Model!Init
  BY DEF Init, Model!Init
<1>2. IInv /\ [Next]_vars => [Model!Feed]_<<rows, rows>>
  <2> SUFFICES ASSUME IInv, [Next]_vars
               PROVE  Model!Feed \/ rows' = rows
    OBVIOUS
  <2>1. CASE Forward
    <3>1. rows \in Seq(Token) /\ input_ids \in Seq(Token) /\ past_sqlen = Len(rows)
      BY DEF IInv, TypeOK, TurnAccount
    <3>2. prompt \in Seq(Token) /\ prompt # << >>
      BY <2>1 DEF IInv, TypeOK, TurnAccount, Forward
    <3>3. Len(input_ids) = Len(prompt) \/ Len(input_ids) = 1
      BY DEF IInv, TurnAccount
    <3>4. Len(prompt) \in Nat /\ Len(prompt) # 0
      BY <3>2, EmptySeq, LenProperties
    <3>5. Len(rows) \in Nat /\ Len(input_ids) > 0
      <4>1. Len(rows) \in Nat
        BY <3>1, LenProperties
      <4>2. Len(input_ids) > 0
        BY <3>3, <3>4
      <4> QED
        BY <4>1, <4>2
    <3>6. /\ rows' \in Seq(Token)
          /\ Len(rows') = Len(rows) + Len(input_ids)
          /\ SubSeq(rows', 1, Len(rows)) = rows
      BY <2>1, <3>1, WriteRowsExtends DEF Forward
    <3> QED
      BY <3>5, <3>6 DEF Model!Feed
  <2>2. CASE ~Forward
    BY <2>2 DEF Next, vars, modelVars, ReadLine, ForwardAsserts, DrawEos, DrawPad,
                DrawToken, Return
  <2> QED
    BY <2>1, <2>2
<1> QED
  BY <1>1, <1>2, Invariance, PTL DEF Spec, ModelSpec, Model!Spec

-----------------------------------------------------------------------------
(* The reply and the streak of Eos that the draws of a turn make            *)

ReplyStep(s) ==
  [n \in 1..Len(s) |-> [r \in Seq(Token) |-> IF Accepted(s[n]) THEN Append(r, s[n]) ELSE r]]

(* Reply is a recursion over the draws.                                     *)
LEMMA ReplyUnfolds ==
  ASSUME NEW s \in Seq(Token)
  PROVE  \E f \in [0..Len(s) -> Seq(Token)] :
           Recursion(f, << >>, ReplyStep(s), Len(s)) /\ Reply(s) = f[Len(s)]
<1> DEFINE L == Len(s)
<1> DEFINE Kept(f) == [n \in 0..L |-> IF n = 0 THEN << >>
                         ELSE IF Accepted(s[n]) THEN Append(f[n - 1], s[n]) ELSE f[n - 1]]
<1> DEFINE kept == CHOOSE f : f = Kept(f)
<1>1. L \in Nat /\ << >> \in Seq(Token)
  OBVIOUS
<1>2. \A n \in 1..L : s[n] \in Token
  BY ElementOfSeq
<1>3. ReplyStep(s) \in [1..L -> [Seq(Token) -> Seq(Token)]]
  BY <1>2 DEF ReplyStep
<1>4. ASSUME NEW n \in 1..L, NEW r \in Seq(Token)
      PROVE  ReplyStep(s)[n][r] = IF Accepted(s[n]) THEN Append(r, s[n]) ELSE r
  BY DEF ReplyStep
<1>5. PICK f : Recursion(f, << >>, ReplyStep(s), L)
  <2> HIDE DEF L
  <2> QED
    BY <1>1, RecursionExists
<1>6. f \in [0..L -> Seq(Token)]
  <2> HIDE DEF L
  <2> QED
    BY <1>1, <1>3, <1>5, RecursionIsTyped
<1>7. f = Kept(f)
  <2>1. ASSUME NEW n \in 0..L, n # 0
        PROVE  ReplyStep(s)[n][f[n - 1]] = IF Accepted(s[n]) THEN Append(f[n - 1], s[n]) ELSE f[n - 1]
    <3>1. n \in 1..L /\ f[n - 1] \in Seq(Token)
      BY <1>1, <1>6, <2>1
    <3> QED
      BY <1>4, <3>1
  <2> HIDE DEF L
  <2> QED
    BY <1>5, <2>1 DEF Recursion
<1>8. kept = Kept(kept)
  <2> HIDE DEF Kept
  <2> QED
    BY <1>7
<1>9. Reply(s) = kept[L]
  BY DEF Reply
<1> HIDE DEF kept
<1>10. kept \in [0..L -> Seq(Token)]
  <2> DEFINE S == {k \in Nat : k <= L => kept[k] \in Seq(Token)}
  <2> HIDE DEF L
  <2>1. ASSUME NEW n \in 0..L
        PROVE  kept[n] = IF n = 0 THEN << >>
                         ELSE IF Accepted(s[n]) THEN Append(kept[n - 1], s[n]) ELSE kept[n - 1]
    BY <1>8, Zenon
  <2>2. 0 \in S
    <3>1. 0 \in 0..L
      BY <1>1
    <3>2. kept[0] = << >>
      BY <2>1, <3>1, Zenon
    <3> QED
      BY <1>1, <3>2
  <2>3. ASSUME NEW k \in Nat, k \in S PROVE k + 1 \in S
    <3> SUFFICES ASSUME k + 1 <= L PROVE kept[k + 1] \in Seq(Token)
      OBVIOUS
    <3>1. k + 1 \in 0..L /\ k + 1 # 0 /\ k + 1 - 1 = k /\ k + 1 \in 1..L /\ kept[k] \in Seq(Token)
      BY <1>1, <2>3
    <3>2. kept[k + 1] = IF Accepted(s[k + 1]) THEN Append(kept[k], s[k + 1]) ELSE kept[k]
      BY <2>1, <3>1
    <3> QED
      BY <1>2, <3>1, <3>2
  <2>4. Nat \subseteq S
    <3> HIDE DEF S
    <3> QED
      BY <2>2, <2>3, SetInduction
  <2>5. \A k \in 0..L : kept[k] \in Seq(Token)
    BY <2>4
  <2>6. kept = [n \in 0..L |-> kept[n]]
    BY <1>8
  <2> QED
    BY <2>5, <2>6
<1>11. Recursion(kept, << >>, ReplyStep(s), L)
  <2>1. ASSUME NEW n \in 0..L, n # 0
        PROVE  ReplyStep(s)[n][kept[n - 1]]
                 = IF Accepted(s[n]) THEN Append(kept[n - 1], s[n]) ELSE kept[n - 1]
    <3>1. n \in 1..L /\ kept[n - 1] \in Seq(Token)
      BY <1>1, <1>10, <2>1
    <3> QED
      BY <1>4, <3>1
  <2> HIDE DEF L
  <2> QED
    BY <1>8, <2>1 DEF Recursion
<1> QED
  BY <1>9, <1>10, <1>11

(* A draw adds an accepted token to the reply, and nothing else.            *)
LEMMA ReplyGrows ==
  ASSUME NEW s \in Seq(Token), NEW t \in Token
  PROVE  /\ Reply(s) \in Seq(Token)
         /\ Reply(Append(s, t)) = IF Accepted(t) THEN Append(Reply(s), t) ELSE Reply(s)
<1> DEFINE u == Append(s, t)
<1> DEFINE L == Len(s)
<1>1. u \in Seq(Token) /\ Len(u) = L + 1 /\ L \in Nat
  OBVIOUS
<1>2. u[L + 1] = t /\ \A n \in 1..L : u[n] = s[n]
  OBVIOUS
<1>3. PICK f \in [0..L -> Seq(Token)] : Recursion(f, << >>, ReplyStep(s), L) /\ Reply(s) = f[L]
  BY ReplyUnfolds
<1>4. PICK g \in [0..(L + 1) -> Seq(Token)] :
        Recursion(g, << >>, ReplyStep(u), L + 1) /\ Reply(u) = g[L + 1]
  BY <1>1, ReplyUnfolds
<1>5. \A n \in 1..L : ReplyStep(s)[n] = ReplyStep(u)[n]
  BY <1>1, <1>2 DEF ReplyStep
<1>m. PICK m \in Nat : m = L + 1
  BY <1>1
<1>r. Recursion(g, << >>, ReplyStep(u), m)
  BY <1>4, <1>m
<1>6. AgreeOn(0..L, f, g)
  <2>1. L <= m /\ L \in Nat
    BY <1>1, <1>m
  <2>2. AgreeOn(1..L, ReplyStep(s), ReplyStep(u))
    BY <1>5 DEF AgreeOn
  <2> HIDE DEF L, u
  <2> QED
    BY <1>3, <1>r, <2>1, <2>2, RecursionAgrees
<1>7. g[L + 1] = ReplyStep(u)[L + 1][g[L]]
  <2> HIDE DEF L, u
  <2>1. m \in 1..m /\ m - 1 = L
    BY <1>1, <1>m
  <2>2. \A k \in 0..m : g[k] = IF k = 0 THEN << >> ELSE ReplyStep(u)[k][g[k - 1]]
    BY <1>r DEF Recursion
  <2>3. m \in 0..m /\ m # 0
    BY <2>1
  <2>4. g[m] = ReplyStep(u)[m][g[m - 1]]
    BY <2>2, <2>3, Zenon
  <2> QED
    BY <1>m, <2>1, <2>4
<1>8. f[L] = g[L] /\ f[L] \in Seq(Token)
  BY <1>1, <1>3, <1>6 DEF AgreeOn
<1>9. ReplyStep(u)[L + 1][g[L]] = IF Accepted(t) THEN Append(g[L], t) ELSE g[L]
  <2>1. L + 1 \in 1..Len(u)
    BY <1>1
  <2> HIDE DEF L, u
  <2> QED
    BY <1>2, <1>8, <2>1 DEF ReplyStep
<1> HIDE DEF L, u
<1>10. Reply(u) = IF Accepted(t) THEN Append(Reply(s), t) ELSE Reply(s)
  BY <1>3, <1>4, <1>7, <1>8, <1>9
<1> QED
  BY <1>3, <1>8, <1>10 DEF u

LEMMA NoReply == Reply(<< >>) = << >>
<1>1. << >> \in Seq(Token) /\ Len(<< >>) = 0
  OBVIOUS
<1>2. PICK f : Recursion(f, << >>, ReplyStep(<< >>), 0) /\ Reply(<< >>) = f[0]
  BY <1>1, ReplyUnfolds
<1>3. 0 \in Nat
  OBVIOUS
<1>4. f[0] = << >>
  BY <1>2, <1>3, RecursionStarts
<1> QED
  BY <1>2, <1>4

(* Eos lengthens the streak, Pad leaves it, an accepted token ends it.      *)
StreakOf(s) == {i \in DOMAIN s : s[i] = Eos /\ \A j \in i..Len(s) : ~Accepted(s[j])}

LEMMA StreakGrows ==
  ASSUME NEW s \in Seq(Token), NEW t \in Token
  PROVE  /\ EosStreak(s) \in Nat
         /\ EosStreak(Append(s, t)) =
              IF Accepted(t) THEN 0 ELSE IF t = Eos THEN EosStreak(s) + 1 ELSE EosStreak(s)
<1> DEFINE u == Append(s, t)
<1> DEFINE L == Len(s)
<1>1. u \in Seq(Token) /\ Len(u) = L + 1 /\ L \in Nat /\ DOMAIN s = 1..L /\ DOMAIN u = 1..(L + 1)
  OBVIOUS
<1>2. u[L + 1] = t /\ \A n \in 1..L : u[n] = s[n]
  OBVIOUS
<1>3. IsFiniteSet(StreakOf(s)) /\ Cardinality(StreakOf(s)) \in Nat
  <2>1. IsFiniteSet(1..L)
    BY <1>1, FS_Interval
  <2>2. StreakOf(s) \subseteq 1..L
    BY <1>1 DEF StreakOf
  <2> QED
    BY <2>1, <2>2, FS_Subset, FS_CardinalityType
<1>4. EosStreak(s) = Cardinality(StreakOf(s)) /\ EosStreak(u) = Cardinality(StreakOf(u))
  BY DEF EosStreak, StreakOf
<1> HIDE DEF L, u
<1>5. CASE Accepted(t)
  <2>1. StreakOf(u) = {}
    <3> SUFFICES ASSUME NEW i \in StreakOf(u) PROVE FALSE
      OBVIOUS
    <3>1. i \in 1..(L + 1) /\ \A j \in i..(L + 1) : ~Accepted(u[j])
      BY <1>1 DEF StreakOf
    <3>2. L + 1 \in i..(L + 1)
      BY <1>1, <3>1
    <3> QED
      BY <1>2, <1>5, <3>1, <3>2
  <2> QED
    BY <1>3, <1>4, <1>5, <2>1, FS_EmptySet DEF u
<1>6. CASE ~Accepted(t)
  <2>1. ASSUME NEW i \in 1..L
        PROVE  i \in StreakOf(u) <=> i \in StreakOf(s)
    <3>1. \A j \in i..(L + 1) : j \in i..L \/ j = L + 1
      BY <1>1
    <3>2. \A j \in i..L : j \in i..(L + 1) /\ j \in 1..L
      BY <1>1
    <3>3. (\A j \in i..(L + 1) : ~Accepted(u[j])) <=> (\A j \in i..L : ~Accepted(s[j]))
      BY <1>2, <1>6, <3>1, <3>2
    <3>4. i \in 1..(L + 1) /\ u[i] = s[i]
      BY <1>1, <1>2
    <3>5. i \in StreakOf(u) <=> u[i] = Eos /\ \A j \in i..(L + 1) : ~Accepted(u[j])
      BY <1>1, <3>4 DEF StreakOf
    <3>6. i \in StreakOf(s) <=> s[i] = Eos /\ \A j \in i..L : ~Accepted(s[j])
      BY <1>1 DEF StreakOf, L
    <3> QED
      BY <3>3, <3>4, <3>5, <3>6
  <2>2. L + 1 \in StreakOf(u) <=> t = Eos
    <3>1. L + 1 \in 1..(L + 1) /\ \A j \in (L + 1)..(L + 1) : j = L + 1
      BY <1>1
    <3> QED
      BY <1>1, <1>2, <1>6, <3>1 DEF StreakOf
  <2>3. StreakOf(u) \subseteq 1..(L + 1) /\ StreakOf(s) \subseteq 1..L
    BY <1>1 DEF StreakOf
  <2>4. \A i \in 1..(L + 1) : i \in 1..L \/ i = L + 1
    BY <1>1
  <2>5. StreakOf(u) = IF t = Eos THEN StreakOf(s) \cup {L + 1} ELSE StreakOf(s)
    <3>1. \A i \in StreakOf(u) : i \in StreakOf(s) \/ (t = Eos /\ i = L + 1)
      BY <2>1, <2>2, <2>3, <2>4
    <3>2. \A i \in StreakOf(s) : i \in StreakOf(u)
      BY <2>1, <2>3
    <3> QED
      BY <2>2, <3>1, <3>2
  <2>6. L + 1 \notin StreakOf(s)
    BY <1>1, <2>3
  <2>7. Cardinality(StreakOf(s) \cup {L + 1}) = Cardinality(StreakOf(s)) + 1
    BY <1>3, <2>6, FS_AddElement
  <2> QED
    BY <1>3, <1>4, <1>6, <2>5, <2>7 DEF u
<1> QED
  BY <1>5, <1>6

LEMMA NoStreak == EosStreak(<< >>) = 0
<1>1. {i \in DOMAIN << >> : << >>[i] = Eos /\ \A j \in i..Len(<< >>) : ~Accepted(<< >>[j])} = {}
  OBVIOUS
<1> QED
  BY <1>1, FS_EmptySet DEF EosStreak

-----------------------------------------------------------------------------
(* The window and the context as sequences                                  *)

LEMMA LastNElements ==
  ASSUME NEW w \in Seq(Token), NEW n \in Nat, n <= Len(w)
  PROVE  /\ LastN(w, n) \in Seq(Token)
         /\ Len(LastN(w, n)) = n
         /\ \A i \in 1..n : LastN(w, n)[i] = w[Len(w) - n + i]
<1>1. Len(w) \in Nat
  OBVIOUS
<1>2. \A i \in (Len(w) - n + 1)..Len(w) : w[i] \in Token
  BY <1>1, ElementOfSeq
<1> DEFINE m == Len(w) - n + 1
<1>3. m \in Int /\ Len(w) - m + 1 = n /\ (m <= Len(w) <=> n > 0)
  BY <1>1
<1>4. /\ SubSeq(w, m, Len(w)) \in Seq(Token)
      /\ Len(SubSeq(w, m, Len(w))) = IF m <= Len(w) THEN Len(w) - m + 1 ELSE 0
      /\ \A i \in 1..(Len(w) - m + 1) : SubSeq(w, m, Len(w))[i] = w[m + i - 1]
  BY <1>1, <1>2, <1>3, SubSeqProperties
<1>5. \A i \in 1..n : m + i - 1 = Len(w) - n + i
  BY <1>1
<1>6. LastN(w, n) = SubSeq(w, m, Len(w))
  BY DEF LastN
<1> HIDE DEF m
<1> QED
  BY <1>3, <1>4, <1>5, <1>6

(* Sliding the window over a sequence is looking at its end.                *)
LEMMA SlideFollows ==
  ASSUME NEW w \in Seq(Token), NCtx <= Len(w), NEW t \in Token
  PROVE  Slide(LastN(w, NCtx), t) = LastN(Append(w, t), NCtx)
<1>1. NCtx \in Nat \ {0} /\ Len(w) \in Nat
  BY SizeAssumption
<1> DEFINE v == LastN(w, NCtx)
<1> DEFINE u == Append(w, t)
<1> DEFINE x == LastN(u, NCtx)
<1>2. u \in Seq(Token) /\ Len(u) = Len(w) + 1 /\ u[Len(w) + 1] = t
      /\ \A i \in 1..Len(w) : u[i] = w[i]
  OBVIOUS
<1>3. v \in Seq(Token) /\ Len(v) = NCtx /\ \A i \in 1..NCtx : v[i] = w[Len(w) - NCtx + i]
  BY <1>1, LastNElements
<1>4. x \in Seq(Token) /\ Len(x) = NCtx /\ \A i \in 1..NCtx : x[i] = u[Len(w) + 1 - NCtx + i]
  <2> HIDE DEF u
  <2>1. NCtx \in Nat /\ NCtx <= Len(u)
    BY <1>1, <1>2
  <2>2. x \in Seq(Token) /\ Len(x) = NCtx /\ \A i \in 1..NCtx : x[i] = u[Len(u) - NCtx + i]
    BY <1>2, <2>1, LastNElements
  <2> HIDE DEF x
  <2> QED
    BY <1>1, <1>2, <2>2
<1>5. v # << >>
  BY <1>1, <1>3, EmptySeq
<1>6. Tail(v) \in Seq(Token) /\ Len(Tail(v)) = NCtx - 1
      /\ \A i \in 1..(NCtx - 1) : Tail(v)[i] = v[i + 1]
  <2> HIDE DEF v
  <2> QED
    BY <1>1, <1>3, <1>5, HeadTailProperties
<1> DEFINE y == Append(Tail(v), t)
<1>7. /\ y \in Seq(Token) /\ Len(y) = NCtx /\ y[NCtx] = t
      /\ \A i \in 1..(NCtx - 1) : y[i] = v[i + 1]
  <2> HIDE DEF v
  <2>1. /\ y \in Seq(Token) /\ Len(y) = Len(Tail(v)) + 1 /\ y[Len(Tail(v)) + 1] = t
        /\ \A i \in 1..Len(Tail(v)) : y[i] = Tail(v)[i]
    BY <1>6
  <2>2. Len(Tail(v)) + 1 = NCtx
    BY <1>1, <1>6
  <2> HIDE DEF y
  <2> QED
    BY <1>6, <2>1, <2>2
<1>8. Slide(v, t) = y
  BY DEF Slide
<1> HIDE DEF v, x, y, u
<1>9. ASSUME NEW i \in 1..NCtx PROVE y[i] = x[i]
  <2>1. CASE i = NCtx
    <3>1. Len(w) + 1 - NCtx + i = Len(w) + 1
      BY <1>1, <2>1
    <3> QED
      BY <1>2, <1>4, <1>7, <2>1, <3>1
  <2>2. CASE i # NCtx
    <3>1. PICK k \in 1..NCtx : k = i + 1 /\ i \in 1..(NCtx - 1)
      BY <1>1, <2>2
    <3>2. PICK j \in 1..Len(w) : j = Len(w) - NCtx + k /\ j = Len(w) + 1 - NCtx + i
      BY <1>1, <3>1
    <3>3. y[i] = v[k] /\ v[k] = w[j]
      BY <1>3, <1>7, <3>1, <3>2
    <3>4. x[i] = u[j] /\ u[j] = w[j]
      BY <1>2, <1>4, <3>2
    <3> QED
      BY <3>3, <3>4
  <2> QED
    BY <2>1, <2>2
<1>10. y = x
  BY <1>1, <1>4, <1>7, <1>9, SeqEqual
<1> QED
  BY <1>8, <1>10 DEF v, x, u

FlattenStep(ss) == [n \in 1..Len(ss) |-> [r \in Seq(Token) |-> r \o ss[n]]]

(* FlattenSeq is a recursion over the inputs.                               *)
LEMMA FlattenUnfolds ==
  ASSUME NEW ss \in Seq(Seq(Token))
  PROVE  \E f \in [0..Len(ss) -> Seq(Token)] :
           Recursion(f, << >>, FlattenStep(ss), Len(ss)) /\ FlattenSeq(ss) = f[Len(ss)]
<1> DEFINE L == Len(ss)
<1>1. L \in Nat /\ << >> \in Seq(Token)
  OBVIOUS
<1>2. \A n \in 1..L : ss[n] \in Seq(Token)
  BY ElementOfSeq
<1>3. FlattenStep(ss) \in [1..L -> [Seq(Token) -> Seq(Token)]]
  <2>1. ASSUME NEW n \in 1..L, NEW r \in Seq(Token) PROVE r \o ss[n] \in Seq(Token)
    BY <1>2, ConcatProperties
  <2> QED
    BY <2>1 DEF FlattenStep
<1>4. ASSUME NEW n \in 1..L, NEW r \in Seq(Token)
      PROVE  FlattenStep(ss)[n][r] = r \o ss[n]
  BY DEF FlattenStep
<1>5. PICK f : Recursion(f, << >>, FlattenStep(ss), L)
  <2> HIDE DEF L
  <2> QED
    BY <1>1, RecursionExists
<1>6. f \in [0..L -> Seq(Token)]
  <2> HIDE DEF L
  <2> QED
    BY <1>1, <1>3, <1>5, RecursionIsTyped
<1>7. ASSUME NEW n \in 1..L
      PROVE  f[n] = IF n = 1 THEN ss[n] ELSE f[n - 1] \o ss[n]
  <2>1. \A k \in 0..L : f[k] = IF k = 0 THEN << >> ELSE FlattenStep(ss)[k][f[k - 1]]
    BY <1>5 DEF Recursion
  <2>a. n \in 0..L /\ n # 0 /\ n - 1 \in 0..L
    BY <1>1
  <2>2. n \in 0..L /\ n # 0 /\ f[n - 1] \in Seq(Token)
    BY <1>6, <2>a
  <2>3. f[n] = f[n - 1] \o ss[n]
    BY <1>4, <2>1, <2>2
  <2>4. CASE n = 1
    <3>1. n - 1 = 0 /\ 0 \in 0..L
      BY <1>1, <2>4
    <3>2. f[n - 1] = << >>
      BY <2>1, <3>1
    <3>3. << >> \o ss[n] = ss[n]
      BY <1>2, ConcatEmptySeq
    <3> QED
      BY <2>3, <2>4, <3>2, <3>3
  <2> QED
    BY <2>3, <2>4
<1> DEFINE Flat(g) == [i \in 1..L |-> IF i = 1 THEN ss[i] ELSE g[i - 1] \o ss[i]]
<1> DEFINE flatten == CHOOSE g : g = Flat(g)
<1>8. \E g : g = Flat(g)
  <2> DEFINE g == [i \in 1..L |-> f[i]]
  <2>1. ASSUME NEW i \in 1..L PROVE g[i] = IF i = 1 THEN ss[i] ELSE g[i - 1] \o ss[i]
    <3>1. i # 1 => i - 1 \in 1..L
      BY <1>1
    <3> QED
      BY <1>7, <3>1
  <2>2. g = [i \in 1..L |-> g[i]]
    OBVIOUS
  <2> HIDE DEF g, L
  <2>3. g = Flat(g)
    BY <2>1, <2>2
  <2> QED
    BY <2>3
<1>9. flatten = Flat(flatten)
  <2> HIDE DEF Flat
  <2> QED
    BY <1>8
<1>10. FlattenSeq(ss) = IF L = 0 THEN ss ELSE flatten[L]
  BY DEF FlattenSeq
<1> HIDE DEF flatten
<1>11. ASSUME NEW i \in 1..L PROVE flatten[i] = IF i = 1 THEN ss[i] ELSE flatten[i - 1] \o ss[i]
  <2> HIDE DEF L
  <2> QED
    BY <1>9, Zenon
<1> HIDE DEF Flat, L
<1>12. \A k \in Nat : k <= L /\ k > 0 => flatten[k] = f[k]
  <2> DEFINE S == {k \in Nat : k <= L /\ k > 0 => flatten[k] = f[k]}
  <2>1. 0 \in S
    OBVIOUS
  <2>2. ASSUME NEW k \in Nat, k \in S PROVE k + 1 \in S
    <3> SUFFICES ASSUME k + 1 <= L PROVE flatten[k + 1] = f[k + 1]
      OBVIOUS
    <3>1. k + 1 \in 1..L /\ k + 1 - 1 = k /\ (k + 1 = 1 <=> k = 0)
      BY <1>1
    <3>2. k = 0 \/ flatten[k] = f[k]
      BY <1>1, <2>2
    <3>3. flatten[k + 1] = IF k + 1 = 1 THEN ss[k + 1] ELSE flatten[k] \o ss[k + 1]
      BY <1>11, <3>1
    <3>4. f[k + 1] = IF k + 1 = 1 THEN ss[k + 1] ELSE f[k] \o ss[k + 1]
      BY <1>7, <3>1
    <3> QED
      BY <3>1, <3>2, <3>3, <3>4
  <2>3. Nat \subseteq S
    <3> HIDE DEF S
    <3> QED
      BY <2>1, <2>2, SetInduction
  <2> QED
    BY <2>3
<1>13. FlattenSeq(ss) = f[L]
  <2>1. CASE L = 0
    <3>1. ss = << >>
      BY <2>1, EmptySeq DEF L
    <3>2. f[0] = << >>
      BY <1>1, <1>5, RecursionStarts
    <3> QED
      BY <1>10, <2>1, <3>1, <3>2
  <2>2. CASE L # 0
    <3>1. L > 0 /\ L <= L
      BY <1>1, <2>2
    <3> QED
      BY <1>1, <1>10, <1>12, <2>2, <3>1
  <2> QED
    BY <2>1, <2>2
<1> QED
  BY <1>5, <1>6, <1>13 DEF L

(* One more input extends the flattened sequence by it.                     *)
LEMMA FlattenGrows ==
  ASSUME NEW ss \in Seq(Seq(Token)), NEW x \in Seq(Token)
  PROVE  /\ FlattenSeq(ss) \in Seq(Token)
         /\ FlattenSeq(Append(ss, x)) = FlattenSeq(ss) \o x
<1> DEFINE u == Append(ss, x)
<1> DEFINE L == Len(ss)
<1>1. u \in Seq(Seq(Token)) /\ Len(u) = L + 1 /\ L \in Nat
  OBVIOUS
<1>2. u[L + 1] = x /\ \A n \in 1..L : u[n] = ss[n]
  OBVIOUS
<1>3. PICK f \in [0..L -> Seq(Token)] : Recursion(f, << >>, FlattenStep(ss), L) /\ FlattenSeq(ss) = f[L]
  BY FlattenUnfolds
<1>4. PICK g \in [0..(L + 1) -> Seq(Token)] :
        Recursion(g, << >>, FlattenStep(u), L + 1) /\ FlattenSeq(u) = g[L + 1]
  BY <1>1, FlattenUnfolds
<1>5. \A n \in 1..L : FlattenStep(ss)[n] = FlattenStep(u)[n]
  BY <1>1, <1>2 DEF FlattenStep
<1>m. PICK m \in Nat : m = L + 1
  BY <1>1
<1>r. Recursion(g, << >>, FlattenStep(u), m)
  BY <1>4, <1>m
<1>6. AgreeOn(0..L, f, g)
  <2>1. L <= m /\ L \in Nat
    BY <1>1, <1>m
  <2>2. AgreeOn(1..L, FlattenStep(ss), FlattenStep(u))
    BY <1>5 DEF AgreeOn
  <2> HIDE DEF L, u
  <2> QED
    BY <1>3, <1>r, <2>1, <2>2, RecursionAgrees
<1>7. g[L + 1] = FlattenStep(u)[L + 1][g[L]]
  <2> HIDE DEF L, u
  <2>1. m \in 1..m /\ m - 1 = L
    BY <1>1, <1>m
  <2>2. \A k \in 0..m : g[k] = IF k = 0 THEN << >> ELSE FlattenStep(u)[k][g[k - 1]]
    BY <1>r DEF Recursion
  <2>3. m \in 0..m /\ m # 0
    BY <2>1
  <2>4. g[m] = FlattenStep(u)[m][g[m - 1]]
    BY <2>2, <2>3, Zenon
  <2> QED
    BY <1>m, <2>1, <2>4
<1>8. f[L] = g[L] /\ f[L] \in Seq(Token)
  BY <1>1, <1>3, <1>6 DEF AgreeOn
<1>9. FlattenStep(u)[L + 1][g[L]] = g[L] \o x
  <2>1. L + 1 \in 1..Len(u)
    BY <1>1
  <2> HIDE DEF L, u
  <2> QED
    BY <1>2, <1>8, <2>1 DEF FlattenStep
<1> HIDE DEF L, u
<1>10. FlattenSeq(u) = FlattenSeq(ss) \o x
  BY <1>3, <1>4, <1>7, <1>8, <1>9
<1> QED
  BY <1>3, <1>8, <1>10 DEF u

LEMMA FlattenNothing == FlattenSeq(<< >>) = << >>
BY DEF FlattenSeq

-----------------------------------------------------------------------------
(* What the loop's state remembers of the draws                             *)

HInv ==
  /\ generate_ids = Reply(drawn)
  /\ stop_generation_tolerance = 2 - EosStreak(drawn)
  /\ input_ids = FedAfter(drawn)
  /\ pc = "user" /\ turn > 0 => n_remain = 0 \/ stop_generation_tolerance = 0
  /\ PenaltyWindow
  /\ ContextReplaysDraws

\* FedAfter and what the passes of a turn were fed, for a prompt p and draws d.
FedWith(p, d) == IF Reply(d) = << >> THEN p ELSE <<Last(Reply(d))>>
Fed(p, d, n) == [k \in 1..n |-> FedWith(p, SubSeq(d, 1, k - 1))]
Window(r) == LastN([i \in 1..NCtx |-> Zero] \o r, NCtx)

LEMMA HistoryIn ==
  /\ \A d : FedAfter(d) = FedWith(prompt, d)
  /\ PenaltyWindow <=> last_n_tokens = Window(Reply(drawn))
  /\ ContextReplaysDraws <=>
       SubSeq(rows, base + 1, past_sqlen) = FlattenSeq(Fed(prompt, drawn, Passes))
<1>1. \A d : FedAfter(d) = FedWith(prompt, d)
  BY DEF FedAfter, FedWith
<1>2. [k \in 1..Passes |-> FedAfter(SubSeq(drawn, 1, k - 1))] = Fed(prompt, drawn, Passes)
  BY <1>1 DEF Fed
<1>3. PenaltyWindow <=> last_n_tokens = Window(Reply(drawn))
  BY DEF PenaltyWindow, Window
<1>4. ContextReplaysDraws <=>
       SubSeq(rows, base + 1, past_sqlen) = FlattenSeq(Fed(prompt, drawn, Passes))
  BY <1>2 DEF ContextReplaysDraws
<1> QED
  BY <1>1, <1>3, <1>4

LEMMA FedIsIds ==
  ASSUME NEW p \in Seq(Token), NEW d \in Seq(Token)
  PROVE  FedWith(p, d) \in Seq(Token)
<1>1. Reply(d) \in Seq(Token)
  BY ReplyGrows, TokenAssumption
<1>2. Reply(d) # << >> => Last(Reply(d)) \in Token
  <2> SUFFICES ASSUME Reply(d) # << >> PROVE Reply(d)[Len(Reply(d))] \in Token
    BY DEF Last
  <2>1. Len(Reply(d)) \in 1..Len(Reply(d))
    BY <1>1, EmptySeq
  <2> QED
    BY <1>1, <2>1, ElementOfSeq
<1>3. ASSUME NEW t \in Token PROVE <<t>> \in Seq(Token)
  OBVIOUS
<1> QED
  BY <1>2, <1>3 DEF FedWith

LEMMA PrefixIsIds ==
  ASSUME NEW d \in Seq(Token), NEW n \in Nat, n <= Len(d)
  PROVE  SubSeq(d, 1, n) \in Seq(Token)
<1>1. \A i \in 1..n : d[i] \in Token
  BY ElementOfSeq
<1> QED
  BY <1>1, SubSeqProperties

LEMMA PrefixOfAppend ==
  ASSUME NEW d \in Seq(Token), NEW t \in Token, NEW n \in Nat, n <= Len(d)
  PROVE  SubSeq(Append(d, t), 1, n) = SubSeq(d, 1, n)
<1>1. Append(d, t) \in Seq(Token) /\ Len(Append(d, t)) = Len(d) + 1 /\ Len(d) \in Nat
      /\ \A i \in 1..Len(d) : Append(d, t)[i] = d[i]
  OBVIOUS
<1> DEFINE u == Append(d, t)
<1>2. \A i \in 1..n : u[i] = d[i] /\ d[i] \in Token /\ u[i] \in Token
  BY <1>1, ElementOfSeq
<1>3. /\ SubSeq(d, 1, n) \in Seq(Token) /\ Len(SubSeq(d, 1, n)) = n
      /\ \A i \in 1..n : SubSeq(d, 1, n)[i] = d[i]
  <2>1. /\ SubSeq(d, 1, n) \in Seq(Token)
        /\ Len(SubSeq(d, 1, n)) = IF 1 <= n THEN n - 1 + 1 ELSE 0
        /\ \A i \in 1..(n - 1 + 1) : SubSeq(d, 1, n)[i] = d[1 + i - 1]
    BY <1>2, SubSeqProperties
  <2> QED
    BY <2>1
<1> HIDE DEF u
<1>4. /\ SubSeq(u, 1, n) \in Seq(Token) /\ Len(SubSeq(u, 1, n)) = n
      /\ \A i \in 1..n : SubSeq(u, 1, n)[i] = u[i]
  <2>1. /\ SubSeq(u, 1, n) \in Seq(Token)
        /\ Len(SubSeq(u, 1, n)) = IF 1 <= n THEN n - 1 + 1 ELSE 0
        /\ \A i \in 1..(n - 1 + 1) : SubSeq(u, 1, n)[i] = u[1 + i - 1]
    BY <1>2, SubSeqProperties
  <2> QED
    BY <2>1
<1>5. \A i \in 1..n : SubSeq(u, 1, n)[i] = SubSeq(d, 1, n)[i]
  BY <1>2, <1>3, <1>4
<1>6. SubSeq(u, 1, n) = SubSeq(d, 1, n)
  BY <1>3, <1>4, <1>5, SeqEqual
<1> QED
  BY <1>6 DEF u

LEMMA FedFacts ==
  ASSUME NEW p \in Seq(Token), NEW d \in Seq(Token), NEW n \in Nat, n <= Len(d) + 1
  PROVE  /\ Fed(p, d, n) \in Seq(Seq(Token)) /\ Len(Fed(p, d, n)) = n
         /\ \A t \in Token : Fed(p, Append(d, t), n) = Fed(p, d, n)
<1>1. ASSUME NEW k \in 1..n PROVE k - 1 \in Nat /\ k - 1 <= Len(d)
  BY LenProperties
<1>2. ASSUME NEW k \in 1..n PROVE FedWith(p, SubSeq(d, 1, k - 1)) \in Seq(Token)
  BY <1>1, PrefixIsIds, FedIsIds
<1>3. Fed(p, d, n) \in Seq(Seq(Token)) /\ Len(Fed(p, d, n)) = n
  <2>1. Fed(p, d, n) \in [1..n -> Seq(Token)]
    BY <1>2 DEF Fed
  <2> QED
    BY <2>1
<1>4. ASSUME NEW t \in Token, NEW k \in 1..n
      PROVE  SubSeq(Append(d, t), 1, k - 1) = SubSeq(d, 1, k - 1)
  BY <1>1, PrefixOfAppend
<1>5. \A t \in Token : Fed(p, Append(d, t), n) = Fed(p, d, n)
  BY <1>4 DEF Fed
<1> QED
  BY <1>3, <1>5

(* The next pass is fed what the draws so far make of it.                   *)
LEMMA FedGrows ==
  ASSUME NEW p \in Seq(Token), NEW d \in Seq(Token)
  PROVE  Fed(p, d, Len(d) + 1) = Append(Fed(p, d, Len(d)), FedWith(p, d))
<1> DEFINE n == Len(d)
<1>1. n \in Nat /\ n + 1 \in Nat /\ n <= n + 1 /\ n <= n
  OBVIOUS
<1>2. Fed(p, d, n) \in Seq(Seq(Token)) /\ Len(Fed(p, d, n)) = n
  BY <1>1, FedFacts
<1>3. Fed(p, d, n + 1) \in Seq(Seq(Token)) /\ Len(Fed(p, d, n + 1)) = n + 1
  BY <1>1, FedFacts
<1>4. FedWith(p, d) \in Seq(Token)
  BY FedIsIds
<1>5. SubSeq(d, 1, n) = d
  BY SubSeqFull
<1> DEFINE u == Append(Fed(p, d, n), FedWith(p, d))
<1>6. /\ u \in Seq(Seq(Token)) /\ Len(u) = n + 1 /\ u[n + 1] = FedWith(p, d)
      /\ \A k \in 1..n : u[k] = Fed(p, d, n)[k]
  <2>1. ASSUME NEW ss \in Seq(Seq(Token)), NEW x \in Seq(Token)
        PROVE  /\ Append(ss, x) \in Seq(Seq(Token)) /\ Len(Append(ss, x)) = Len(ss) + 1
               /\ Append(ss, x)[Len(ss) + 1] = x
               /\ \A k \in 1..Len(ss) : Append(ss, x)[k] = ss[k]
    BY AppendProperties
  <2> HIDE DEF n
  <2> QED
    BY <1>2, <1>4, <2>1
<1>7. \A k \in 1..n : Fed(p, d, n)[k] = FedWith(p, SubSeq(d, 1, k - 1))
  BY DEF Fed
<1>8. \A k \in 1..(n + 1) : Fed(p, d, n + 1)[k] = FedWith(p, SubSeq(d, 1, k - 1))
  BY DEF Fed
<1> HIDE DEF u, n
<1>9. ASSUME NEW k \in 1..(n + 1) PROVE Fed(p, d, n + 1)[k] = u[k]
  <2>1. CASE k = n + 1
    <3>1. k - 1 = n
      BY <1>1, <2>1
    <3> QED
      BY <1>5, <1>6, <1>8, <2>1, <3>1
  <2>2. CASE k # n + 1
    <3>1. k \in 1..n
      BY <1>1, <2>2
    <3> QED
      BY <1>6, <1>7, <1>8, <3>1
  <2> QED
    BY <2>1, <2>2
<1>10. Fed(p, d, n + 1) = u
  BY <1>3, <1>6, <1>9, SeqEqual
<1> QED
  BY <1>10 DEF u, n

LEMMA TailOfConcat ==
  ASSUME NEW r \in Seq(Token), NEW ids \in Seq(Token), NEW b \in Nat, b <= Len(r)
  PROVE  SubSeq(r \o ids, b + 1, Len(r) + Len(ids)) = SubSeq(r, b + 1, Len(r)) \o ids
<1> DEFINE n == Len(r)
<1> DEFINE m == Len(ids)
<1> DEFINE w == r \o ids
<1>1. n \in Nat /\ m \in Nat /\ b <= n
  OBVIOUS
<1>2. /\ w \in Seq(Token) /\ Len(w) = n + m
      /\ \A i \in 1..(n + m) : w[i] = IF i <= n THEN r[i] ELSE ids[i - n]
  BY ConcatProperties
<1> DEFINE x == SubSeq(w, b + 1, n + m)
<1>3. x \in Seq(Token) /\ Len(x) = n + m - b /\ \A i \in 1..(n + m - b) : x[i] = w[b + i]
  <2>1. \A i \in (b + 1)..(n + m) : w[i] \in Token
    BY <1>1, <1>2, ElementOfSeq
  <2> HIDE DEF w, n, m
  <2>2. PICK c \in Int : c = b + 1
    BY <1>1
  <2>3. /\ SubSeq(w, c, n + m) \in Seq(Token)
        /\ Len(SubSeq(w, c, n + m)) = IF c <= n + m THEN n + m - c + 1 ELSE 0
        /\ \A i \in 1..(n + m - c + 1) : SubSeq(w, c, n + m)[i] = w[c + i - 1]
    BY <1>1, <2>1, <2>2, SubSeqProperties
  <2>4. \A i \in Nat : c + i - 1 = b + i
    BY <2>2
  <2> QED
    BY <1>1, <2>2, <2>3, <2>4
<1> DEFINE y == SubSeq(r, b + 1, n)
<1>4. y \in Seq(Token) /\ Len(y) = n - b /\ \A i \in 1..(n - b) : y[i] = r[b + i]
  <2>1. \A i \in (b + 1)..n : r[i] \in Token
    BY <1>1, ElementOfSeq
  <2> HIDE DEF n, m
  <2>2. PICK c \in Int : c = b + 1
    BY <1>1
  <2>3. /\ SubSeq(r, c, n) \in Seq(Token)
        /\ Len(SubSeq(r, c, n)) = IF c <= n THEN n - c + 1 ELSE 0
        /\ \A i \in 1..(n - c + 1) : SubSeq(r, c, n)[i] = r[c + i - 1]
    BY <1>1, <2>1, <2>2, SubSeqProperties
  <2>4. \A i \in Nat : c + i - 1 = b + i
    BY <2>2
  <2> QED
    BY <1>1, <2>2, <2>3, <2>4
<1>5. /\ y \o ids \in Seq(Token) /\ Len(y \o ids) = n - b + m
      /\ \A i \in 1..(n - b + m) : (y \o ids)[i] = IF i <= n - b THEN y[i] ELSE ids[i - (n - b)]
  <2> HIDE DEF y
  <2>1. /\ y \o ids \in Seq(Token) /\ Len(y \o ids) = Len(y) + Len(ids)
        /\ \A i \in 1..(Len(y) + Len(ids)) : (y \o ids)[i] = IF i <= Len(y) THEN y[i] ELSE ids[i - Len(y)]
    BY <1>4, ConcatProperties
  <2> QED
    BY <1>4, <2>1
<1> HIDE DEF n, m, w, x, y
<1>6. ASSUME NEW i \in 1..(n + m - b) PROVE x[i] = (y \o ids)[i]
  <2>1. x[i] = w[b + i] /\ b + i \in 1..(n + m) /\ i \in 1..(n - b + m)
    BY <1>1, <1>3
  <2>2. CASE i <= n - b
    <3>1. b + i <= n /\ i \in 1..(n - b)
      BY <1>1, <2>2
    <3>2. w[b + i] = r[b + i] /\ y[i] = r[b + i]
      BY <1>2, <1>4, <2>1, <3>1
    <3> QED
      BY <1>5, <2>1, <2>2, <3>2
  <2>3. CASE ~(i <= n - b)
    <3>1. ~(b + i <= n) /\ b + i - n = i - (n - b)
      BY <1>1, <2>3
    <3>a. PICK j \in 1..(n + m) : j = b + i
      BY <2>1
    <3>b. w[j] = ids[j - n]
      BY <1>2, <3>1, <3>a
    <3>2. w[b + i] = ids[b + i - n]
      BY <1>1, <3>a, <3>b
    <3>3. (y \o ids)[i] = ids[i - (n - b)]
      BY <1>5, <2>1, <2>3
    <3> QED
      BY <2>1, <3>1, <3>2, <3>3
  <2> QED
    BY <2>2, <2>3
<1>7. n + m - b = n - b + m
  BY <1>1
<1>8. x = y \o ids
  BY <1>3, <1>5, <1>6, <1>7, SeqEqual
<1> QED
  BY <1>8 DEF x, y, w, n, m

-----------------------------------------------------------------------------
(* The history is kept by every step                                        *)

LEMMA HistoryInNext ==
  /\ \A d : (FedAfter(d))' = FedWith(prompt', d)
  /\ PenaltyWindow' <=> last_n_tokens' = Window(Reply(drawn'))
  /\ ContextReplaysDraws' <=>
       SubSeq(rows', base' + 1, past_sqlen') = FlattenSeq(Fed(prompt', drawn', Passes'))
<1>1. \A d : (FedAfter(d))' = FedWith(prompt', d)
  BY DEF FedAfter, FedWith
<1>2. PenaltyWindow' <=> last_n_tokens' = Window(Reply(drawn'))
  BY DEF PenaltyWindow, Window
<1>3. [k \in 1..Passes' |-> FedAfter(SubSeq(drawn, 1, k - 1))'] = Fed(prompt', drawn', Passes')
  BY DEF Fed, FedAfter, FedWith
<1>4. ContextReplaysDraws' <=>
       SubSeq(rows', base' + 1, past_sqlen') = FlattenSeq(Fed(prompt', drawn', Passes'))
  BY <1>3 DEF ContextReplaysDraws
<1> QED
  BY <1>1, <1>2, <1>4

(* What holds of the variables at the start of a turn.                      *)
LEMMA FreshTurn ==
  ASSUME NEW p \in Seq(Token), NEW r \in Seq(Token), NEW n \in Nat, n = Len(r)
  PROVE  /\ FedWith(p, << >>) = p
         /\ [i \in 1..NCtx |-> Zero] = Window(Reply(<< >>))
         /\ SubSeq(r, n + 1, n) = FlattenSeq(Fed(p, << >>, 0))
<1>1. FedWith(p, << >>) = p
  BY NoReply DEF FedWith
<1>2. [i \in 1..NCtx |-> Zero] = Window(Reply(<< >>))
  <2> DEFINE z == [i \in 1..NCtx |-> Zero]
  <2>1. z \in Seq(Token) /\ Len(z) = NCtx
    BY SizeAssumption, TokenAssumption
  <2>2. z \o << >> = z
    BY <2>1, ConcatEmptySeq
  <2>3. LastN(z, NCtx) = SubSeq(z, 1, Len(z))
    BY <2>1, SizeAssumption DEF LastN
  <2>4. SubSeq(z, 1, Len(z)) = z
    BY <2>1, SubSeqFull
  <2>5. Window(Reply(<< >>)) = LastN(z \o << >>, NCtx)
    BY NoReply DEF Window
  <2> HIDE DEF z
  <2>6. z = Window(Reply(<< >>))
    BY <2>2, <2>3, <2>4, <2>5
  <2> QED
    BY <2>6 DEF z
<1>3. SubSeq(r, n + 1, n) = FlattenSeq(Fed(p, << >>, 0))
  <2>1. SubSeq(r, n + 1, n) = << >>
    BY SubSeqEmpty
  <2>2. Fed(p, << >>, 0) = << >>
    BY DEF Fed
  <2> QED
    BY <2>1, <2>2, FlattenNothing
<1> QED
  BY <1>1, <1>2, <1>3

(* A draw adds to the window what it adds to the reply.                     *)
LEMMA WindowSlides ==
  ASSUME NEW r \in Seq(Token), NEW t \in Token
  PROVE  Window(Append(r, t)) = Slide(Window(r), t)
<1> DEFINE z == [i \in 1..NCtx |-> Zero]
<1>1. z \in Seq(Token) /\ Len(z) = NCtx /\ NCtx \in Nat
  BY SizeAssumption, TokenAssumption
<1>2. z \o r \in Seq(Token) /\ Len(z \o r) = NCtx + Len(r) /\ NCtx <= Len(z \o r)
  BY <1>1, ConcatProperties
<1>3. <<t>> \in Seq(Token) /\ Append(r, t) = r \o <<t>>
  BY AppendIsConcat
<1>4. z \o (r \o <<t>>) = (z \o r) \o <<t>>
  BY <1>1, <1>3, ConcatAssociative
<1>5. Append(z \o r, t) = (z \o r) \o <<t>>
  BY <1>2, AppendIsConcat
<1>6. Slide(LastN(z \o r, NCtx), t) = LastN(Append(z \o r, t), NCtx)
  BY <1>2, SlideFollows
<1>7. Window(Append(r, t)) = LastN(z \o Append(r, t), NCtx) /\ Window(r) = LastN(z \o r, NCtx)
  BY DEF Window
<1> HIDE DEF z
<1> QED
  BY <1>3, <1>4, <1>5, <1>6, <1>7

LEMMA InitHInv == Init => HInv
<1> SUFFICES ASSUME Init PROVE HInv
  OBVIOUS
<1>1. << >> \in Seq(Token) /\ Len(<< >>) = 0
  OBVIOUS
<1>2. Passes = 0
  BY <1>1 DEF Init, Passes
<1>3. /\ FedWith(<< >>, << >>) = << >>
      /\ [i \in 1..NCtx |-> Zero] = Window(Reply(<< >>))
      /\ SubSeq(<< >>, 0 + 1, 0) = FlattenSeq(Fed(<< >>, << >>, 0))
  BY <1>1, FreshTurn
<1>4. PenaltyWindow /\ ContextReplaysDraws /\ input_ids = FedAfter(drawn)
  BY <1>2, <1>3, HistoryIn DEF Init
<1>5. generate_ids = Reply(drawn) /\ stop_generation_tolerance = 2 - EosStreak(drawn)
  BY NoReply, NoStreak DEF Init, Tolerance
<1> QED
  BY <1>4, <1>5 DEF HInv, Init

LEMMA ReadLineRemembers == IInv /\ HInv /\ IInv' /\ ReadLine => HInv'
<1> SUFFICES ASSUME IInv, HInv, IInv', ReadLine PROVE HInv'
  OBVIOUS
<1>1. rows \in Seq(Token) /\ past_sqlen = Len(rows) /\ past_sqlen \in Nat /\ prompt' \in Seq(Token)
  BY DEF IInv, TypeOK, TurnAccount
<1>2. /\ drawn' = << >> /\ rows' = rows /\ past_sqlen' = past_sqlen /\ base' = past_sqlen
      /\ input_ids' = prompt' /\ generate_ids' = << >> /\ stop_generation_tolerance' = 2
      /\ last_n_tokens' = [i \in 1..NCtx |-> Zero] /\ pc' = "loop"
  BY DEF ReadLine, modelVars, Tolerance
<1>3. Passes' = 0
  BY <1>2 DEF Passes
<1>4. /\ FedWith(prompt', << >>) = prompt'
      /\ [i \in 1..NCtx |-> Zero] = Window(Reply(<< >>))
      /\ SubSeq(rows, past_sqlen + 1, past_sqlen) = FlattenSeq(Fed(prompt', << >>, 0))
  BY <1>1, FreshTurn
<1>5. PenaltyWindow' /\ ContextReplaysDraws' /\ input_ids' = FedAfter(drawn)'
  <2>1. FedAfter(drawn)' = FedWith(prompt', drawn')
    BY DEF FedAfter, FedWith
  <2> QED
    BY <1>2, <1>3, <1>4, <2>1, HistoryInNext
<1>6. generate_ids' = Reply(drawn') /\ stop_generation_tolerance' = 2 - EosStreak(drawn')
  BY <1>2, NoReply, NoStreak
<1> QED
  BY <1>2, <1>5, <1>6 DEF HInv

(* A forward adds to the context what the draws so far make of its input.   *)
LEMMA ForwardRemembers == IInv /\ HInv /\ IInv' /\ Forward => HInv'
<1> SUFFICES ASSUME IInv, HInv, IInv', Forward PROVE HInv'
  OBVIOUS
<1>1. /\ rows \in Seq(Token) /\ past_sqlen = Len(rows) /\ past_sqlen \in Nat
      /\ prompt \in Seq(Token) /\ drawn \in Seq(Token) /\ input_ids \in Seq(Token)
      /\ base \in Nat /\ base <= past_sqlen /\ Len(input_ids) \in Nat /\ Len(drawn) \in Nat
  BY LenProperties DEF IInv, TypeOK, TurnAccount
<1>2. /\ drawn' = drawn /\ prompt' = prompt /\ base' = base /\ input_ids' = input_ids
      /\ generate_ids' = generate_ids /\ last_n_tokens' = last_n_tokens
      /\ stop_generation_tolerance' = stop_generation_tolerance
      /\ pc = "loop" /\ pc' = "sample"
      /\ rows' = WriteRows(rows, past_sqlen, input_ids)
      /\ past_sqlen' = past_sqlen + Len(input_ids)
  BY DEF Forward, loopVars, turnVars, drawVars
<1>3. Passes = Len(drawn) /\ Passes' = Len(drawn) + 1
  BY <1>1, <1>2 DEF Passes
<1>4. input_ids = FedWith(prompt, drawn)
  BY HistoryIn DEF HInv
<1>5. FlattenSeq(Fed(prompt, drawn, Len(drawn) + 1))
        = FlattenSeq(Fed(prompt, drawn, Len(drawn))) \o input_ids
  <2>1. Fed(prompt, drawn, Len(drawn)) \in Seq(Seq(Token))
    BY <1>1, FedFacts
  <2>2. Fed(prompt, drawn, Len(drawn) + 1) = Append(Fed(prompt, drawn, Len(drawn)), input_ids)
    BY <1>1, <1>4, FedGrows
  <2> QED
    BY <1>1, <2>1, <2>2, FlattenGrows
<1>6. SubSeq(rows, base + 1, past_sqlen) = FlattenSeq(Fed(prompt, drawn, Len(drawn)))
  BY <1>3, HistoryIn DEF HInv
<1>7. rows' = rows \o input_ids
  <2>1. SubSeq(rows, 1, Len(rows)) = rows
    BY <1>1, SubSeqFull
  <2>2. SubSeq(rows, Len(rows) + Len(input_ids) + 1, Len(rows)) = << >>
    BY <1>1, SubSeqEmpty
  <2>3. (rows \o input_ids) \o << >> = rows \o input_ids
    BY <1>1, ConcatProperties, ConcatEmptySeq
  <2> QED
    BY <1>1, <1>2, <2>1, <2>2, <2>3 DEF WriteRows
<1>8. SubSeq(rows', base + 1, past_sqlen') = SubSeq(rows, base + 1, past_sqlen) \o input_ids
  <2>1. SubSeq(rows \o input_ids, base + 1, Len(rows) + Len(input_ids))
          = SubSeq(rows, base + 1, Len(rows)) \o input_ids
    BY <1>1, TailOfConcat
  <2> QED
    BY <1>1, <1>2, <1>7, <2>1
<1>9. ContextReplaysDraws'
  BY <1>2, <1>3, <1>5, <1>6, <1>8, HistoryInNext
<1>10. PenaltyWindow' /\ input_ids' = FedAfter(drawn)'
  <2>1. FedAfter(drawn)' = FedWith(prompt', drawn')
    BY DEF FedAfter, FedWith
  <2>2. PenaltyWindow
    BY DEF HInv
  <2> QED
    BY <1>2, <1>4, <2>1, <2>2, HistoryIn, HistoryInNext
<1> QED
  BY <1>2, <1>9, <1>10 DEF HInv

(* A draw adds no pass to those whose inputs the context already holds.     *)
LEMMA DrawKeepsContext ==
  ASSUME IInv, HInv, pc = "sample", pc' # "sample",
         NEW t \in Token, drawn' = Append(drawn, t),
         UNCHANGED <<modelVars, turnVars>>
  PROVE  ContextReplaysDraws'
<1>1. /\ prompt \in Seq(Token) /\ drawn \in Seq(Token) /\ Len(drawn) \in Nat
      /\ rows' = rows /\ past_sqlen' = past_sqlen /\ base' = base /\ prompt' = prompt
  BY LenProperties DEF IInv, TypeOK, modelVars, turnVars
<1>2. Passes = Len(drawn) + 1
  BY DEF Passes
<1>3. Len(drawn') = Len(drawn) + 1
  BY <1>1
<1>4. Passes' = Len(drawn) + 1
  BY <1>1, <1>3 DEF Passes
<1>5. Fed(prompt, Append(drawn, t), Len(drawn) + 1) = Fed(prompt, drawn, Len(drawn) + 1)
  <2>1. Len(drawn) + 1 \in Nat /\ Len(drawn) + 1 <= Len(drawn) + 1
    BY <1>1
  <2> QED
    BY <1>1, <2>1, FedFacts
<1>6. SubSeq(rows, base + 1, past_sqlen) = FlattenSeq(Fed(prompt, drawn, Len(drawn) + 1))
  BY <1>2, HistoryIn DEF HInv
<1> QED
  BY <1>1, <1>4, <1>5, <1>6, HistoryInNext

(* Eos and Pad leave the reply, its window and the next input as they are.  *)
LEMMA SkippedDrawRemembers ==
  ASSUME IInv, HInv, pc = "sample", pc' = "loop",
         NEW t \in {Eos, Pad}, drawn' = Append(drawn, t),
         UNCHANGED <<input_ids, generate_ids, last_n_tokens, modelVars, turnVars>>,
         stop_generation_tolerance' = IF t = Eos THEN stop_generation_tolerance - 1
                                      ELSE stop_generation_tolerance
  PROVE  HInv'
<1>1. t \in Token /\ ~Accepted(t) /\ drawn \in Seq(Token) /\ prompt' = prompt
  BY TokenAssumption DEF Accepted, IInv, TypeOK, turnVars
<1>2. Reply(drawn') = Reply(drawn)
  BY <1>1, ReplyGrows
<1>3. EosStreak(drawn') = IF t = Eos THEN EosStreak(drawn) + 1 ELSE EosStreak(drawn)
  BY <1>1, StreakGrows
<1>4. EosStreak(drawn) \in Nat
  BY <1>1, StreakGrows
<1>5. stop_generation_tolerance' = 2 - EosStreak(drawn')
  BY <1>3, <1>4 DEF HInv
<1>6. ContextReplaysDraws'
  BY <1>1, DrawKeepsContext
<1>7. PenaltyWindow' /\ input_ids' = FedAfter(drawn)'
  <2>1. FedAfter(drawn)' = FedWith(prompt', drawn')
    BY DEF FedAfter, FedWith
  <2>2. FedWith(prompt, drawn') = FedWith(prompt, drawn)
    BY <1>2 DEF FedWith
  <2>3. PenaltyWindow /\ input_ids = FedWith(prompt, drawn)
    BY HistoryIn DEF HInv
  <2> QED
    BY <1>1, <1>2, <2>1, <2>2, <2>3, HistoryIn, HistoryInNext
<1> QED
  BY <1>2, <1>5, <1>6, <1>7 DEF HInv

LEMMA DrawTokenRemembers ==
  ASSUME IInv, HInv, NEW t \in Token \ {Eos, Pad}, DrawToken(t)
  PROVE  HInv'
<1>1. t \in Token /\ Accepted(t) /\ drawn \in Seq(Token)
  BY DEF Accepted, IInv, TypeOK
<1>2. /\ pc = "sample" /\ pc' \in {"loop", "aborted"} /\ drawn' = Append(drawn, t)
      /\ generate_ids' = Append(generate_ids, t) /\ input_ids' = <<t>>
      /\ last_n_tokens' = Slide(last_n_tokens, t) /\ stop_generation_tolerance' = 2
      /\ UNCHANGED <<modelVars, turnVars>>
  BY DEF DrawToken, Tolerance
<1>3. Reply(drawn') = Append(Reply(drawn), t) /\ Reply(drawn) \in Seq(Token)
  BY <1>1, <1>2, ReplyGrows
<1>4. EosStreak(drawn') = 0
  BY <1>1, <1>2, StreakGrows
<1>5. ContextReplaysDraws'
  BY <1>1, <1>2, DrawKeepsContext
<1>6. PenaltyWindow'
  <2>1. last_n_tokens = Window(Reply(drawn))
    BY HistoryIn DEF HInv
  <2>2. Window(Append(Reply(drawn), t)) = Slide(Window(Reply(drawn)), t)
    BY <1>1, <1>3, WindowSlides
  <2> QED
    BY <1>2, <1>3, <2>1, <2>2, HistoryInNext
<1>7. input_ids' = FedAfter(drawn)'
  <2>1. FedAfter(drawn)' = FedWith(prompt', drawn')
    BY DEF FedAfter, FedWith
  <2>2. Reply(drawn') # << >> /\ Last(Reply(drawn')) = t
    <3>1. ASSUME NEW r \in Seq(Token)
          PROVE  Append(r, t) # << >> /\ Append(r, t)[Len(Append(r, t))] = t
      BY <1>1, AppendProperties
    <3> QED
      BY <1>3, <3>1 DEF Last
  <2> QED
    BY <1>2, <2>1, <2>2 DEF FedWith
<1> QED
  BY <1>2, <1>3, <1>4, <1>5, <1>6, <1>7 DEF HInv

(* Nothing the history tells of changes.                                    *)
LEMMA QuietStepRemembers ==
  ASSUME HInv, UNCHANGED <<loopVars, modelVars, turnVars, drawVars>>,
         pc = "sample" <=> pc' = "sample",
         pc' = "user" /\ turn > 0 => n_remain = 0 \/ stop_generation_tolerance = 0
  PROVE  HInv'
<1>1. Passes' = Passes
  BY DEF Passes, drawVars
<1>2. PenaltyWindow' /\ ContextReplaysDraws'
  BY <1>1, HistoryIn, HistoryInNext DEF HInv, loopVars, modelVars, turnVars, drawVars
<1>3. input_ids' = FedAfter(drawn)'
  BY DEF FedAfter, HInv, loopVars, turnVars, drawVars
<1> QED
  BY <1>2, <1>3 DEF HInv, loopVars, turnVars, drawVars

LEMMA NextKeepsHInv == IInv /\ HInv /\ [Next]_vars => HInv'
<1> SUFFICES ASSUME IInv, HInv, [Next]_vars PROVE HInv'
  OBVIOUS
<1>1. IInv'
  BY NextKeepsIInv
<1>2. CASE ReadLine
  BY <1>1, <1>2, ReadLineRemembers
<1>3. CASE Forward
  BY <1>1, <1>3, ForwardRemembers
<1>4. CASE ForwardAsserts
  BY <1>4, QuietStepRemembers DEF ForwardAsserts
<1>5. CASE DrawEos
  BY <1>5, SkippedDrawRemembers DEF DrawEos
<1>6. CASE DrawPad
  BY <1>6, SkippedDrawRemembers, TokenAssumption DEF DrawPad, loopVars
<1>7. CASE \E t \in Token \ {Eos, Pad} : DrawToken(t)
  BY <1>7, DrawTokenRemembers
<1>8. CASE Return
  BY <1>8, QuietStepRemembers DEF Return, Continues
<1>9. CASE UNCHANGED vars
  <2>1. UNCHANGED <<loopVars, modelVars, turnVars, drawVars>> /\ pc' = pc
    BY <1>9 DEF vars
  <2> QED
    BY <2>1, QuietStepRemembers DEF HInv
<1> QED
  BY <1>2, <1>3, <1>4, <1>5, <1>6, <1>7, <1>8, <1>9 DEF Next

LEMMA HistoryInvariance == Spec => []HInv
<1>1. Init => HInv
  BY InitHInv
<1>2. IInv /\ HInv /\ [Next]_vars => HInv'
  BY NextKeepsHInv
<1> QED
  BY <1>1, <1>2, Invariance, PTL DEF Spec

(* The context of a turn is exactly what its passes were fed, in order, for *)
(* every sequence of draws (Pipeline.cc:403-434): an input whose pass drew  *)
(* Eos or Pad is there once more, and the last token of a reply is not.     *)
THEOREM ContextIsReplay == Spec => []ContextReplaysDraws
<1>1. HInv => ContextReplaysDraws
  BY DEF HInv
<1> QED
  BY <1>1, HistoryInvariance, PTL

(* The penalties always see the tail of this turn's reply, zeros in front   *)
(* (Pipeline.cc:391, 426-427).                                              *)
THEOREM WindowIsReplyTail == Spec => []PenaltyWindow
<1>1. HInv => PenaltyWindow
  BY DEF HInv
<1> QED
  BY <1>1, HistoryInvariance, PTL

-----------------------------------------------------------------------------
(* How the program dies                                                     *)

Undecoded(s) == \E i \in DOMAIN s : s[i] \in Undecodable

DInv ==
  /\ pc = "aborted" => DiedAtRope \/ DiedAtDecode
  /\ pc # "aborted" => ~(Interactive /\ Undecoded(drawn))

(* A draw adds one id that may not decode, the last (Pipeline.cc:429-431).  *)
LEMMA UndecodedGrows ==
  ASSUME NEW s \in Seq(Token), NEW t \in Token
  PROVE  /\ Undecoded(Append(s, t)) => Undecoded(s) \/ t \in Undecodable
         /\ Append(s, t) # << >> /\ Last(Append(s, t)) = t
<1>1. /\ Len(s) \in Nat /\ Len(Append(s, t)) = Len(s) + 1
      /\ Append(s, t)[Len(s) + 1] = t /\ \A i \in 1..Len(s) : Append(s, t)[i] = s[i]
      /\ Append(s, t) \in Seq(Token)
  OBVIOUS
<1>2. DOMAIN s = 1..Len(s) /\ DOMAIN Append(s, t) = 1..(Len(s) + 1)
  BY <1>1
<1>3. ASSUME Undecoded(Append(s, t)) PROVE Undecoded(s) \/ t \in Undecodable
  <2>1. PICK i \in 1..(Len(s) + 1) : Append(s, t)[i] \in Undecodable
    BY <1>2, <1>3 DEF Undecoded
  <2>2. CASE i = Len(s) + 1
    BY <1>1, <2>1, <2>2
  <2>3. CASE i # Len(s) + 1
    <3>1. i \in 1..Len(s)
      BY <1>1, <2>3
    <3> QED
      BY <1>1, <1>2, <2>1, <3>1 DEF Undecoded
  <2> QED
    BY <2>2, <2>3
<1>4. Append(s, t) # << >>
  BY <1>1
<1> QED
  BY <1>1, <1>3, <1>4 DEF Last

(* The program survives a draw that decodes, and no other while it prints.  *)
LEMMA NextKeepsDInv == IInv /\ DInv /\ [Next]_vars => DInv'
<1> SUFFICES ASSUME IInv, DInv, [Next]_vars PROVE DInv'
  OBVIOUS
<1>1. drawn \in Seq(Token) /\ {Eos, Pad} \subseteq Token
      /\ Eos \notin Undecodable /\ Pad \notin Undecodable
  BY TokenAssumption DEF IInv, TypeOK
<1>2. CASE ReadLine
  BY <1>2 DEF ReadLine, DInv, Undecoded
<1>3. CASE Forward
  BY <1>3 DEF Forward, DInv, drawVars
<1>4. CASE ForwardAsserts
  BY <1>4 DEF ForwardAsserts, DInv, DiedAtRope, RopeInRange, loopVars, modelVars
<1>5. ASSUME NEW t \in Token \ Undecodable, pc = "sample", pc' = "loop", drawn' = Append(drawn, t)
      PROVE  DInv'
  BY <1>1, <1>5, UndecodedGrows DEF DInv
<1>6. CASE DrawEos
  BY <1>1, <1>5, <1>6 DEF DrawEos
<1>7. CASE DrawPad
  BY <1>1, <1>5, <1>7 DEF DrawPad
<1>8. ASSUME NEW t \in Token \ {Eos, Pad}, DrawToken(t) PROVE DInv'
  <2>1. pc = "sample" /\ drawn' = Append(drawn, t)
    BY <1>8 DEF DrawToken
  <2>2. CASE Interactive /\ t \in Undecodable
    <3>1. pc' = "aborted"
      BY <1>8, <2>2 DEF DrawToken
    <3> QED
      BY <1>1, <2>1, <2>2, <3>1, UndecodedGrows DEF DInv, DiedAtDecode
  <2>3. CASE ~(Interactive /\ t \in Undecodable)
    <3>1. pc' = "loop"
      BY <1>8, <2>3 DEF DrawToken
    <3> QED
      BY <1>1, <2>1, <2>3, <3>1, UndecodedGrows DEF DInv
  <2> QED
    BY <2>2, <2>3
<1>9. CASE Return
  BY <1>9 DEF Return, DInv, drawVars
<1>10. CASE UNCHANGED vars
  BY <1>10 DEF vars, loopVars, modelVars, drawVars, DInv, DiedAtRope, DiedAtDecode, RopeInRange
<1> QED
  BY <1>2, <1>3, <1>4, <1>6, <1>7, <1>8, <1>9, <1>10 DEF Next

LEMMA DeathInvariance == Spec => []DInv
<1>1. Init => DInv
  BY DEF Init, DInv, Undecoded
<1>2. IInv /\ DInv /\ [Next]_vars => DInv'
  BY NextKeepsDInv
<1> QED
  BY <1>1, <1>2, Invariance, PTL DEF Spec

(* A turn samples while neither limit is reached and returns only when one  *)
(* is (Pipeline.cc:399-435), whatever the vocabulary, the budget and the    *)
(* draws; the program dies only at the assertion of RotaryPosEmb or on an   *)
(* id that decode does not know (Pipeline.cc:431), and then always.         *)
THEOREM StopsForOneReason == Spec => []StopRule
<1>1. ASSUME IInv, HInv, DInv PROVE StopRule
  <2>1. /\ n_remain \in Int /\ Len(generate_ids) \in Nat /\ EosStreak(drawn) \in Nat
        /\ stop_generation_tolerance \in 0..2
    BY <1>1, StreakGrows, TokenAssumption, LenProperties DEF IInv, TypeOK
  <2>2. /\ Len(Reply(drawn)) = Len(generate_ids)
        /\ stop_generation_tolerance = 2 - EosStreak(drawn)
    BY <1>1 DEF HInv
  <2>3. ASSUME pc = "sample" PROVE Len(Reply(drawn)) # NPredict /\ EosStreak(drawn) < 2
    <3>1. n_remain # 0 /\ stop_generation_tolerance # 0 /\ n_remain + Len(generate_ids) = NPredict
      BY <1>1, <2>3 DEF IInv, TurnAccount
    <3> QED
      BY <2>1, <2>2, <3>1
  <2>4. ASSUME pc = "user", turn > 0
        PROVE  Len(Reply(drawn)) = NPredict \/ EosStreak(drawn) = 2
    <3>1. n_remain = 0 \/ stop_generation_tolerance = 0
      BY <1>1, <2>4 DEF HInv
    <3>2. n_remain + Len(generate_ids) = NPredict
      BY <1>1, <2>4 DEF IInv, TurnAccount
    <3> QED
      BY <2>1, <2>2, <3>1, <3>2
  <2> QED
    BY <1>1, <2>3, <2>4 DEF StopRule, DInv, Undecoded
<1> QED
  BY <1>1, Invariance, HistoryInvariance, DeathInvariance, PTL
=============================================================================
