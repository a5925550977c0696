--------------------------- MODULE LanguageModel ---------------------------
(***************************************************************************)
(* What the generation loop needs of a causal language model, without      *)
(* layers, caches or counters: it remembers every token it was fed, in     *)
(* order, and after each call its logits are those of all of them.  How    *)
(* the tokens were split into calls leaves no trace.                       *)
(***************************************************************************)
EXTENDS Integers, Sequences

CONSTANT Token

VARIABLES
  context,    \* the tokens fed since the model was built
  scored      \* the tokens whose successor the last logits score

Init == context = << >> /\ scored = << >>

\* One call of forward, with one token at least.
Feed ==
  /\ context' \in Seq(Token)
  /\ Len(context') > Len(context)
  /\ SubSeq(context', 1, Len(context)) = context
  /\ scored' = context'

Spec == Init /\ [][Feed]_<<context, scored>>
=============================================================================
