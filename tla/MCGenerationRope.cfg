\* Short prompts and replies over three turns: the context outgrows the tables.
SPECIFICATION Spec
CONSTANTS
  zero = zero
  a = a
  u = u
  eos = eos
  pad = pad
  Token <- MCToken
  Zero = zero
  Eos = eos
  Pad = pad
  Undecodable = {u}
  Prompts <- ShortPrompts
  MaxSqlen = 7
  NPredict = 2
  NCtx = 2
  Interactive = TRUE
  Asserts = FALSE
  MaxTurns = 3
  MaxPads = 0
  MaxReply = 2
INVARIANTS
  ForwardHasRoom
CHECK_DEADLOCK FALSE
