\* Two turns of up to two tokens, one Pad each, in the Debug build.
SPECIFICATION FairSpec
CONSTANTS
  zero = zero
  a = a
  u = u
  eos = eos
  pad = pad
  Token <- MCToken
  Zero = zero
  Eos = eos
  Pad = pad
  Undecodable = {u}
  Prompts <- MCPrompts
  MaxSqlen = 14
  NPredict = 2
  NCtx = 2
  Interactive = TRUE
  Asserts = TRUE
  MaxTurns = 2
  MaxPads = 1
  MaxReply = 2
INVARIANTS
  TypeOK
  ContextReplaysDraws
  StopRule
  PenaltyWindow
  TurnContextBound
  RoomSuffices
  TurnAccount
PROPERTIES
  ModelSpec
  TurnEnds
CHECK_DEADLOCK FALSE
