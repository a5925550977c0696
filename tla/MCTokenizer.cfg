\* Files of up to four tokens with ranks 0 to 3, five lines, two limits on the length.
SPECIFICATION FairTokenizerSpec
CONSTANTS
  a = a
  b = b
  bad = bad
  endoftext = endoftext
  im_start = im_start
  im_end = im_end
  think = think
  unthink = unthink
  Char = {a, b}
  Invalid = bad
  Specials <- MCSpecials
  ImStart = im_start
  ImEnd = im_end
  ThinkOpen = think
  ThinkClose = unthink
  FileTokens <- MCFileTokens
  FileRanks = {0, 1, 2, 3}
  ImStartId = 4
  ImEndId = 5
  System <- Letter
  User <- Letter
  Assistant <- Word
  Newline = b
  Lines <- MCLines
  MaxLengths = {4, 20}
INVARIANTS
  LosesNothing
  DecodesBack
  EndsWithCue
PROPERTIES
  EncodeEnds
CHECK_DEADLOCK FALSE
