\* Three layers of two heads; all sequences of passes over all contexts of up to five tokens.
SPECIFICATION PassSpec
CONSTANTS
  a = a
  b = b
  Token <- MCToken
  NumLayers = 3
  NumKvHeads = 2
  MaxSqlen = 5
  MaxContext = 5
INVARIANTS
  PassTypeOK
  AttendsToOwnPast
  HoldsOwnRows
PROPERTIES
  LogSpec
  ModelSpec
CHECK_DEADLOCK FALSE
