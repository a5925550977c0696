\* All pieces of up to five bytes under every vocabulary of MCBytePairMerge.
SPECIFICATION FairSpec
CONSTANTS
  a = a
  b = b
  Byte = {a, b}
  Vocabularies <- MCVocabularies
  Pieces <- MCPieces
  MaxInt = 10
INVARIANTS
  TypeOK
  CachedRanksFresh
  RoundTrip
PROPERTIES
  GreedySpec
  MergeEnds
CHECK_DEADLOCK FALSE
