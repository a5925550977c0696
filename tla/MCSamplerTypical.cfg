\* sample_typical in front of sample_top_p.
SPECIFICATION Spec
CONSTANTS
  NVocab = 4
  Logits <- FlatLogits
  Windows <- MCWindows
  Configs <- TypicalOnly
  Denominator = 10
  Underflow = 5
INVARIANTS
  SortedIsHonest
CHECK_DEADLOCK FALSE
