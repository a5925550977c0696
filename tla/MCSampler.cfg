\* Every logit array and window under seven sets of parameters.
SPECIFICATION Spec
CONSTANTS
  NVocab = 4
  Logits <- MCLogits
  Windows <- MCWindows
  Configs <- MCConfigs
  Denominator = 10
  Underflow = 5
INVARIANTS
  TypeOK
  NeverEmpty
  KeepsTheBest
  PenaltyDemotes
  DrawnIsPossible
PROPERTIES
  NucleusIsLongest
CHECK_DEADLOCK FALSE
