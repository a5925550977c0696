\* One or two queries of two heads over up to three positions, five kinds of scores.
SPECIFICATION WeightsSpec
CONSTANTS
  NumHead = 2
  Sqlen = {1, 2}
  Past = {0, 1}
  Small = 1
  Huge = 10
  Infinity = 100
  NaN = 1000
  ScoreRows <- MCScoreRows
INVARIANTS
  NoNaN
  FutureIsHidden
CHECK_DEADLOCK FALSE
