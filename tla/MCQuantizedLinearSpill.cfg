\* The largest layer the constructor of the model provides for, with the
\* block size of the code.
SPECIFICATION Spec
CONSTANTS
  Layers <- MCLargestLayer
  QBlk = 32
  Pack = 4
  Cols = 2
  RowsAtOnce = 6
  MaxWeights = 128
  MaxActCols = 64
  MaxLen = 8
  RowCounts = {1}
  Threads = {t1}
  MaxPasses = 1
INVARIANTS
  RepackBufferHolds
CHECK_DEADLOCK FALSE
