\* Two passes over two layers by two threads, one to eight rows.
SPECIFICATION FairSpec
CONSTANTS
  Layers <- MCLayers
  QBlk = 16
  Pack = 4
  Cols = 2
  RowsAtOnce = 6
  MaxWeights = 192
  MaxActCols = 64
  MaxLen = 8
  RowCounts = {1, 2, 7, 8}
  Threads = {t1, t2}
  MaxPasses = 2
INVARIANTS
  OutputIsProduct
  PackedIsOwn
  KernelReadsInside
PROPERTIES
  ForwardReturns
CHECK_DEADLOCK FALSE
