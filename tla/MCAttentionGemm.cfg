\* Products of every block pattern under all schedules of two threads.
SPECIFICATION FairSpec
CONSTANTS
  Threads = {t1, t2}
  NumHeads = 2
  GroupSize = 2
  MR = 2
  NR = 2
  MC = 6
  NC = 4
  KC = 3
  Lanes = 2
  Shapes <- MCShapes
INVARIANTS
  SumsInOrder
  ProductComplete
  KernelReadsInside
PROPERTIES
  GemmEnds
CHECK_DEADLOCK FALSE
