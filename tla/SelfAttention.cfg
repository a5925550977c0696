\* Eight query heads over two key heads of four columns; all calls and all pasts of up to five positions.
SPECIFICATION Spec
CONSTANTS
  NumQHead = 8
  NumKvHead = 2
  HeadDim = 4
  MaxSqlen = 6
INVARIANTS
  OutputIsAttention
CHECK_DEADLOCK FALSE
