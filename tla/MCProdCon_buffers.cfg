SPECIFICATION ProdConSpec
CONSTANTS
  Producers = {p1, p2}
  Consumers = {k1, k2}
  MAX = 2
  loops = 2
  Free = Free
CHECK_DEADLOCK FALSE
INVARIANTS
  SlotsAccounted
PROPERTIES
  BufferSpec
  WorkIsDone
