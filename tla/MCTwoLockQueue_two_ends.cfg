SPECIFICATION QueueSpec
CONSTANTS
  Pushers = {a1, a2}
  Poppers = {b1, b2}
  Item = {x, y, z, w}
  Node = {n1, n2, n3, n4}
  NULL = NULL
  Unlocked = Unlocked
  NoItem = NoItem
SYMMETRY QueueSymmetry
INVARIANTS
  NoUseAfterFree
  NoLeak
  OneLost
PROPERTIES
  FifoSpec
