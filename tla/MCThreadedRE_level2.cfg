SPECIFICATION RESpec
CONSTANTS
  Consumers = {c1, c2, c3}
  Files <- Windows2
  MAXSIZ = 3
  Producer = Producer
  Free = Free
  NoPacket = NoPacket
  Payload = {"a", "b", "c", "d"}
  Content <- Content2
  Hash <- Hash2
  Length <- Lengths
  Agree <- Equality
  NumBuckets = 2
  NodeSize = 10
  CacheLimit = 21
  Offsets = {0}
  MaxLookups = 4
SYMMETRY ConsumerSymmetry
INVARIANTS
  Inv
  Conservation
  NoStrandedWork
  FilesDone
PROPERTIES
  ImplementsLevel2
