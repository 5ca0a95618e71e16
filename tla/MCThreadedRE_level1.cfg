SPECIFICATION REFairSpec
CONSTANTS
  Consumers = {c1, c2, c3}
  Files <- Payloads1
  MAXSIZ = 2
  Producer = Producer
  Free = Free
  NoPacket = NoPacket
  Payload = {"a", "b"}
  Content <- Content1
  Hash <- Hash1
  Length <- Lengths
  Agree <- Equality
  NumBuckets = 2
  NodeSize = 10
  CacheLimit = 21
  Offsets = {0}
  MaxLookups = 4
INVARIANTS
  DuplicatesWithinTotal
  ReportIsComplete
  ReportIsExact
PROPERTIES
  FlowSpec
  
  ImplementsLevel1
