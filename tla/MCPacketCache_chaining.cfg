SPECIFICATION CacheSpec
CONSTANTS
  Payload = {"a", "b", "c", "d"}
  Hash <- SmallHash
  Length <- Lengths
  Agree <- Equality
  NumBuckets = 3
  NodeSize = 10
  CacheLimit = 32
  Offsets = {0, 1, 32}
  MaxLookups = 8
PROPERTIES
  EntriesStay
