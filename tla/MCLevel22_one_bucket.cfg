SPECIFICATION Spec
CONSTANTS
  Consumers = {c1, c2}
  Payload = {"a", "b"}
  Bucket <- OneBucket
  Free = Free
  Files <- TwoFiles
  MAXSIZ = 2
  MaxFailed = 1
  Content <- Repeating
  Producer = Producer
  NoPacket = NoPacket
CHECK_DEADLOCK FALSE
SYMMETRY ConsumerSymmetry
INVARIANTS
  CountDrifts
  Delivery
  IsolatedLookup
  HitsCounted
