SPECIFICATION HoraSpec
CONSTANTS
  Consumers = {c1, c2}
  Producer = Producer
  Free = Free
  NoPacket = 0
  MAXSIZ = 2
  Payloads = 4
  Below = 2
CHECK_DEADLOCK FALSE
INVARIANTS
  ExactUntilFull
PROPERTIES
  StillFlows
  SettlesUnlessFull
