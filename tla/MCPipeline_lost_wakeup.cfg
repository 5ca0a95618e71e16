SPECIFICATION FairSpec
CONSTANTS
  Consumers = {c1, c2}
  Files <- OneFileLevel2
  MAXSIZ = 4
  Producer = Producer
  Free = Free
  NoPacket = NoPacket
PROPERTIES
  Termination
