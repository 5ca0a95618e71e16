SPECIFICATION FairSpec
CONSTANTS
  Consumers = {c1, c2}
  Files <- TwoFiles
  MAXSIZ = 4
  Producer = Producer
  Free = Free
  NoPacket = NoPacket
PROPERTIES
  ConsumersOutliveProducer
