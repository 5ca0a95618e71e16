SPECIFICATION ReadersSpec
CONSTANTS
  Commands <- OneCommand
  ZeroBytes <- Zeros
  OtherWords <- Words
  HolderSize = 90
  NumBuckets = 4
  BucketOf <- LengthBucket
INVARIANTS
  ReadsThePacket
