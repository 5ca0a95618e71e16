SPECIFICATION ReadersSpec
CONSTANTS
  Commands <- CommandSet
  ZeroBytes <- Zeros
  OtherWords <- Words
  HolderSize = 90
  NumBuckets = 4
  BucketOf <- LengthBucket
INVARIANTS
  FilesAsNamed
  ReadsInStep
  DuplicatesUpToZero
  WindowsFromFile
  RedundantInSameSecond
PROPERTIES
  LoopsEnd
