SPECIFICATION FairSpec
INVARIANTS
  TypeOK
  WrittenIsSaved
  BoundedLoss
  FileFollowsMemory
PROPERTIES
  Finishes
CONSTANTS
  r1 = r1
  r2 = r2
  Readers = {r1}
  TotalPieces = 4
  DiskWriteQueueSize = 1
  Arguments = {TRUE, FALSE}
  MaxMishaps = 3
