SPECIFICATION Spec
INVARIANTS
  FileFollowsMemory
CONSTANTS
  r1 = r1
  r2 = r2
  Readers = {r1, r2}
  TotalPieces = 2
  DiskWriteQueueSize = 1
  Arguments = {TRUE, FALSE}
  MaxMishaps = 0
