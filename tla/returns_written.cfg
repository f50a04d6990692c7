SPECIFICATION Spec
INVARIANTS
  ReturnsWritten
CONSTANTS
  r1 = r1
  r2 = r2
  Readers = {r1}
  TotalPieces = 2
  DiskWriteQueueSize = 1
  DiskMayFail = FALSE
  MayCancel = FALSE
  OthersRun = FALSE
