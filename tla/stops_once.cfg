SPECIFICATION Spec
INVARIANTS
  StopsOnce
CONSTANTS
  r1 = r1
  r2 = r2
  Readers = {r1}
  TotalPieces = 3
  DiskWriteQueueSize = 1
  DiskMayFail = TRUE
  MayCancel = FALSE
  OthersRun = TRUE
