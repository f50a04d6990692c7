SPECIFICATION Spec
INVARIANTS
  DoneIsWritten
\* a send or a wait that the stopped worker never serves blocks for ever
CHECK_DEADLOCK FALSE
CONSTANTS
  r1 = r1
  r2 = r2
  Readers = {r1, r2}
  TotalPieces = 2
  DiskWriteQueueSize = 1
  DiskMayFail = FALSE
  MayCancel = FALSE
  OthersRun = FALSE
