SPECIFICATION Spec
INVARIANTS
  TypeOK
  WgCounts
  NothingDropped
\* a send or a wait that the stopped worker never serves blocks for ever
CHECK_DEADLOCK FALSE
CONSTANTS
  r1 = r1
  r2 = r2
  Readers = {r1, r2}
  TotalPieces = 3
  DiskWriteQueueSize = 1
  DiskMayFail = TRUE
  MayCancel = TRUE
  OthersRun = FALSE
