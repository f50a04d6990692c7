SPECIFICATION HealthySpec
PROPERTIES
  ImplementsStorage
  EndsWritten
CONSTANTS
  r1 = r1
  r2 = r2
  Readers = {r1}
  TotalPieces = 4
  DiskWriteQueueSize = 2
  DiskMayFail = TRUE
  MayCancel = FALSE
  OthersRun = TRUE
