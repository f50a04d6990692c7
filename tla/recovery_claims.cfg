SPECIFICATION Spec
\* TLC stops at the first claim it refutes: check them one at a time
INVARIANTS
  TrustedIsOnDisk
  \* StoredIsStarted
\* PROPERTIES, with MaxMishaps = 0
  \* ReachesArgument
CONSTANTS
  r1 = r1
  r2 = r2
  Readers = {r1}
  TotalPieces = 2
  DiskWriteQueueSize = 1
  Arguments = {TRUE, FALSE}
  MaxMishaps = 1
