SPECIFICATION Spec
\* TLC stops at the first claim it refutes: check them one at a time
INVARIANTS
  ScanStartsAll
  \* AllAreComplete
\* PROPERTIES
  \* NoBusyWaiting
CONSTANTS
  t1 = t1
  t2 = t2
  t3 = t3
  NoTorrent = NoTorrent
  Torrents = {t1, t2, t3}
  Shared = {t3}
