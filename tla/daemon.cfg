SPECIFICATION FairSpec
INVARIANTS
  TypeOK
  ReturnsComplete
  PollsOnlyAtEnd
PROPERTIES
  Returns
CONSTANTS
  t1 = t1
  t2 = t2
  t3 = t3
  NoTorrent = NoTorrent
  Torrents = {t1, t2, t3}
  Shared = {t3}
