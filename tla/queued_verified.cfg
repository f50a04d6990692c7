SPECIFICATION Spec
INVARIANTS
  QueuedIsVerified
\* a peer may fall silent for ever, and so leave the loops of its session waiting
CHECK_DEADLOCK FALSE
CONSTANTS
  p1 = p1
  p2 = p2
  Peers = {p1, p2}
  TotalPieces = 1
  MaxBlocksPerPiece = 2
  LastPieceBlocks = 2
  Pipeline = 1
  MaxOutstanding = 1
  SentBitfield = {p1, p2}
  Seeders = {p1, p2}
  Corrupting = {p1, p2}
  Choking = {}
  Unreliable = {}
  Wild = {}
