SPECIFICATION Spec
INVARIANTS
  VerifiedIsSaved
PROPERTIES
  ImplementsAcquisition
  SavedIsQueued
\* a peer may fall silent for ever, and so leave the loops of its session waiting
CHECK_DEADLOCK FALSE
CONSTANTS
  p1 = p1
  p2 = p2
  Peers = {p1}
  TotalPieces = 2
  MaxBlocksPerPiece = 2
  LastPieceBlocks = 1
  Pipeline = 2
  MaxOutstanding = 2
  SentBitfield = {p1}
  Seeders = {}
  Corrupting = {p1}
  Choking = {p1}
  Unreliable = {p1}
  Wild = {p1}
