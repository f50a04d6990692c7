SPECIFICATION FairSpec
PROPERTIES
  Completes
CONSTANTS
  p1 = p1
  p2 = p2
  Peers = {p1, p2}
  TotalPieces = 2
  MaxBlocksPerPiece = 2
  LastPieceBlocks = 1
  Pipeline = 2
  MaxOutstanding = 2
  SentBitfield = {p1}
  Seeders = {p1}
  Corrupting = {}
  Choking = {}
  Unreliable = {p2}
  Wild = {}
