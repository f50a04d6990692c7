SPECIFICATION Spec
PROPERTIES
  TriesNextPiece
CONSTANTS
  p1 = p1
  p2 = p2
  Peers = {p1}
  TotalPieces = 2
  MaxBlocksPerPiece = 2
  LastPieceBlocks = 2
  Pipeline = 2
  MaxOutstanding = 2
  SentBitfield = {p1}
  Seeders = {p1}
  Corrupting = {}
  Choking = {}
  Unreliable = {}
  Wild = {}
