SPECIFICATION Spec
INVARIANTS
  FilesWhole
CONSTANTS
  Paths <- MCNested
  MaxFileLength = 3
  MaxPieceLength = 4
  MaxBlockSize = 3
  MaxPieces = 3
  WritesMayFail = TRUE
