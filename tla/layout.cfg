SPECIFICATION Spec
INVARIANTS
  TypeOK
  AssembledWhole
  BytesInPlace
  WrittenIsOnDisk
CONSTANTS
  Paths <- MCFlat
  MaxFileLength = 3
  MaxPieceLength = 4
  MaxBlockSize = 3
  MaxPieces = 4
  WritesMayFail = TRUE
