------------------------------- MODULE Layout -------------------------------
(***************************************************************************)
(* Where the bytes of a torrent go: ExtractPieceInfo cuts the content into *)
(* pieces, InitializePiece and GetNextBlockToRequest cut a piece into      *)
(* blocks, GetPieceData puts the blocks together, and WritePiece spreads   *)
(* the piece over the files that extractFileStructure found.               *)
(*                                                                         *)
(* A byte is its offset in the content, so that every byte is different.   *)
(* Peers are honest here: Download has what happens when they are not.     *)
(***************************************************************************)
EXTENDS Integers, Sequences, SequencesExt

CONSTANTS
  Paths,           \* the path lists of info.files, a sequence of sequences
  MaxFileLength,   \* bound on the length of a file
  MaxPieceLength,  \* bound on info."piece length"
  MaxBlockSize,    \* bound on Config.BlockSize
  MaxPieces,       \* bound on the number of pieces
  WritesMayFail    \* MkdirAll, OpenFile or WriteAt may return an error

ASSUME LayoutAssumption ==
  /\ Paths \in Seq(Seq(STRING)) /\ Paths # <<>> /\ <<>> \notin ToSet(Paths)
  /\ MaxFileLength \in Nat \ {0}
  /\ MaxPieceLength \in Nat \ {0}
  /\ MaxBlockSize \in Nat \ {0}
  /\ MaxPieces \in Nat \ {0}
  /\ WritesMayFail \in BOOLEAN

VARIABLES
  lengths,      \* the length of every file
  PieceLength,  \* the piece length of the torrent
  BlockSize,    \* the configured size of a request
  Blocks,       \* per piece, the blocks received
  disk,         \* the byte at a place of a path, or a hole
  writing,      \* the loop of WritePiece
  written,      \* pieces for which WritePiece returned nil
  failed        \* pieces for which it returned an error

torrentVars == <<lengths, PieceLength, BlockSize>>
vars == <<torrentVars, Blocks, disk, writing, written, failed>>

-----------------------------------------------------------------------------
(* The torrent.                                                            *)

FileIndex == 1..Len(Paths)

Least(a, b) == IF a <= b THEN a ELSE b
Greatest(a, b) == IF a >= b THEN a ELSE b

CeilDiv(a, b) == (a + b - 1) \div b

(* The sum of the lengths of the first k files.                            *)
FilesLength[k \in 0..Len(Paths)] == IF k = 0 THEN 0 ELSE FilesLength[k - 1] + lengths[k]

TotalLength == FilesLength[Len(Paths)]

(* Where file k is in the content.                                         *)
FileStart(k) == FilesLength[k - 1]

(* One SHA1 value per piece, which is what the torrent's author counts.    *)
TotalPieces == CeilDiv(TotalLength, PieceLength)

Piece == 0..TotalPieces - 1

(* ExtractPieceInfo: what remains, or the default when that makes no sense.*)
LastPieceLength ==
  LET rest == TotalLength - (TotalPieces - 1) * PieceLength IN
  IF rest <= 0 \/ rest > PieceLength THEN PieceLength ELSE rest

LengthOf(i) == IF i = TotalPieces - 1 THEN LastPieceLength ELSE PieceLength

TotalBlocks(i) == CeilDiv(LengthOf(i), BlockSize)

BlockIndex == 0..MaxPieceLength - 1

Content(from, count) == [n \in 1..count |-> from + n - 1]

(* extractFileStructure: the first name of the path list, below the base   *)
(* directory.                                                              *)
FilePath(k) == Head(Paths[k])

Place == {FilePath(k) : k \in FileIndex} \X (0..MaxFileLength - 1)
Hole == -1

-----------------------------------------------------------------------------
Idle == [piece |-> 0, file |-> 0, data |-> <<>>, remaining |-> 0, currentFileOffset |-> 0]

(* Every torrent within the bounds; an empty one has no piece.             *)
Init ==
  /\ lengths \in [FileIndex -> 0..MaxFileLength]
  /\ PieceLength \in 1..MaxPieceLength
  /\ BlockSize \in 1..MaxBlockSize
  /\ TotalPieces \in 1..MaxPieces
  /\ Blocks = [i \in Piece |-> [b \in BlockIndex |-> <<>>]]
  /\ disk = [pl \in Place |-> Hole]
  /\ writing = Idle
  /\ written = {}
  /\ failed = {}

-----------------------------------------------------------------------------
(* GetNextBlockToRequest: the first block not there yet, its offset in the *)
(* piece, and its length.                                                  *)
Missing(i) == {b \in 0..TotalBlocks(i) - 1 : Blocks[i][b] = <<>>}

IsNextBlock(b, i) == b \in Missing(i) /\ \A c \in Missing(i) : b <= c

Begin(b) == b * BlockSize

(* Faulty variant: the last block is asked for in full.                    *)
BlockLengthFull(i, b) == BlockSize

BlockLength(i, b) ==
  IF Begin(b) + BlockSize > LengthOf(i) THEN LengthOf(i) - Begin(b) ELSE BlockSize

(* The peer answers with the bytes at begin, and PeerReadLoop finds the    *)
(* index of the block from begin again.                                    *)
FetchBlock(i) ==
  /\ \E b \in BlockIndex :
       /\ IsNextBlock(b, i)
       /\ Blocks' = [Blocks EXCEPT ![i][Begin(b) \div BlockSize] =
                       Content(i * PieceLength + Begin(b), BlockLength(i, b))]
  /\ UNCHANGED <<torrentVars, disk, writing, written, failed>>

(* GetPieceData: the blocks in the order of their indices.                 *)
PieceData(i) == FlattenSeq([n \in 1..TotalBlocks(i) |-> Blocks[i][n - 1]])

-----------------------------------------------------------------------------
(* WritePiece, one iteration of its loop over the files at a time.         *)

StartWrite(i) ==
  /\ writing = Idle
  /\ Missing(i) = {}
  /\ i \notin written \cup failed
  /\ writing' = [piece |-> i, file |-> 1, data |-> PieceData(i),
                 remaining |-> Len(PieceData(i)), currentFileOffset |-> 0]
  /\ UNCHANGED <<torrentVars, Blocks, disk, written, failed>>

PieceOffset == writing.piece * PieceLength
PieceEnd == PieceOffset + Len(writing.data)

fileStart == writing.currentFileOffset
fileEnd == fileStart + lengths[writing.file]

(* Faulty variant: a piece that began in an earlier file is written from   *)
(* its own beginning.                                                      *)
WriteStartOfPiece == PieceOffset

(* Faulty variant: the place in the file is the place in the content.      *)
FileOffsetAbsolute == Greatest(PieceOffset, fileStart)

WriteStart == Greatest(PieceOffset, fileStart)
WriteEnd == Least(PieceEnd, fileEnd)
FileWriteOffset == WriteStart - fileStart
BytesToWrite == WriteEnd - WriteStart

(* Faulty variant: a piece goes only to the file it starts in.             *)
StartsElsewhere == PieceOffset < fileStart \/ PieceOffset >= fileEnd

(* The piece does not touch the file, or shares no byte with it.           *)
Untouched == PieceEnd <= fileStart \/ PieceOffset >= fileEnd \/ BytesToWrite = 0

Chunk == SubSeq(writing.data, WriteStart - PieceOffset + 1, WriteEnd - PieceOffset)

InLoop == writing # Idle /\ writing.file \in FileIndex

SkipFile ==
  /\ InLoop
  /\ Untouched
  /\ writing' = [writing EXCEPT !.file = @ + 1, !.currentFileOffset = fileEnd]
  /\ UNCHANGED <<torrentVars, Blocks, disk, written, failed>>

WriteChunk ==
  /\ InLoop
  /\ ~Untouched
  /\ disk' = [pl \in Place |->
                IF /\ pl[1] = FilePath(writing.file)
                   /\ pl[2] - FileWriteOffset + 1 \in 1..Len(Chunk)
                THEN Chunk[pl[2] - FileWriteOffset + 1]
                ELSE disk[pl]]
  /\ writing' = [writing EXCEPT !.remaining = @ - BytesToWrite,
                                !.currentFileOffset = fileEnd,
                                !.file = IF writing.remaining = BytesToWrite
                                         THEN Len(Paths) + 1 ELSE @ + 1]
  /\ UNCHANGED <<torrentVars, Blocks, written, failed>>

(* An error ends WritePiece and leaves what was written before.            *)
FailChunk ==
  /\ WritesMayFail
  /\ InLoop
  /\ ~Untouched
  /\ failed' = failed \cup {writing.piece}
  /\ writing' = Idle
  /\ UNCHANGED <<torrentVars, Blocks, disk, written>>

EndWrite ==
  /\ writing # Idle
  /\ writing.file \notin FileIndex
  /\ written' = written \cup {writing.piece}
  /\ writing' = Idle
  /\ UNCHANGED <<torrentVars, Blocks, disk, failed>>

AllTried ==
  /\ written \cup failed = Piece
  /\ UNCHANGED vars

Next ==
  \/ \E i \in Piece : FetchBlock(i) \/ StartWrite(i)
  \/ SkipFile \/ WriteChunk \/ FailChunk \/ EndWrite
  \/ AllTried

Spec == Init /\ [][Next]_vars

-----------------------------------------------------------------------------
Byte == 0..Len(Paths) * MaxFileLength - 1

(* Type correctness: in particular dataRemaining never drops below zero.   *)
TypeOK ==
  /\ lengths \in [FileIndex -> 0..MaxFileLength]
  /\ PieceLength \in 1..MaxPieceLength
  /\ BlockSize \in 1..MaxBlockSize
  /\ \A i \in Piece : Blocks[i] \in [BlockIndex -> Seq(Byte)]
  /\ disk \in [Place -> Byte \cup {Hole}]
  /\ writing.piece \in Piece
  /\ writing.file \in 0..Len(Paths) + 1
  /\ writing.remaining \in 0..PieceLength
  /\ writing.data \in Seq(Byte)
  /\ writing.currentFileOffset \in 0..TotalLength
  /\ written \cup failed \subseteq Piece

(* The blocks asked for cover a piece without gap, overlap or excess, the  *)
(* short last block of the short last piece included: assembled, they are  *)
(* the bytes its SHA1 value was made from (strategy.go:63-72,              *)
(* manager.go:320, pieces.go:191-195).                                     *)
AssembledWhole ==
  \A i \in Piece : Missing(i) = {} =>
    PieceData(i) = Content(i * PieceLength, Least(PieceLength, TotalLength - i * PieceLength))

(* Whatever is on disk is the right byte of the right file, also while a   *)
(* piece that spans several files is half written, or its write failed     *)
(* (disk.go:228-249).                                                      *)
BytesInPlace ==
  \A k \in FileIndex : \A o \in 0..lengths[k] - 1 :
    disk[<<FilePath(k), o>>] \in {Hole, FileStart(k) + o}

(* WritePiece returns nil only for a piece all of whose bytes are on disk, *)
(* in whichever files they belong to: the loop leaves no file out.         *)
WrittenIsOnDisk ==
  \A i \in written : \A k \in FileIndex : \A o \in 0..lengths[k] - 1 :
    (FileStart(k) + o) \div PieceLength = i => disk[<<FilePath(k), o>>] # Hole

-----------------------------------------------------------------------------
(* disk.go:21: FileEntry.Path is the "Full path including outputDir and    *)
(* base directory", and disk.go:190: WritePiece writes "to disk at the     *)
(* correct offset".  So a torrent whose pieces are all written is on disk. *)
FilesWhole ==
  written = Piece =>
    \A k \in FileIndex : \A o \in 0..lengths[k] - 1 :
      disk[<<FilePath(k), o>>] = FileStart(k) + o

=============================================================================
