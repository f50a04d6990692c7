---------------------------- MODULE PieceManager ----------------------------
(***************************************************************************)
(* The block bookkeeping of one torrent: internal/daemon/pieces.go and the *)
(* selection functions of internal/daemon/strategy.go.                     *)
(*                                                                         *)
(* Every operator that assigns a primed variable is one method of the Go   *)
(* type PieceManager.  Each method holds pm.mu from its first line to its  *)
(* last, so it is one atomic step of the goroutine that calls it; the      *)
(* module Download says which goroutine calls what, and in which order.    *)
(*                                                                         *)
(* A Go map is a total function: the key i of pm.Pieces is present when    *)
(* Pieces[i].exists.  A block's bytes are abstracted to whether they are   *)
(* the bytes that the torrent's SHA1 hash was computed from.               *)
(***************************************************************************)
EXTENDS Integers, FiniteSets

CONSTANTS
  TotalPieces,       \* number of pieces of the torrent
  MaxBlocksPerPiece, \* blocks in a piece of the default length
  LastPieceBlocks    \* blocks in the last piece, which may be shorter

(* A torrent has a piece, and the last piece has between one block and as  *)
(* many as the others: ExtractPieceInfo clamps its length to 1..PieceLength*)
ASSUME PieceManagerAssumption ==
  /\ TotalPieces \in Nat \ {0}
  /\ MaxBlocksPerPiece \in Nat \ {0}
  /\ LastPieceBlocks \in 1..MaxBlocksPerPiece

VARIABLES
  Pieces,        \* pm.Pieces
  PendingBlocks  \* pm.PendingBlocks, a set of encoded block ids

pmVars == <<Pieces, PendingBlocks>>

-----------------------------------------------------------------------------

Piece == 0..TotalPieces - 1

(* The index of a block within a piece.  A peer may name any index in a    *)
(* PIECE message; MaxBlocksPerPiece stands for the ones out of range.      *)
BlockIndex == 0..MaxBlocksPerPiece

(* What the bytes of a block are: never received, right or wrong.          *)
BlockData == {"none", "good", "bad"}

NoBlocks == [b \in BlockIndex |-> "none"]

PieceState == [exists   : BOOLEAN,                   \* key present in pm.Pieces
               freed    : BOOLEAN,                   \* Blocks == nil
               blocks   : [BlockIndex -> BlockData], \* Blocks
               complete : BOOLEAN,                   \* Complete
               verified : BOOLEAN]                   \* Verified

TotalBlocks(i) == IF i = TotalPieces - 1 THEN LastPieceBlocks
                                         ELSE MaxBlocksPerPiece

(* The blocks a piece is made of.                                          *)
OwnBlocks(i) == 0..TotalBlocks(i) - 1

(* pieceIndex*pm.MaxBlocksPerPiece + blockIndex                            *)
BlockID(i, b) == i * MaxBlocksPerPiece + b

Absent == [exists |-> FALSE, freed |-> FALSE, blocks |-> NoBlocks,
           complete |-> FALSE, verified |-> FALSE]

(* The entry that InitializePiece makes.                                   *)
Started == [Absent EXCEPT !.exists = TRUE]

(* The entry that MarkPieceCompleteFromBitfield makes on resume.           *)
FromBitfield == [exists |-> TRUE, freed |-> TRUE, blocks |-> NoBlocks,
                 complete |-> TRUE, verified |-> TRUE]

(* NewPieceManager followed by the resume loop of StartTorrentSession,     *)
(* which marks every piece whose bit is set in the saved bitfield.         *)
PMInit(resumed) ==
  /\ Pieces = [i \in Piece |-> IF i \in resumed THEN FromBitfield ELSE Absent]
  /\ PendingBlocks = {}

-----------------------------------------------------------------------------
(* The blocks present in the map, whatever their bytes.                    *)
Received(i) == {b \in BlockIndex : Pieces[i].blocks[b] # "none"}

(* Faulty variant: the test for a block map that was freed is missing.     *)
AcceptsFreed(i) == Pieces[i].exists

(* AddBlock ignores a piece that was never started or already given back.  *)
Accepts(i) == Pieces[i].exists /\ ~Pieces[i].freed

(* The result of AddBlock: len(piece.Blocks) == piece.TotalBlocks once     *)
(* block b is stored.  It is true again for a block that overwrites one of *)
(* a full piece.                                                           *)
AddBlockCompletes(i, b) ==
  /\ Accepts(i)
  /\ Cardinality(Received(i) \cup {b}) = TotalBlocks(i)

AddBlock(i, b, d) ==
  \/ /\ Accepts(i)
     /\ Pieces' = [Pieces EXCEPT ![i].blocks[b] = d,
                                 ![i].complete = @ \/ AddBlockCompletes(i, b)]
     /\ PendingBlocks' = PendingBlocks \ {BlockID(i, b)}
  \/ /\ ~Accepts(i)
     /\ UNCHANGED pmVars

InitializePiece(i) ==
  /\ Pieces' = IF Pieces[i].exists THEN Pieces
                                   ELSE [Pieces EXCEPT ![i] = Started]
  /\ UNCHANGED PendingBlocks

(* The assembled bytes hash to the torrent's SHA1 value.  The bytes of a   *)
(* piece whose block map was freed are empty, and hash to something else.  *)
HashMatches(i) == ~Pieces[i].freed /\ \A b \in OwnBlocks(i) : Pieces[i].blocks[b] = "good"

(* Faulty variant: the hash is not compared.                               *)
VerifiesUnhashed(i) == Pieces[i].exists /\ Pieces[i].complete

(* The result of VerifyPiece.                                              *)
Verifies(i) == Pieces[i].exists /\ Pieces[i].complete /\ HashMatches(i)

VerifyPiece(i) ==
  /\ Pieces' = [Pieces EXCEPT ![i].verified = @ \/ Verifies(i)]
  /\ UNCHANGED PendingBlocks

RemovePiece(i) ==
  /\ Pieces' = [Pieces EXCEPT ![i] = Absent]
  /\ UNCHANGED PendingBlocks

(* GetPieceData: nothing for a piece that is not complete, otherwise what  *)
(* its blocks hold now; a freed piece yields an empty, non-nil slice.      *)
PieceData(i) == IF ~(Pieces[i].exists /\ Pieces[i].complete) THEN "nil"
                ELSE IF Pieces[i].freed THEN "empty"
                ELSE IF HashMatches(i) THEN "good" ELSE "bad"

ClearPieceData(i) ==
  /\ Pieces' = IF Pieces[i].exists /\ Pieces[i].complete
               THEN [Pieces EXCEPT ![i].freed = TRUE, ![i].blocks = NoBlocks]
               ELSE Pieces
  /\ UNCHANGED PendingBlocks

MarkBlockPending(i, b) ==
  /\ PendingBlocks' = PendingBlocks \cup {BlockID(i, b)}
  /\ UNCHANGED Pieces

UnmarkBlockPending(i, b) ==
  /\ PendingBlocks' = PendingBlocks \ {BlockID(i, b)}
  /\ UNCHANGED Pieces

(* count == pm.TotalPieces: the keys of pm.Pieces are piece indices, so    *)
(* the count of verified entries is TotalPieces when every piece is.       *)
IsComplete == \A i \in Piece : Pieces[i].verified

-----------------------------------------------------------------------------
(* strategy.go.  SelectNextPiece returns the first piece that is not       *)
(* verified and that the peer has; it does not look at the piece's blocks. *)
Wanted(has) == {i \in has : ~Pieces[i].verified}

IsNextPiece(i, has) == i \in Wanted(has) /\ \A j \in Wanted(has) : i <= j

(* The blocks of a piece that GetNextBlockToRequest may return: neither    *)
(* received nor pending.                                                   *)
Requestable(i) ==
  IF Pieces[i].exists /\ ~Pieces[i].complete
  THEN {b \in OwnBlocks(i) : /\ Pieces[i].blocks[b] = "none"
                             /\ BlockID(i, b) \notin PendingBlocks}
  ELSE {}

IsNextBlock(b, i) == b \in Requestable(i) /\ \A c \in Requestable(i) : b <= c

-----------------------------------------------------------------------------
PMTypeOK ==
  /\ Pieces \in [Piece -> PieceState]
  /\ PendingBlocks \subseteq Int

=============================================================================
