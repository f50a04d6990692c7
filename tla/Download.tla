------------------------------ MODULE Download ------------------------------
(***************************************************************************)
(* The goroutines that download one torrent: for every connected peer a    *)
(* PeerReadLoop and a PeerDownloadLoop (internal/daemon/manager.go), which *)
(* share the PieceManager, and the goroutine that Complete runs in.        *)
(*                                                                         *)
(* A program counter per goroutine names the place between two of its      *)
(* atomic steps: a method that holds a mutex, a channel operation, or a    *)
(* read or write of the connection.  The remote peers and the network are  *)
(* the environment; the sets of peers among the constants say what each    *)
(* peer may do wrong.                                                      *)
(***************************************************************************)
EXTENDS PieceManager, SequencesExt

CONSTANTS
  Peers,          \* the connected peers: each has both of its loops running
  Pipeline,       \* Config.RequestPipelineSize, the capacity of RequestChan
  MaxOutstanding, \* requests the transport holds before a write blocks
  SentBitfield,   \* peers whose first message was a bitfield
  Seeders,        \* peers whose bitfield named every piece
  Corrupting,     \* peers that may send wrong bytes
  Choking,        \* peers that may choke, and then drop what was asked of them
  Unreliable,     \* peers whose connection may fail or fall silent
  Wild            \* peers that may send a block nobody asked for

ASSUME DownloadAssumption ==
  /\ Pipeline \in Nat \ {0}
  /\ MaxOutstanding \in Nat \ {0}
  /\ Seeders \subseteq SentBitfield

VARIABLES
  RequestChan,    \* per peer, the number of tokens in its RequestChan
  PeerChoking,    \* per peer, whether it chokes this client
  Bitfield,       \* per peer, the pieces it is known to have
  requests,       \* per peer, the requests written to it and not answered
  dl,             \* per peer, the state of its PeerDownloadLoop
  rd,             \* per peer, the state of its PeerReadLoop
  Connections,    \* the peers in ts.Connections
  bits,           \* the bits set in ts.TorrentFile.Bitfield
  loaded,         \* per peer, the bitfield byte its reader is updating
  queued,         \* what was handed to DiskManager.QueueWrite
  completeCalled, \* go ts.Complete() was executed
  cancelled       \* ctx is done

peerVars == <<RequestChan, PeerChoking, Bitfield, requests, Connections>>
sessionVars == <<bits, loaded, queued, completeCalled, cancelled>>
vars == <<pmVars, peerVars, dl, rd, sessionVars>>

-----------------------------------------------------------------------------
Request == Piece \X BlockIndex

DLState == [pc : {"start", "top", "acquire", "select", "none", "check", "idle",
                  "init", "next", "skip", "mark", "send", "failed", "done"},
            piece : Piece, block : BlockIndex]

RDState == [pc : {"read", "add", "verify", "persist", "store", "queue",
                  "clear", "check", "remove", "dead"},
            piece : Piece, block : BlockIndex, data : BlockData]

(* A loop that holds no piece; the fields it does not use are zero.        *)
DLAt(loc) == [pc |-> loc, piece |-> 0, block |-> 0]
RDAt(loc, i) == [pc |-> loc, piece |-> i, block |-> 0, data |-> "none"]

Init ==
  \E resumed \in (SUBSET Piece) \ {Piece} :
    /\ PMInit(resumed)
    /\ bits = resumed
    /\ loaded = [p \in Peers |-> {}]
    /\ RequestChan = [p \in Peers |-> 0]
    /\ PeerChoking = [p \in Peers |-> TRUE]
    /\ Bitfield = [p \in Peers |-> IF p \in Seeders THEN Piece ELSE {}]
    /\ requests = [p \in Peers |-> <<>>]
    /\ dl = [p \in Peers |-> DLAt("start")]
    /\ rd = [p \in Peers |-> RDAt("read", 0)]
    /\ Connections = Peers
    /\ queued = {}
    /\ completeCalled = FALSE
    /\ cancelled = FALSE

-----------------------------------------------------------------------------
(* PeerDownloadLoop.                                                       *)

(* A loop moves on and nothing but the loop changes.                       *)
DLStep(p, from, to) ==
  /\ dl[p].pc = from
  /\ dl' = [dl EXCEPT ![p] = to]
  /\ UNCHANGED <<rd, sessionVars>>

(* SetStatus(StatusFailed) and RemoveConnection(peer.ConnectionAddress).   *)
Disconnect(p) == Connections' = Connections \ {p}

SendInterested(p) ==
  /\ DLStep(p, "start", DLAt("top"))
  /\ UNCHANGED <<pmVars, peerVars>>

InterestedFails(p) ==
  /\ p \in Unreliable
  /\ DLStep(p, "start", DLAt("done"))
  /\ Disconnect(p)
  /\ UNCHANGED <<pmVars, RequestChan, PeerChoking, Bitfield, requests>>

(* A choked loop waits for the next tick and comes back here.              *)
FindUnchoked(p) ==
  /\ ~PeerChoking[p]
  /\ DLStep(p, "top", DLAt("acquire"))
  /\ UNCHANGED <<pmVars, peerVars>>

(* Faulty variant: the channel is made one slot too large.                 *)
AcquireSlotPastCapacity(p) ==
  /\ RequestChan[p] <= Pipeline
  /\ DLStep(p, "acquire", DLAt("select"))
  /\ RequestChan' = [RequestChan EXCEPT ![p] = @ + 1]
  /\ UNCHANGED <<pmVars, PeerChoking, Bitfield, requests, Connections>>

(* peer.RequestChan <- struct{}{}                                          *)
AcquireSlot(p) ==
  /\ RequestChan[p] < Pipeline
  /\ DLStep(p, "acquire", DLAt("select"))
  /\ RequestChan' = [RequestChan EXCEPT ![p] = @ + 1]
  /\ UNCHANGED <<pmVars, PeerChoking, Bitfield, requests, Connections>>

(* The three places where the loop waits on ctx.Done().                    *)
StopDownloading(p) ==
  /\ cancelled
  /\ \/ dl[p].pc = "top" /\ PeerChoking[p]
     \/ dl[p].pc \in {"acquire", "idle"}
  /\ dl' = [dl EXCEPT ![p] = DLAt("done")]
  /\ UNCHANGED <<pmVars, peerVars, rd, sessionVars>>

Select(p) ==
  /\ \/ \E i \in Piece : /\ IsNextPiece(i, Bitfield[p])
                         /\ DLStep(p, "select", [DLAt("init") EXCEPT !.piece = i])
     \/ /\ Wanted(Bitfield[p]) = {}
        /\ DLStep(p, "select", DLAt("none"))
  /\ UNCHANGED <<pmVars, peerVars>>

(* <-peer.RequestChan blocks while the channel is empty.                   *)
ReleaseSlot(p, from, to) ==
  /\ RequestChan[p] > 0
  /\ DLStep(p, from, DLAt(to))
  /\ RequestChan' = [RequestChan EXCEPT ![p] = @ - 1]
  /\ UNCHANGED <<pmVars, PeerChoking, Bitfield, requests>>

ReleaseWithoutPiece(p) == ReleaseSlot(p, "none", "check") /\ UNCHANGED Connections

CheckComplete(p) ==
  /\ DLStep(p, "check", DLAt(IF IsComplete THEN "done" ELSE "idle"))
  /\ UNCHANGED <<pmVars, peerVars>>

Tick(p) ==
  /\ DLStep(p, "idle", DLAt("top"))
  /\ UNCHANGED <<pmVars, peerVars>>

Initialize(p) ==
  /\ DLStep(p, "init", [dl[p] EXCEPT !.pc = "next"])
  /\ InitializePiece(dl[p].piece)
  /\ UNCHANGED peerVars

NextBlock(p) ==
  /\ \/ \E b \in BlockIndex :
          /\ IsNextBlock(b, dl[p].piece)
          /\ DLStep(p, "next", [dl[p] EXCEPT !.pc = "mark", !.block = b])
     \/ /\ Requestable(dl[p].piece) = {}
        /\ DLStep(p, "next", DLAt("skip"))
  /\ UNCHANGED <<pmVars, peerVars>>

ReleaseWithoutBlock(p) == ReleaseSlot(p, "skip", "top") /\ UNCHANGED Connections

MarkPending(p) ==
  /\ DLStep(p, "mark", [dl[p] EXCEPT !.pc = "send"])
  /\ MarkBlockPending(dl[p].piece, dl[p].block)
  /\ UNCHANGED peerVars

(* Faulty variant: the slot is given back when the request is sent, and    *)
(* again when its answer arrives.                                          *)
SendAndRelease(p) ==
  /\ Len(requests[p]) < MaxOutstanding
  /\ DLStep(p, "send", DLAt("top"))
  /\ requests' = [requests EXCEPT ![p] = Append(@, <<dl[p].piece, dl[p].block>>)]
  /\ RequestChan' = [RequestChan EXCEPT ![p] = @ - 1]
  /\ UNCHANGED <<pmVars, PeerChoking, Bitfield, Connections>>

SendRequest(p) ==
  /\ Len(requests[p]) < MaxOutstanding
  /\ DLStep(p, "send", DLAt("top"))
  /\ requests' = [requests EXCEPT ![p] = Append(@, <<dl[p].piece, dl[p].block>>)]
  /\ UNCHANGED <<pmVars, RequestChan, PeerChoking, Bitfield, Connections>>

SendFails(p) ==
  /\ p \in Unreliable
  /\ DLStep(p, "send", DLAt("failed"))
  /\ UnmarkBlockPending(dl[p].piece, dl[p].block)
  /\ UNCHANGED peerVars

ReleaseAfterFailure(p) == ReleaseSlot(p, "failed", "done") /\ Disconnect(p)

DownloadLoop(p) ==
  \/ SendInterested(p) \/ FindUnchoked(p) \/ AcquireSlot(p) \/ StopDownloading(p)
  \/ Select(p) \/ ReleaseWithoutPiece(p) \/ CheckComplete(p) \/ Tick(p)
  \/ Initialize(p) \/ NextBlock(p) \/ ReleaseWithoutBlock(p) \/ MarkPending(p)
  \/ SendRequest(p) \/ ReleaseAfterFailure(p)

-----------------------------------------------------------------------------
(* PeerReadLoop.                                                           *)

RDStep(p, from, to) ==
  /\ rd[p].pc = from
  /\ rd' = [rd EXCEPT ![p] = to]
  /\ UNCHANGED <<dl, completeCalled, cancelled>>

(* MsgChoke and MsgUnchoke.  A peer that chokes may drop the requests it   *)
(* holds; nothing in the loop takes them back.                             *)
ReceiveChoke(p) ==
  /\ p \in Choking
  /\ RDStep(p, "read", rd[p])
  /\ PeerChoking' = [PeerChoking EXCEPT ![p] = TRUE]
  /\ \/ UNCHANGED requests
     \/ requests' = [requests EXCEPT ![p] = <<>>]
  /\ UNCHANGED <<pmVars, RequestChan, Bitfield, Connections, bits, loaded, queued>>

ReceiveUnchoke(p) ==
  /\ PeerChoking[p]
  /\ RDStep(p, "read", rd[p])
  /\ PeerChoking' = [PeerChoking EXCEPT ![p] = FALSE]
  /\ UNCHANGED <<pmVars, RequestChan, Bitfield, requests, Connections, bits, loaded, queued>>

(* MsgHave.  SetBitInBitfield does nothing while there is no bitfield.     *)
ReceiveHave(p, i) ==
  /\ i \notin Bitfield[p]
  /\ RDStep(p, "read", rd[p])
  /\ Bitfield' = IF p \in SentBitfield THEN [Bitfield EXCEPT ![p] = @ \cup {i}]
                                       ELSE Bitfield
  /\ UNCHANGED <<pmVars, RequestChan, PeerChoking, requests, Connections, bits, loaded, queued>>

(* Faulty variant: an answer frees no slot.                                *)
DrainNothing(p) == UNCHANGED RequestChan

(* MsgPiece, up to AddBlock: the message frees a slot if one is taken.     *)
DrainSlot(p) ==
  RequestChan' = [RequestChan EXCEPT ![p] = IF @ > 0 THEN @ - 1 ELSE 0]

ReceiveAnswer(p, k, d) ==
  /\ d = "good" \/ p \in Corrupting
  /\ RDStep(p, "read", [pc |-> "add", piece |-> requests[p][k][1],
                        block |-> requests[p][k][2], data |-> d])
  /\ DrainSlot(p)
  /\ requests' = [requests EXCEPT ![p] = RemoveAt(@, k)]
  /\ UNCHANGED <<pmVars, PeerChoking, Bitfield, Connections, bits, loaded, queued>>

ReceiveUnasked(p, i, b, d) ==
  /\ p \in Wild
  /\ RDStep(p, "read", [pc |-> "add", piece |-> i, block |-> b, data |-> d])
  /\ DrainSlot(p)
  /\ UNCHANGED <<pmVars, PeerChoking, Bitfield, requests, Connections, bits, loaded, queued>>

StoreBlock(p) ==
  /\ RDStep(p, "add", IF AddBlockCompletes(rd[p].piece, rd[p].block)
                      THEN RDAt("verify", rd[p].piece) ELSE RDAt("read", 0))
  /\ AddBlock(rd[p].piece, rd[p].block, rd[p].data)
  /\ UNCHANGED <<peerVars, bits, loaded, queued>>

Verify(p) ==
  /\ RDStep(p, "verify", RDAt(IF Verifies(rd[p].piece) THEN "persist" ELSE "remove",
                              rd[p].piece))
  /\ VerifyPiece(rd[p].piece)
  /\ UNCHANGED <<peerVars, bits, loaded, queued>>

(* MarkPieceCompleteAndPersist.  No lock is held: the byte of the bitfield *)
(* is loaded, or a bitfield made when there is none, and stored back with  *)
(* the piece's bit set.  The pieces of the model share one byte.  A failed *)
(* save of the file is logged and ignored.                                 *)
LoadBits(p) ==
  /\ RDStep(p, "persist", RDAt("store", rd[p].piece))
  /\ loaded' = [loaded EXCEPT ![p] = bits]
  /\ UNCHANGED <<pmVars, peerVars, bits, queued>>

(* Faulty variant: the bitfield is made afresh for every piece.            *)
StoreBitsAfresh(p) ==
  /\ RDStep(p, "store", RDAt("queue", rd[p].piece))
  /\ bits' = {rd[p].piece}
  /\ loaded' = [loaded EXCEPT ![p] = {}]
  /\ UNCHANGED <<pmVars, peerVars, queued>>

StoreBits(p) ==
  /\ RDStep(p, "store", RDAt("queue", rd[p].piece))
  /\ bits' = loaded[p] \cup {rd[p].piece}
  /\ loaded' = [loaded EXCEPT ![p] = {}]
  /\ UNCHANGED <<pmVars, peerVars, queued>>

(* GetPieceData, and QueueWrite unless it returned nil.                    *)
QueuePiece(p) ==
  LET i == rd[p].piece IN
  /\ \/ /\ PieceData(i) # "nil"
        /\ RDStep(p, "queue", RDAt("clear", i))
        /\ queued' = queued \cup {<<i, PieceData(i)>>}
     \/ /\ PieceData(i) = "nil"
        /\ RDStep(p, "queue", RDAt("check", i))
        /\ UNCHANGED queued
  /\ UNCHANGED <<pmVars, peerVars, bits, loaded>>

ClearData(p) ==
  /\ RDStep(p, "clear", RDAt("check", rd[p].piece))
  /\ ClearPieceData(rd[p].piece)
  /\ UNCHANGED <<peerVars, bits, loaded, queued>>

(* Faulty variant: the piece with the last index is taken to be the last   *)
(* one to arrive.                                                          *)
CheckLastIndex(p) ==
  /\ rd[p].pc = "check"
  /\ rd' = [rd EXCEPT ![p] = RDAt("read", 0)]
  /\ completeCalled' = (completeCalled \/ (rd[p].piece = TotalPieces - 1 /\ IsComplete))
  /\ UNCHANGED <<pmVars, peerVars, dl, bits, loaded, queued, cancelled>>

(* The last reader to see every piece verified starts Complete.            *)
CheckLast(p) ==
  /\ rd[p].pc = "check"
  /\ rd' = [rd EXCEPT ![p] = RDAt("read", 0)]
  /\ completeCalled' = (completeCalled \/ IsComplete)
  /\ UNCHANGED <<pmVars, peerVars, dl, bits, loaded, queued, cancelled>>

(* Faulty variant: a piece that failed verification is kept.               *)
RemoveNothing(p) ==
  /\ RDStep(p, "remove", RDAt("read", 0))
  /\ UNCHANGED <<pmVars, peerVars, bits, loaded, queued>>

RemoveFailed(p) ==
  /\ RDStep(p, "remove", RDAt("read", 0))
  /\ RemovePiece(rd[p].piece)
  /\ UNCHANGED <<peerVars, bits, loaded, queued>>

(* ReadMessage fails: the connection broke, the read deadline passed, or   *)
(* the session ended.  A loop that ends by itself drops its connection.    *)
ReadFails(p) ==
  /\ p \in Unreliable \/ cancelled
  /\ RDStep(p, "read", RDAt("dead", 0))
  /\ IF cancelled THEN UNCHANGED Connections ELSE Disconnect(p)
  /\ UNCHANGED <<pmVars, RequestChan, PeerChoking, Bitfield, requests, bits, loaded, queued>>

(* What a reader does with a message it has read: its own steps.           *)
HandleMessage(p) ==
  \/ StoreBlock(p) \/ Verify(p) \/ LoadBits(p) \/ StoreBits(p)
  \/ QueuePiece(p) \/ ClearData(p) \/ CheckLast(p) \/ RemoveFailed(p)

(* What the peer or the network decides.                                   *)
Receive(p) ==
  \/ ReceiveChoke(p) \/ ReceiveUnchoke(p)
  \/ \E i \in Piece : ReceiveHave(p, i)
  \/ \E k \in 1..Len(requests[p]), d \in {"good", "bad"} : ReceiveAnswer(p, k, d)
  \/ \E i \in Piece, b \in BlockIndex, d \in {"good", "bad"} : ReceiveUnasked(p, i, b, d)

-----------------------------------------------------------------------------
(* Complete, first step: StopPeerLoops cancels the context.                *)
Complete ==
  /\ completeCalled
  /\ ~cancelled
  /\ cancelled' = TRUE
  /\ UNCHANGED <<pmVars, peerVars, dl, rd, bits, loaded, queued, completeCalled>>

(* Every loop of the session has ended.                                    *)
Finished ==
  /\ \A p \in Peers : dl[p].pc = "done" /\ rd[p].pc = "dead"
  /\ UNCHANGED vars

Next ==
  \/ \E p \in Peers : \/ DownloadLoop(p) \/ InterestedFails(p) \/ SendFails(p)
                      \/ HandleMessage(p) \/ Receive(p) \/ ReadFails(p)
  \/ Complete
  \/ Finished

Spec == Init /\ [][Next]_vars

-----------------------------------------------------------------------------
(* What an honest, reachable peer does: it answers a request with the      *)
(* right bytes.                                                            *)
Answer(p) == \E k \in 1..Len(requests[p]) : ReceiveAnswer(p, k, "good")

(* Every goroutine keeps running; peers answer and unchoke; a read ends at *)
(* its deadline, PeerReadTimeout, once nothing more is to come.            *)
Fairness ==
  /\ \A p \in Peers : /\ WF_vars(DownloadLoop(p))
                      /\ WF_vars(HandleMessage(p))
                      /\ WF_vars(Answer(p))
                      /\ WF_vars(ReceiveUnchoke(p))
                      /\ WF_vars(cancelled /\ ReadFails(p))
  /\ WF_vars(Complete)

FairSpec == Spec /\ Fairness

-----------------------------------------------------------------------------
(* Type correctness: in particular a RequestChan never holds more tokens   *)
(* than its capacity, and there are never more requests than Pipeline      *)
(* waiting for an answer of a peer that sends nothing unasked.             *)
TypeOK ==
  /\ PMTypeOK
  /\ RequestChan \in [Peers -> 0..Pipeline]
  /\ PeerChoking \in [Peers -> BOOLEAN]
  /\ Bitfield \in [Peers -> SUBSET Piece]
  /\ requests \in [Peers -> Seq(Request)]
  /\ dl \in [Peers -> DLState]
  /\ rd \in [Peers -> RDState]
  /\ Connections \subseteq Peers
  /\ bits \subseteq Piece
  /\ loaded \in [Peers -> SUBSET Piece]
  /\ queued \subseteq Piece \X {"good", "bad", "empty"}
  /\ completeCalled \in BOOLEAN
  /\ cancelled \in BOOLEAN

ReaderAt(locs, i) == \E p \in Peers : rd[p].pc \in locs /\ rd[p].piece = i

(* No complete piece is forgotten.  Once all blocks of a piece are there   *)
(* GetNextBlockToRequest offers none of them, so only the reader that      *)
(* stored the last block can move it on: until the piece is verified, some *)
(* reader is between AddBlock and the end of VerifyPiece or RemovePiece    *)
(* with it (manager.go:330-358).                                           *)
NoOrphanedPiece ==
  \A i \in Piece : Pieces[i].complete /\ ~Pieces[i].verified
                     => ReaderAt({"verify", "remove"}, i)

(* Completion is not missed.  Each reader asks IsComplete after the other  *)
(* steps of its own piece, when another reader may just have verified the  *)
(* last one: whenever every piece is verified, Complete was started or a   *)
(* reader is on its way to start it (manager.go:334-354).                  *)
CompletionOwned ==
  IsComplete => \/ completeCalled
                \/ \E p \in Peers : rd[p].pc \in {"persist", "store", "queue", "clear", "check"}

(* The token a download loop took and has not turned into a request.       *)
Holding(p) == IF dl[p].pc \in {"select", "none", "init", "next", "skip",
                               "mark", "send", "failed"} THEN 1 ELSE 0

(* Every request in flight and the slot a loop holds are backed by a token *)
(* in RequestChan, if the peer sends no block unasked.  So the unguarded   *)
(* receives <-peer.RequestChan of PeerDownloadLoop (manager.go:708, 732,   *)
(* 753) never block, and no more than Pipeline requests are in flight.     *)
SlotsCover ==
  \A p \in Peers \ Wild : Len(requests[p]) + Holding(p) <= RequestChan[p]

(* With one peer: what Acquisition promises, with the verified pieces as   *)
(* the acquired ones.  No message of the peer, and no error, makes the     *)
(* client give up a verified piece or announce completion too early.       *)
Verified == {i \in Piece : Pieces[i].verified}

Abstract == INSTANCE Acquisition WITH Items <- Piece, acquired <- Verified,
                                      announced <- completeCalled

ImplementsAcquisition == Abstract!Spec

(* With one peer: a verified piece has its bit, or its reader is about to  *)
(* set it, so that no restart loses a piece that the download loop stopped *)
(* asking for (manager.go:334-341).                                        *)
VerifiedIsSaved ==
  \A i \in Piece : Pieces[i].verified => i \in bits \/ ReaderAt({"persist", "store"}, i)

(* With one peer: the reader that saves the bit of a piece next hands its  *)
(* verified bytes to the disk manager (manager.go:338-346), so that the    *)
(* saved bitfield runs ahead of the write queue by one piece at most.      *)
SavedIsQueued ==
  [][\A p \in Peers : rd[p].pc = "queue" /\ rd'[p].pc # "queue"
                        => <<rd[p].piece, "good">> \in queued']_vars

(* A session with an honest peer downloads every piece and ends: Complete  *)
(* is started and both loops of every peer stop, those of a peer too that  *)
(* has nothing to offer, or whose read loop died long before and left its  *)
(* download loop waiting for an unchoke (manager.go:279, 682, 694).        *)
Completes ==
  <>[](completeCalled /\ \A p \in Peers : dl[p].pc = "done" /\ rd[p].pc = "dead")

-----------------------------------------------------------------------------
(* What the comments of the code say, and what several peers refute.       *)

(* pieces.go:56: "AddBlock adds a block to a piece and removes it from     *)
(* pending", and manager.go:329 relies on it.                              *)
AddBlockUnpends ==
  [][\A p \in Peers : rd[p].pc = "add" /\ rd'[p].pc # "add"
       => BlockID(rd[p].piece, rd[p].block) \notin PendingBlocks']_vars

(* pieces.go:201: after ClearPieceData "the piece remains marked as        *)
(* complete, but the blocks map is cleared".                               *)
ClearedStaysComplete ==
  [][\A i \in Piece : Pieces[i].freed => Pieces'[i].complete]_vars

(* manager.go:807: MarkPieceCompleteAndPersist "updates the bitfield to    *)
(* mark a piece as complete [...] for resume capability": no bit that was  *)
(* set is cleared again.                                                   *)
BitsKept == [][bits \subseteq bits']_vars

(* disk.go:190: what WritePiece is given is "a complete verified piece".   *)
QueuedIsVerified == \A i \in Piece : <<i, "bad">> \notin queued

(* pieces.go:35: PendingBlocks are the "blocks currently being requested   *)
(* from ANY peer".  A loop between MarkBlockPending and SendMessage, and a *)
(* reader that has the block and not stored it, count as requesting it.    *)
BeingRequested(i, b) ==
  \E p \in Peers :
    \/ \E k \in 1..Len(requests[p]) : requests[p][k] = <<i, b>>
    \/ dl[p].pc = "send" /\ dl[p].piece = i /\ dl[p].block = b
    \/ rd[p].pc = "add" /\ rd[p].piece = i /\ rd[p].block = b

PendingIsRequested ==
  \A i \in Piece : \A b \in OwnBlocks(i) :
    BlockID(i, b) \in PendingBlocks => BeingRequested(i, b)

(* manager.go:731: when a piece has no block to request, the loop is to    *)
(* "release slot and try next piece".  SelectNextPiece picks the same      *)
(* piece again although another one has blocks to request.                 *)
TriesNextPiece ==
  [][\A p \in Peers : dl[p].pc = "select" /\ dl'[p].pc = "init"
       => LET i == dl'[p].piece IN
          \/ ~Pieces[i].exists
          \/ Requestable(i) # {}
          \/ \A j \in Wanted(Bitfield[p]) : Pieces[j].exists /\ Requestable(j) = {}]_vars

=============================================================================
