--------------------------- MODULE DownloadProofs ---------------------------
(***************************************************************************)
(* Theorems about Download, for every number of peers, pieces and blocks   *)
(* and for every choice of what the peers may do wrong.                    *)
(***************************************************************************)
EXTENDS Download, SequenceTheorems, TLAPS

-----------------------------------------------------------------------------
(* The operations of PieceManager keep its state well typed.               *)

(* AddBlock keeps the types of the PieceManager.                           *)
LEMMA AddBlockType ==
  ASSUME PMTypeOK, NEW i \in Piece, NEW b \in BlockIndex, NEW d \in BlockData,
         AddBlock(i, b, d)
  PROVE  PMTypeOK'
<1> DEFINE done == Pieces[i].complete \/ AddBlockCompletes(i, b)
           stored == [Pieces[i] EXCEPT !.blocks[b] = d, !.complete = done]
<1>1. CASE ~Accepts(i)
  BY <1>1 DEF AddBlock, PMTypeOK, pmVars, PieceState
<1>2. CASE Accepts(i)
  <2>1. Pieces' = [Pieces EXCEPT ![i] = stored]
    BY <1>2 DEF AddBlock, PMTypeOK, PieceState
  <2>2. done \in BOOLEAN
    BY DEF PMTypeOK, PieceState, AddBlockCompletes, Accepts
  <2>3. stored \in PieceState
    BY <2>2 DEF PMTypeOK, PieceState
  <2>4. Pieces' \in [Piece -> PieceState]
    BY <2>1, <2>3 DEF PMTypeOK
  <2>5. PendingBlocks' \subseteq Int
    BY <1>2 DEF AddBlock, PMTypeOK
  <2> QED BY <2>4, <2>5 DEF PMTypeOK
<1> QED BY <1>1, <1>2

(* A block that is stored changes no verdict, and completes one piece at   *)
(* most.                                                                   *)
LEMMA AddBlockEffect ==
  ASSUME PMTypeOK, NEW i \in Piece, NEW b \in BlockIndex, NEW d \in BlockData,
         AddBlock(i, b, d), NEW j \in Piece
  PROVE  /\ Pieces'[j].verified = Pieces[j].verified
         /\ Pieces'[j].exists = Pieces[j].exists
         /\ Pieces'[j].freed = Pieces[j].freed
         /\ (j # i \/ ~AddBlockCompletes(i, b)) => Pieces'[j].complete = Pieces[j].complete
<1>1. CASE ~Accepts(i)
  BY <1>1 DEF AddBlock, pmVars
<1>2. CASE Accepts(i)
  <2>1. Pieces[i] \in PieceState
    BY DEF PMTypeOK
  <2> DEFINE done == Pieces[i].complete \/ AddBlockCompletes(i, b)
             stored == [Pieces[i] EXCEPT !.blocks[b] = d, !.complete = done]
  <2>2. /\ stored.verified = Pieces[i].verified
        /\ stored.exists = Pieces[i].exists
        /\ stored.freed = Pieces[i].freed
        /\ stored.complete = done
    BY <2>1 DEF PieceState
  <2>3. ~AddBlockCompletes(i, b) => (done = Pieces[i].complete)
    BY <2>1 DEF PieceState
  <2>4. Pieces' = [Pieces EXCEPT ![i] = stored]
    BY <1>2 DEF AddBlock, PMTypeOK, PieceState
  <2>5. Pieces'[j] = IF j = i THEN stored ELSE Pieces[j]
    BY <2>4 DEF PMTypeOK
  <2> HIDE DEF stored, done
  <2> QED BY <2>2, <2>3, <2>5
<1> QED BY <1>1, <1>2

(* So does InitializePiece.                                                *)
LEMMA InitializePieceType ==
  ASSUME PMTypeOK, NEW i \in Piece, InitializePiece(i)
  PROVE  PMTypeOK'
<1>1. Started \in PieceState
  BY DEF Started, Absent, PieceState, NoBlocks, BlockData
<1> QED BY <1>1 DEF PMTypeOK, InitializePiece

(* So does VerifyPiece.                                                    *)
LEMMA VerifyPieceType ==
  ASSUME PMTypeOK, NEW i \in Piece, VerifyPiece(i)
  PROVE  PMTypeOK'
<1> DEFINE v == Pieces[i].verified \/ Verifies(i)
<1>1. v \in BOOLEAN
  BY DEF PMTypeOK, PieceState, Verifies, HashMatches
<1>2. [Pieces[i] EXCEPT !.verified = v] \in PieceState
  BY <1>1 DEF PMTypeOK, PieceState
<1> QED BY <1>2 DEF PMTypeOK, VerifyPiece

(* So does RemovePiece.                                                    *)
LEMMA RemovePieceType ==
  ASSUME PMTypeOK, NEW i \in Piece, RemovePiece(i)
  PROVE  PMTypeOK'
<1>1. Absent \in PieceState
  BY DEF Absent, PieceState, NoBlocks, BlockData
<1> QED BY <1>1 DEF PMTypeOK, RemovePiece

(* So does ClearPieceData.                                                 *)
LEMMA ClearPieceDataType ==
  ASSUME PMTypeOK, NEW i \in Piece, ClearPieceData(i)
  PROVE  PMTypeOK'
<1> DEFINE cleared == [Pieces[i] EXCEPT !.freed = TRUE, !.blocks = NoBlocks]
<1>1. cleared \in PieceState
  BY DEF PMTypeOK, PieceState, NoBlocks, BlockData
<1>2. Pieces' = Pieces \/ Pieces' = [Pieces EXCEPT ![i] = cleared]
  BY DEF ClearPieceData, PMTypeOK
<1>3. Pieces' \in [Piece -> PieceState]
  BY <1>1, <1>2 DEF PMTypeOK
<1> QED BY <1>3 DEF PMTypeOK, ClearPieceData

(* An encoded block id is an integer.                                      *)
LEMMA BlockIDType ==
  ASSUME NEW i \in Piece, NEW b \in BlockIndex
  PROVE  BlockID(i, b) \in Int
BY PieceManagerAssumption DEF BlockID, Piece, BlockIndex

(* Taking one element out of a sequence.                                   *)
LEMMA RemoveAtType ==
  ASSUME NEW S, NEW s \in Seq(S), NEW k \in 1..Len(s)
  PROVE  RemoveAt(s, k) \in Seq(S) /\ Len(RemoveAt(s, k)) = Len(s) - 1
<1> DEFINE front == SubSeq(s, 1, k - 1)
           rest == SubSeq(s, k + 1, Len(s))
<1>1. front \in Seq(S) /\ Len(front) = k - 1
  BY SubSeqProperties
<1>2. rest \in Seq(S) /\ Len(rest) = Len(s) - k
  BY SubSeqProperties
<1>3. front \o rest \in Seq(S) /\ Len(front \o rest) = Len(front) + Len(rest)
  <2> HIDE DEF front, rest
  <2> QED BY <1>1, <1>2, ConcatProperties
<1>4. RemoveAt(s, k) = front \o rest
  BY DEF RemoveAt
<1>5. Len(s) \in Nat /\ k \in Int
  OBVIOUS
<1> HIDE DEF front, rest
<1>6. Len(front) + Len(rest) = Len(s) - 1
  BY <1>1, <1>2, <1>5
<1>7. Len(RemoveAt(s, k)) = Len(s) - 1
  BY <1>3, <1>4, <1>6, Zenon
<1> QED BY <1>3, <1>4, <1>7, Zenon

-----------------------------------------------------------------------------
(* Type correctness.                                                       *)

(* The initial states have the types of TypeOK.                            *)
LEMMA InitType == Init => TypeOK
<1> SUFFICES ASSUME Init PROVE TypeOK
  OBVIOUS
<1>1. PICK resumed \in SUBSET Piece : PMInit(resumed) /\ bits = resumed
  BY DEF Init
<1>2. Absent \in PieceState /\ FromBitfield \in PieceState
  BY DEF Absent, FromBitfield, PieceState, NoBlocks, BlockData
<1>3. PMTypeOK
  BY <1>1, <1>2 DEF PMInit, PMTypeOK
<1>4. 0 \in Piece /\ 0 \in BlockIndex
  BY PieceManagerAssumption DEF Piece, BlockIndex
<1>5. DLAt("start") \in DLState /\ RDAt("read", 0) \in RDState
  BY <1>4 DEF DLAt, RDAt, DLState, RDState, BlockData
<1>6. dl \in [Peers -> DLState] /\ rd \in [Peers -> RDState]
  BY <1>5 DEF Init
<1>7. RequestChan \in [Peers -> 0..Pipeline] /\ requests \in [Peers -> Seq(Request)]
  BY DownloadAssumption DEF Init
<1> QED BY <1>1, <1>3, <1>6, <1>7 DEF Init, TypeOK

(* Every step keeps them.                                                  *)
LEMMA NextType == TypeOK /\ [Next]_vars => TypeOK'
<1> SUFFICES ASSUME TypeOK, [Next]_vars PROVE TypeOK'
  OBVIOUS
<1> USE DEF TypeOK
<1>1. 0 \in Piece /\ 0 \in BlockIndex
  BY PieceManagerAssumption DEF Piece, BlockIndex
<1>2. \A loc \in {"start", "top", "acquire", "select", "none", "check", "idle",
                  "skip", "failed", "done"} : DLAt(loc) \in DLState
  BY <1>1 DEF DLAt, DLState
<1>3. \A i \in Piece : \A loc \in {"read", "verify", "persist", "store", "queue", "clear",
                                   "check", "remove", "dead"} : RDAt(loc, i) \in RDState
  BY <1>1 DEF RDAt, RDState, BlockData
<1>4. ASSUME NEW p \in Peers, SendInterested(p) PROVE TypeOK'
  BY <1>2, <1>4 DEF SendInterested, DLStep, pmVars, peerVars, sessionVars, PMTypeOK
<1>5. ASSUME NEW p \in Peers, FindUnchoked(p) PROVE TypeOK'
  BY <1>2, <1>5 DEF FindUnchoked, DLStep, pmVars, peerVars, sessionVars, PMTypeOK
<1>6. ASSUME NEW p \in Peers, AcquireSlot(p) PROVE TypeOK'
  BY <1>2, <1>6, DownloadAssumption DEF AcquireSlot, DLStep, pmVars, sessionVars, PMTypeOK
<1>7. ASSUME NEW p \in Peers, StopDownloading(p) PROVE TypeOK'
  BY <1>2, <1>7 DEF StopDownloading, pmVars, peerVars, sessionVars, PMTypeOK
<1>8. ASSUME NEW p \in Peers, Select(p) PROVE TypeOK'
  <2>1. \A i \in Piece : [DLAt("init") EXCEPT !.piece = i] \in DLState
    BY <1>1 DEF DLAt, DLState
  <2> QED BY <1>2, <1>8, <2>1 DEF Select, DLStep, pmVars, peerVars, sessionVars, PMTypeOK
<1>9. ASSUME NEW p \in Peers, NEW from, NEW to \in {"check", "top", "done"},
             ReleaseSlot(p, from, to), Connections' \subseteq Peers
      PROVE TypeOK'
  <2>1. RequestChan' \in [Peers -> 0..Pipeline]
    BY <1>9, DownloadAssumption DEF ReleaseSlot
  <2>2. dl' \in [Peers -> DLState]
    BY <1>2, <1>9 DEF ReleaseSlot, DLStep
  <2> QED BY <1>9, <2>1, <2>2 DEF ReleaseSlot, DLStep, pmVars, sessionVars, PMTypeOK
<1>10. ASSUME NEW p \in Peers,
              ReleaseWithoutPiece(p) \/ ReleaseWithoutBlock(p) \/ ReleaseAfterFailure(p)
       PROVE TypeOK'
  BY <1>9, <1>10 DEF ReleaseWithoutPiece, ReleaseWithoutBlock, ReleaseAfterFailure, Disconnect
<1>11. ASSUME NEW p \in Peers, CheckComplete(p) PROVE TypeOK'
  BY <1>2, <1>11 DEF CheckComplete, DLStep, pmVars, peerVars, sessionVars, PMTypeOK
<1>12. ASSUME NEW p \in Peers, Tick(p) PROVE TypeOK'
  BY <1>2, <1>12 DEF Tick, DLStep, pmVars, peerVars, sessionVars, PMTypeOK
<1>13. ASSUME NEW p \in Peers, Initialize(p) PROVE TypeOK'
  <2>1. PMTypeOK'
    BY <1>13, InitializePieceType DEF Initialize, DLState
  <2> QED BY <1>13, <2>1 DEF Initialize, DLStep, peerVars, sessionVars, DLState
<1>14. ASSUME NEW p \in Peers, NextBlock(p) PROVE TypeOK'
  <2>1. \A b \in BlockIndex : [dl[p] EXCEPT !.pc = "mark", !.block = b] \in DLState
    BY DEF DLState
  <2>2. dl' \in [Peers -> DLState]
    BY <1>2, <1>14, <2>1 DEF NextBlock, DLStep
  <2> QED BY <1>14, <2>2 DEF NextBlock, DLStep, pmVars, peerVars, sessionVars, PMTypeOK
<1>15. ASSUME NEW p \in Peers, MarkPending(p) PROVE TypeOK'
  <2>1. PMTypeOK'
    BY <1>15, BlockIDType DEF MarkPending, MarkBlockPending, PMTypeOK, DLState
  <2> QED BY <1>15, <2>1 DEF MarkPending, DLStep, peerVars, sessionVars, DLState
<1>16. ASSUME NEW p \in Peers, SendRequest(p) PROVE TypeOK'
  <2>1. <<dl[p].piece, dl[p].block>> \in Request
    BY DEF DLState, Request
  <2>2. Append(requests[p], <<dl[p].piece, dl[p].block>>) \in Seq(Request)
    BY <2>1
  <2> QED BY <1>2, <1>16, <2>2 DEF SendRequest, DLStep, pmVars, sessionVars, PMTypeOK
<1>17. ASSUME NEW p \in Peers, InterestedFails(p) PROVE TypeOK'
  BY <1>2, <1>17 DEF InterestedFails, DLStep, Disconnect, pmVars, sessionVars, PMTypeOK
<1>18. ASSUME NEW p \in Peers, SendFails(p) PROVE TypeOK'
  BY <1>2, <1>18 DEF SendFails, DLStep, UnmarkBlockPending, peerVars, sessionVars, PMTypeOK
<1>19. ASSUME NEW p \in Peers, StoreBlock(p) PROVE TypeOK'
  <2>1. PMTypeOK'
    BY <1>19, AddBlockType DEF StoreBlock, RDState
  <2>2. rd' \in [Peers -> RDState]
    BY <1>1, <1>3, <1>19 DEF StoreBlock, RDStep, RDState
  <2> QED BY <1>19, <2>1, <2>2 DEF StoreBlock, RDStep, peerVars
<1>20. ASSUME NEW p \in Peers, Verify(p) PROVE TypeOK'
  <2>1. PMTypeOK'
    BY <1>20, VerifyPieceType DEF Verify, RDState
  <2>2. rd' \in [Peers -> RDState]
    BY <1>3, <1>20 DEF Verify, RDStep, RDState
  <2> QED BY <1>20, <2>1, <2>2 DEF Verify, RDStep, peerVars
<1>21. ASSUME NEW p \in Peers, LoadBits(p) PROVE TypeOK'
  <2>1. rd' \in [Peers -> RDState]
    BY <1>3, <1>21 DEF LoadBits, RDStep, RDState
  <2> QED BY <1>21, <2>1 DEF LoadBits, RDStep, peerVars, pmVars, PMTypeOK
<1>22. ASSUME NEW p \in Peers, StoreBits(p) PROVE TypeOK'
  <2>1. rd' \in [Peers -> RDState]
    BY <1>3, <1>22 DEF StoreBits, RDStep, RDState
  <2>2. bits' \subseteq Piece
    BY <1>22 DEF StoreBits, RDState
  <2> QED BY <1>22, <2>1, <2>2 DEF StoreBits, RDStep, peerVars, pmVars, PMTypeOK
<1>23. ASSUME NEW p \in Peers, QueuePiece(p) PROVE TypeOK'
  <2>1. rd' \in [Peers -> RDState]
    <3>1. rd[p].piece \in Piece
      BY DEF RDState
    <3>2. \/ rd' = [rd EXCEPT ![p] = RDAt("clear", rd[p].piece)]
          \/ rd' = [rd EXCEPT ![p] = RDAt("check", rd[p].piece)]
      BY <1>23 DEF QueuePiece, RDStep
    <3> QED BY <1>3, <3>1, <3>2
  <2>2. \A i \in Piece : PieceData(i) \in {"nil", "empty", "good", "bad"}
    BY DEF PieceData
  <2>3. queued' \subseteq Piece \X {"good", "bad", "empty"}
    BY <1>23, <2>2 DEF QueuePiece, RDState
  <2> QED BY <1>23, <2>1, <2>3 DEF QueuePiece, RDStep, peerVars, pmVars, PMTypeOK
<1>24. ASSUME NEW p \in Peers, ClearData(p) PROVE TypeOK'
  <2>1. PMTypeOK'
    BY <1>24, ClearPieceDataType DEF ClearData, RDState
  <2>2. rd' \in [Peers -> RDState]
    BY <1>3, <1>24 DEF ClearData, RDStep, RDState
  <2> QED BY <1>24, <2>1, <2>2 DEF ClearData, RDStep, peerVars
<1>25. ASSUME NEW p \in Peers, CheckLast(p) PROVE TypeOK'
  <2>1. IsComplete \in BOOLEAN
    BY DEF IsComplete
  <2>2. rd' \in [Peers -> RDState]
    BY <1>1, <1>3, <1>25 DEF CheckLast, RDState
  <2> QED BY <1>25, <2>1, <2>2 DEF CheckLast, peerVars, pmVars, PMTypeOK
<1>26. ASSUME NEW p \in Peers, RemoveFailed(p) PROVE TypeOK'
  <2>1. PMTypeOK'
    BY <1>26, RemovePieceType DEF RemoveFailed, RDState
  <2>2. rd' \in [Peers -> RDState]
    BY <1>1, <1>3, <1>26 DEF RemoveFailed, RDStep, RDState
  <2> QED BY <1>26, <2>1, <2>2 DEF RemoveFailed, RDStep, peerVars
<1>27. ASSUME NEW p \in Peers, ReceiveChoke(p) \/ ReceiveUnchoke(p) PROVE TypeOK'
  <2>1. <<>> \in Seq(Request)
    BY EmptySeq
  <2>2. requests' \in [Peers -> Seq(Request)]
    BY <1>27, <2>1 DEF ReceiveChoke, ReceiveUnchoke
  <2>3. PeerChoking' \in [Peers -> BOOLEAN] /\ rd' \in [Peers -> RDState]
    BY <1>27 DEF ReceiveChoke, ReceiveUnchoke, RDStep
  <2> QED BY <1>27, <2>2, <2>3 DEF ReceiveChoke, ReceiveUnchoke, RDStep, pmVars, PMTypeOK
<1>28. ASSUME NEW p \in Peers, NEW i \in Piece, ReceiveHave(p, i) PROVE TypeOK'
  BY <1>28 DEF ReceiveHave, RDStep, pmVars, PMTypeOK
<1>29. ASSUME NEW p \in Peers, DrainSlot(p) PROVE RequestChan' \in [Peers -> 0..Pipeline]
  BY <1>29, DownloadAssumption DEF DrainSlot
<1>30. ASSUME NEW p \in Peers, NEW k \in 1..Len(requests[p]), NEW d \in {"good", "bad"},
              ReceiveAnswer(p, k, d)
       PROVE TypeOK'
  <2>1. requests[p][k] \in Request
    BY ElementOfSeq
  <2>2. rd' \in [Peers -> RDState]
    BY <1>30, <2>1 DEF ReceiveAnswer, RDStep, Request, RDState, BlockData
  <2>3. requests' \in [Peers -> Seq(Request)]
    BY <1>30, RemoveAtType DEF ReceiveAnswer
  <2> QED BY <1>29, <1>30, <2>2, <2>3 DEF ReceiveAnswer, RDStep, pmVars, PMTypeOK
<1>31. ASSUME NEW p \in Peers, NEW i \in Piece, NEW b \in BlockIndex, NEW d \in {"good", "bad"},
              ReceiveUnasked(p, i, b, d)
       PROVE TypeOK'
  <2>1. rd' \in [Peers -> RDState]
    BY <1>31 DEF ReceiveUnasked, RDStep, RDState, BlockData
  <2> QED BY <1>29, <1>31, <2>1 DEF ReceiveUnasked, RDStep, pmVars, PMTypeOK
<1>32. ASSUME NEW p \in Peers, ReadFails(p) PROVE TypeOK'
  <2>1. rd' \in [Peers -> RDState]
    BY <1>1, <1>3, <1>32 DEF ReadFails, RDStep
  <2> QED BY <1>32, <2>1 DEF ReadFails, RDStep, Disconnect, pmVars, PMTypeOK
<1>33. CASE Complete
  BY <1>33 DEF Complete, pmVars, peerVars, PMTypeOK
<1>34. CASE UNCHANGED vars
  BY <1>34 DEF vars, pmVars, peerVars, sessionVars, PMTypeOK
<1>35. ASSUME NEW p \in Peers,
              \/ DownloadLoop(p) \/ InterestedFails(p) \/ SendFails(p)
              \/ HandleMessage(p) \/ Receive(p) \/ ReadFails(p)
       PROVE TypeOK'
  BY <1>4, <1>5, <1>6, <1>7, <1>8, <1>10, <1>11, <1>12, <1>13, <1>14, <1>15, <1>16, <1>17,
     <1>18, <1>19, <1>20, <1>21, <1>22, <1>23, <1>24, <1>25, <1>26, <1>27, <1>28, <1>30,
     <1>31, <1>32, <1>35
     DEF DownloadLoop, HandleMessage, Receive
<1> QED BY <1>33, <1>34, <1>35 DEF Next, Finished

(* Every state has its type: the tokens in a RequestChan never exceed its  *)
(* capacity, whatever the peers send.                                      *)
THEOREM TypeCorrect == Spec => []TypeOK
<1> QED BY InitType, NextType, PTL DEF Spec

-----------------------------------------------------------------------------
(* Which steps touch the pieces, the readers or the saved bits.            *)

(* A reader takes a message, or finds that there will be none.             *)
Incoming(p) ==
  /\ rd[p].pc = "read"
  /\ rd'[p].pc \in {"read", "add", "dead"}
  /\ \A q \in Peers \ {p} : rd'[q] = rd[q]
  /\ UNCHANGED <<Pieces, bits, loaded, queued, completeCalled>>

Elsewhere == UNCHANGED <<Pieces, rd, bits, loaded, queued, completeCalled>>

(* A step is one of a download loop, of a reader, of Complete, or a stutter. *)
LEMMA StepCases ==
  ASSUME TypeOK, [Next]_vars
  PROVE  \/ Elsewhere
         \/ \E p \in Peers : Initialize(p) \/ Incoming(p) \/ HandleMessage(p)
<1> USE DEF Elsewhere
<1>1. ASSUME NEW p \in Peers, DownloadLoop(p) PROVE Initialize(p) \/ Elsewhere
  <2>1. SendInterested(p) \/ FindUnchoked(p) \/ CheckComplete(p) \/ Tick(p) => Elsewhere
    BY DEF SendInterested, FindUnchoked, CheckComplete, Tick, DLStep, pmVars, sessionVars
  <2>2. AcquireSlot(p) \/ StopDownloading(p) \/ Select(p) => Elsewhere
    BY DEF AcquireSlot, StopDownloading, Select, DLStep, pmVars, sessionVars
  <2>3. ReleaseWithoutPiece(p) \/ ReleaseWithoutBlock(p) \/ ReleaseAfterFailure(p) => Elsewhere
    BY DEF ReleaseWithoutPiece, ReleaseWithoutBlock, ReleaseAfterFailure, ReleaseSlot, DLStep,
           pmVars, sessionVars
  <2>4. NextBlock(p) \/ MarkPending(p) \/ SendRequest(p) => Elsewhere
    BY DEF NextBlock, MarkPending, MarkBlockPending, SendRequest, DLStep, pmVars, sessionVars
  <2> QED BY <1>1, <2>1, <2>2, <2>3, <2>4 DEF DownloadLoop
<1>2. ASSUME NEW p \in Peers, InterestedFails(p) \/ SendFails(p) PROVE Elsewhere
  BY <1>2 DEF InterestedFails, SendFails, UnmarkBlockPending, DLStep, pmVars, sessionVars
<1>3. ASSUME NEW p \in Peers, ReceiveChoke(p) \/ ReceiveUnchoke(p) PROVE Incoming(p)
  BY <1>3 DEF ReceiveChoke, ReceiveUnchoke, RDStep, Incoming, TypeOK, pmVars
<1>4. ASSUME NEW p \in Peers, NEW i \in Piece, ReceiveHave(p, i) PROVE Incoming(p)
  BY <1>4 DEF ReceiveHave, RDStep, Incoming, TypeOK, pmVars
<1>5. ASSUME NEW p \in Peers, NEW k \in 1..Len(requests[p]), NEW d, ReceiveAnswer(p, k, d)
      PROVE  Incoming(p)
  BY <1>5 DEF ReceiveAnswer, RDStep, Incoming, TypeOK, pmVars
<1>6. ASSUME NEW p \in Peers, NEW i, NEW b, NEW d, ReceiveUnasked(p, i, b, d)
      PROVE  Incoming(p)
  BY <1>6 DEF ReceiveUnasked, RDStep, Incoming, TypeOK, pmVars
<1>7. ASSUME NEW p \in Peers, ReadFails(p) PROVE Incoming(p)
  BY <1>7 DEF ReadFails, RDStep, RDAt, Incoming, TypeOK, pmVars
<1>8. CASE Complete
  BY <1>8 DEF Complete, pmVars
<1>9. CASE UNCHANGED vars
  BY <1>9 DEF vars, pmVars, sessionVars
<1> QED BY <1>1, <1>2, <1>3, <1>4, <1>5, <1>6, <1>7, <1>8, <1>9 DEF Next, Finished, Receive

(* A step of a reader changes that reader only.                            *)
LEMMA ReaderStep ==
  ASSUME TypeOK, NEW p \in Peers, HandleMessage(p)
  PROVE  \A q \in Peers \ {p} : rd'[q] = rd[q]
BY DEF HandleMessage, StoreBlock, Verify, LoadBits, StoreBits, QueuePiece, ClearData, CheckLast,
       RemoveFailed, RDStep, TypeOK

-----------------------------------------------------------------------------
(* NoOrphanedPiece is inductive.                                           *)

(* No piece is complete and unverified when a session starts.              *)
LEMMA InitNoOrphan == Init => NoOrphanedPiece
BY DEF Init, PMInit, Absent, FromBitfield, NoOrphanedPiece

(* Every step keeps NoOrphanedPiece.                                       *)
LEMMA NextNoOrphan == TypeOK /\ NoOrphanedPiece /\ [Next]_vars => NoOrphanedPiece'
<1> SUFFICES ASSUME TypeOK, NoOrphanedPiece, [Next]_vars, NEW i \in Piece,
                    Pieces'[i].complete, ~Pieces'[i].verified
             PROVE  ReaderAt({"verify", "remove"}, i)'
  BY DEF NoOrphanedPiece
<1> DEFINE Open == Pieces[i].complete /\ ~Pieces[i].verified
<1>1. Open => \E q \in Peers : rd[q].pc \in {"verify", "remove"} /\ rd[q].piece = i
  BY DEF NoOrphanedPiece, ReaderAt
<1>2. CASE Elsewhere
  BY <1>1, <1>2 DEF Elsewhere, ReaderAt
<1>3. ASSUME NEW p \in Peers, Initialize(p) PROVE ReaderAt({"verify", "remove"}, i)'
  <2>1. Open /\ rd' = rd
    BY <1>3 DEF Initialize, InitializePiece, DLStep, TypeOK, PMTypeOK, DLState, Started, Absent
  <2> QED BY <1>1, <2>1 DEF ReaderAt
<1>4. ASSUME NEW p \in Peers, Incoming(p) PROVE ReaderAt({"verify", "remove"}, i)'
  <2>1. Open
    BY <1>4 DEF Incoming
  <2> QED BY <1>1, <1>4, <2>1 DEF Incoming, ReaderAt
<1>5. ASSUME NEW p \in Peers, HandleMessage(p) PROVE ReaderAt({"verify", "remove"}, i)'
  <2>1. \A q \in Peers \ {p} : rd'[q] = rd[q]
    BY <1>5, ReaderStep
  <2>2. rd[p].piece \in Piece
    BY DEF TypeOK, RDState
  <2>3. ASSUME Open, rd[p].pc \notin {"verify", "remove"} \/ rd[p].piece # i
        PROVE  ReaderAt({"verify", "remove"}, i)'
    BY <1>1, <2>1, <2>3 DEF ReaderAt
  <2>4. CASE StoreBlock(p)
    <3>1. CASE AddBlockCompletes(rd[p].piece, rd[p].block) /\ rd[p].piece = i
      BY <2>4, <3>1 DEF StoreBlock, RDStep, RDAt, TypeOK, ReaderAt
    <3>2. CASE ~(AddBlockCompletes(rd[p].piece, rd[p].block) /\ rd[p].piece = i)
      <4>1. Open /\ rd[p].pc = "add"
        BY <2>4, <3>2, AddBlockEffect DEF StoreBlock, RDStep, TypeOK, RDState
      <4> QED BY <2>3, <4>1
    <3> QED BY <3>1, <3>2
  <2>5. CASE Verify(p)
    <3>1. Open /\ (rd[p].piece = i => ~Verifies(i))
      BY <2>2, <2>5 DEF Verify, VerifyPiece, TypeOK, PMTypeOK, PieceState
    <3>2. rd[p].piece = i => rd'[p] = RDAt("remove", i)
      BY <2>5, <3>1 DEF Verify, RDStep, TypeOK
    <3> QED BY <2>3, <3>1, <3>2 DEF RDAt, ReaderAt
  <2>6. CASE LoadBits(p) \/ StoreBits(p) \/ QueuePiece(p) \/ CheckLast(p)
    <3>1. Open /\ rd[p].pc \in {"persist", "store", "queue", "check"}
      BY <2>6 DEF LoadBits, StoreBits, QueuePiece, CheckLast, RDStep, pmVars
    <3> QED BY <2>3, <3>1
  <2>7. CASE ClearData(p)
    <3>1. Open /\ rd[p].pc = "clear"
      BY <2>2, <2>7 DEF ClearData, ClearPieceData, RDStep, TypeOK, PMTypeOK, PieceState
    <3> QED BY <2>3, <3>1
  <2>8. CASE RemoveFailed(p)
    <3>1. Open /\ rd[p].piece # i
      BY <2>2, <2>8 DEF RemoveFailed, RemovePiece, TypeOK, PMTypeOK, PieceState, Absent
    <3> QED BY <2>3, <3>1
  <2> QED BY <1>5, <2>4, <2>5, <2>6, <2>7, <2>8 DEF HandleMessage
<1> QED BY <1>2, <1>3, <1>4, <1>5, StepCases

(* A complete piece that was not verified has a reader that will verify or *)
(* remove it, so no piece is stuck with all of its blocks.                 *)
THEOREM NoPieceOrphaned == Spec => []NoOrphanedPiece
<1> QED BY InitType, NextType, InitNoOrphan, NextNoOrphan, PTL DEF Spec

-----------------------------------------------------------------------------
(* CompletionOwned is inductive.                                           *)

(* A session starts with a piece missing.                                  *)
LEMMA InitCompletion == Init => CompletionOwned
<1> SUFFICES ASSUME Init PROVE ~IsComplete
  BY DEF CompletionOwned
<1>1. PICK resumed \in (SUBSET Piece) \ {Piece} : PMInit(resumed)
  BY DEF Init
<1>2. PICK i \in Piece : i \notin resumed
  BY <1>1
<1> QED BY <1>1, <1>2 DEF PMInit, Absent, IsComplete

(* Every step keeps CompletionOwned.                                       *)
LEMMA NextCompletion == TypeOK /\ CompletionOwned /\ [Next]_vars => CompletionOwned'
<1> DEFINE Owning == {"persist", "store", "queue", "clear", "check"}
<1> SUFFICES ASSUME TypeOK, CompletionOwned, [Next]_vars, IsComplete', ~completeCalled'
             PROVE  \E q \in Peers : rd'[q].pc \in Owning
  BY DEF CompletionOwned
<1>1. IsComplete /\ ~completeCalled => \E q \in Peers : rd[q].pc \in Owning
  BY DEF CompletionOwned
<1>2. CASE Elsewhere
  BY <1>1, <1>2 DEF Elsewhere, IsComplete
<1>3. ASSUME NEW p \in Peers, Initialize(p) PROVE \E q \in Peers : rd'[q].pc \in Owning
  <2>1. IsComplete
    BY <1>3 DEF Initialize, InitializePiece, IsComplete, TypeOK, PMTypeOK, DLState, Started, Absent
  <2> QED BY <1>1, <1>3, <2>1 DEF Initialize, DLStep, sessionVars
<1>4. ASSUME NEW p \in Peers, Incoming(p) PROVE \E q \in Peers : rd'[q].pc \in Owning
  BY <1>1, <1>4 DEF Incoming, IsComplete
<1>5. ASSUME NEW p \in Peers, HandleMessage(p) PROVE \E q \in Peers : rd'[q].pc \in Owning
  <2>1. \A q \in Peers \ {p} : rd'[q] = rd[q]
    BY <1>5, ReaderStep
  <2>2. rd[p].piece \in Piece
    BY DEF TypeOK, RDState
  <2>3. ASSUME IsComplete, ~completeCalled, rd[p].pc \notin Owning
        PROVE  \E q \in Peers : rd'[q].pc \in Owning
    BY <1>1, <2>1, <2>3
  <2>4. CASE StoreBlock(p)
    <3>1. IsComplete
      BY <2>4, AddBlockEffect DEF StoreBlock, IsComplete, TypeOK, RDState
    <3> QED BY <2>3, <2>4, <3>1 DEF StoreBlock, RDStep
  <2>5. CASE Verify(p)
    <3>1. CASE Verifies(rd[p].piece)
      BY <2>5, <3>1 DEF Verify, RDStep, RDAt, TypeOK
    <3>2. CASE ~Verifies(rd[p].piece)
      <4>1. IsComplete
        BY <2>2, <2>5, <3>2 DEF Verify, VerifyPiece, IsComplete, TypeOK, PMTypeOK, PieceState
      <4> QED BY <2>3, <2>5, <4>1 DEF Verify, RDStep
    <3> QED BY <3>1, <3>2
  <2>6. CASE LoadBits(p) \/ StoreBits(p) \/ QueuePiece(p) \/ ClearData(p)
    BY <2>6 DEF LoadBits, StoreBits, QueuePiece, ClearData, RDStep, RDAt, TypeOK
  <2>7. CASE CheckLast(p)
    BY <2>7 DEF CheckLast, IsComplete, pmVars
  <2>8. CASE RemoveFailed(p)
    BY <2>2, <2>8 DEF RemoveFailed, RemovePiece, IsComplete, TypeOK, PMTypeOK, Absent
  <2> QED BY <1>5, <2>4, <2>5, <2>6, <2>7, <2>8 DEF HandleMessage
<1> QED BY <1>2, <1>3, <1>4, <1>5, StepCases

(* While every piece is verified, Complete was started or some reader is   *)
(* on its way to start it.                                                 *)
THEOREM CompletionIsOwned == Spec => []CompletionOwned
<1> QED BY InitType, NextType, InitCompletion, NextCompletion, PTL DEF Spec

-----------------------------------------------------------------------------
(* SlotsCover is inductive.                                                *)

(* A session starts with no request and no slot taken.                     *)
LEMMA InitSlots == Init => SlotsCover
<1> SUFFICES ASSUME Init, NEW p \in Peers
             PROVE  Len(requests[p]) + Holding(p) <= RequestChan[p]
  BY DEF SlotsCover
<1>1. Len(requests[p]) = 0 /\ Holding(p) = 0 /\ RequestChan[p] = 0
  BY EmptySeq DEF Init, Holding, DLAt
<1> QED BY <1>1

(* Every step keeps SlotsCover.                                            *)
LEMMA NextSlots == TypeOK /\ SlotsCover /\ [Next]_vars => SlotsCover'
<1> SUFFICES ASSUME TypeOK, SlotsCover, [Next]_vars, NEW p \in Peers \ Wild
             PROVE  Len(requests'[p]) + Holding(p)' <= RequestChan'[p]
  BY DEF SlotsCover
<1> DEFINE Same == /\ requests'[p] = requests[p]
                   /\ RequestChan'[p] = RequestChan[p]
           Covered == Len(requests'[p]) + Holding(p)' <= RequestChan'[p]
<1>1. Len(requests[p]) + Holding(p) <= RequestChan[p]
  BY DEF SlotsCover
<1>2. Len(requests[p]) \in Nat /\ RequestChan[p] \in Nat /\ Holding(p) \in {0, 1}
  BY LenProperties DEF TypeOK, Holding
<1>3. ASSUME Same, dl'[p] = dl[p] PROVE Covered
  BY <1>1, <1>3 DEF Holding
<1>4. ASSUME Same, Holding(p)' <= Holding(p), Holding(p)' \in {0, 1} PROVE Covered
  BY <1>1, <1>2, <1>4
<1>5. Holding(p)' \in {0, 1}
  BY DEF Holding
<1>6. ASSUME NEW q \in Peers, DownloadLoop(q) \/ InterestedFails(q) \/ SendFails(q) PROVE Covered
  <2>1. ASSUME q # p PROVE Covered
    <3>1. Same /\ dl'[p] = dl[p]
      BY <1>6, <2>1
         DEF DownloadLoop, SendInterested, FindUnchoked, AcquireSlot, StopDownloading, Select,
             ReleaseWithoutPiece, CheckComplete, Tick, Initialize, NextBlock,
             ReleaseWithoutBlock, MarkPending, SendRequest, ReleaseAfterFailure, ReleaseSlot,
             InterestedFails, SendFails, DLStep, peerVars, TypeOK
    <3> QED BY <1>3, <3>1
  <2>2. ASSUME SendInterested(p) \/ FindUnchoked(p) \/ StopDownloading(p) \/ CheckComplete(p)
                 \/ Tick(p) \/ InterestedFails(p)
        PROVE  Covered
    <3>1. Same /\ Holding(p)' = 0
      BY <2>2 DEF SendInterested, FindUnchoked, StopDownloading, CheckComplete, Tick,
                  InterestedFails, DLStep, DLAt, Holding, peerVars, TypeOK
    <3> QED BY <1>2, <1>4, <1>5, <3>1
  <2>3. ASSUME AcquireSlot(p) PROVE Covered
    <3>1. /\ requests'[p] = requests[p]
          /\ RequestChan'[p] = RequestChan[p] + 1
          /\ Holding(p) = 0
      BY <2>3 DEF AcquireSlot, DLStep, Holding, TypeOK
    <3> QED BY <1>1, <1>2, <1>5, <3>1
  <2>4. ASSUME Select(p) \/ Initialize(p) \/ NextBlock(p) \/ MarkPending(p) \/ SendFails(p)
        PROVE  Covered
    <3>1. Same /\ Holding(p) = 1
      BY <2>4 DEF Select, Initialize, NextBlock, MarkPending, SendFails, DLStep, Holding, peerVars
    <3> QED BY <1>2, <1>4, <1>5, <3>1
  <2>5. ASSUME ReleaseWithoutPiece(p) \/ ReleaseWithoutBlock(p) \/ ReleaseAfterFailure(p)
        PROVE  Covered
    <3>1. /\ requests'[p] = requests[p]
          /\ RequestChan'[p] = RequestChan[p] - 1
          /\ Holding(p) = 1 /\ Holding(p)' = 0
      BY <2>5 DEF ReleaseWithoutPiece, ReleaseWithoutBlock, ReleaseAfterFailure, ReleaseSlot,
                  DLStep, DLAt, Holding, TypeOK
    <3> QED BY <1>1, <1>2, <3>1
  <2>6. ASSUME SendRequest(p) PROVE Covered
    <3> DEFINE r == <<dl[p].piece, dl[p].block>>
    <3>1. /\ requests'[p] = Append(requests[p], r)
          /\ RequestChan'[p] = RequestChan[p]
          /\ Holding(p) = 1 /\ Holding(p)' = 0
      BY <2>6 DEF SendRequest, DLStep, DLAt, Holding, TypeOK
    <3>2. requests[p] \in Seq(Request) /\ r \in Request
      BY DEF TypeOK, DLState, Request
    <3>3. Len(Append(requests[p], r)) = Len(requests[p]) + 1
      BY <3>2, AppendProperties
    <3> QED BY <1>1, <1>2, <3>1, <3>3
  <2> QED BY <1>6, <2>1, <2>2, <2>3, <2>4, <2>5, <2>6 DEF DownloadLoop
<1>7. ASSUME NEW q \in Peers, HandleMessage(q) \/ ReadFails(q) PROVE Covered
  <2>1. Same /\ dl'[p] = dl[p]
    BY <1>7 DEF HandleMessage, StoreBlock, Verify, LoadBits, StoreBits, QueuePiece, ClearData,
                CheckLast, RemoveFailed, ReadFails, RDStep, peerVars
  <2> QED BY <1>3, <2>1
<1>8. ASSUME NEW q \in Peers, Receive(q) PROVE Covered
  <2>1. dl' = dl
    BY <1>8 DEF Receive, ReceiveChoke, ReceiveUnchoke, ReceiveHave, ReceiveAnswer,
                ReceiveUnasked, RDStep
  <2>2. Holding(p)' = Holding(p)
    BY <2>1 DEF Holding
  <2>3. ASSUME ReceiveChoke(q) PROVE Covered
    <3>1. RequestChan' = RequestChan /\ (requests'[p] = requests[p] \/ requests'[p] = <<>>)
      BY <2>3 DEF ReceiveChoke, TypeOK
    <3>2. Len(requests'[p]) <= Len(requests[p])
      BY <1>2, <3>1, EmptySeq
    <3>3. Len(requests'[p]) \in Nat
      BY <1>2, <3>1, EmptySeq
    <3>4. RequestChan'[p] = RequestChan[p]
      BY <3>1
    <3> QED BY <1>1, <1>2, <2>2, <3>2, <3>3, <3>4
  <2>4. ASSUME ReceiveUnchoke(q) \/ \E i \in Piece : ReceiveHave(q, i) PROVE Covered
    BY <1>3, <2>1, <2>4 DEF ReceiveUnchoke, ReceiveHave
  <2>5. ASSUME NEW k \in 1..Len(requests[q]), NEW d, ReceiveAnswer(q, k, d) PROVE Covered
    <3>1. CASE q # p
      BY <1>3, <2>1, <2>5, <3>1 DEF ReceiveAnswer, DrainSlot, TypeOK
    <3>2. CASE q = p
      <4>1. requests'[p] = RemoveAt(requests[p], k)
        BY <2>5, <3>2 DEF ReceiveAnswer, TypeOK
      <4>2. Len(requests'[p]) = Len(requests[p]) - 1
        BY <2>5, <3>2, <4>1, RemoveAtType DEF TypeOK
      <4>3. RequestChan[p] > 0
        BY <1>1, <1>2, <2>5, <3>2
      <4>4. RequestChan'[p] = RequestChan[p] - 1
        BY <2>5, <3>2, <4>3 DEF ReceiveAnswer, DrainSlot, TypeOK
      <4> QED BY <1>1, <1>2, <2>2, <4>2, <4>4
    <3> QED BY <3>1, <3>2
  <2>6. ASSUME NEW i, NEW b, NEW d, ReceiveUnasked(q, i, b, d) PROVE Covered
    <3>1. q # p
      BY <2>6 DEF ReceiveUnasked
    <3> QED BY <1>3, <2>1, <2>6, <3>1 DEF ReceiveUnasked, DrainSlot, TypeOK
  <2> QED BY <1>8, <2>3, <2>4, <2>5, <2>6 DEF Receive
<1>9. CASE Complete \/ UNCHANGED vars
  BY <1>3, <1>9 DEF Complete, vars, peerVars
<1> QED BY <1>6, <1>7, <1>8, <1>9 DEF Next, Finished

(* Tokens back every request and every slot held, so that taking one from  *)
(* RequestChan never blocks a loop whose peer sends nothing unasked.       *)
THEOREM SlotsAreCovered == Spec => []SlotsCover
<1> QED BY InitType, NextType, InitSlots, NextSlots, PTL DEF Spec

-----------------------------------------------------------------------------
(* With one peer there is one reader, and no message can come between its  *)
(* steps.  The inductive invariant says what its position tells.           *)

Deciding == {"verify", "remove"}
Saving == {"persist", "store"}
Keeping == {"persist", "store", "queue", "clear"}

(* A verified piece is there in full, or was given back: only its reader   *)
(* still has its blocks in memory.                                         *)
VerifiedKept ==
  \A i \in Piece : Pieces[i].verified
    => /\ Pieces[i].exists /\ Pieces[i].complete
       /\ Pieces[i].freed \/ ReaderAt(Keeping, i)

(* A piece that is about to be verified, or removed, is not verified.      *)
UndecidedYet ==
  \A p \in Peers : rd[p].pc \in Deciding => ~Pieces[rd[p].piece].verified

(* Until its reader hands it over, a verified piece has the right bytes.   *)
IntactUntilQueued ==
  \A p \in Peers : rd[p].pc \in {"persist", "store", "queue"} => Verifies(rd[p].piece)

(* The byte a reader is about to store is the one it loaded.               *)
LoadedIsCurrent ==
  \A p \in Peers : rd[p].pc = "store" => loaded[p] = bits

AnnouncedIsComplete == completeCalled => IsComplete

SingleInv ==
  /\ TypeOK
  /\ VerifiedKept
  /\ UndecidedYet
  /\ IntactUntilQueued
  /\ LoadedIsCurrent
  /\ AnnouncedIsComplete
  /\ VerifiedIsSaved

(* The initial states satisfy the invariant of a session with one peer.    *)
LEMMA InitSingle == Init => SingleInv
<1> SUFFICES ASSUME Init PROVE SingleInv
  OBVIOUS
<1>1. PICK resumed \in (SUBSET Piece) \ {Piece} : PMInit(resumed) /\ bits = resumed
  BY DEF Init
<1>2. VerifiedKept /\ VerifiedIsSaved
  BY <1>1 DEF PMInit, Absent, FromBitfield, VerifiedKept, VerifiedIsSaved
<1>3. UndecidedYet /\ IntactUntilQueued /\ LoadedIsCurrent /\ AnnouncedIsComplete
  BY DEF Init, RDAt, UndecidedYet, IntactUntilQueued, LoadedIsCurrent, AnnouncedIsComplete,
         Deciding
<1> QED BY <1>2, <1>3, InitType DEF SingleInv

(* A step that leaves the pieces and the bits alone, and the reader where  *)
(* it is or at a place where it holds no piece.                            *)
LEMMA QuietStep ==
  ASSUME NEW p, Peers = {p}, SingleInv, TypeOK', Elsewhere \/ Incoming(p)
  PROVE  SingleInv'
<1> USE DEF SingleInv
<1>1. CASE Elsewhere
  BY <1>1 DEF Elsewhere, VerifiedKept, UndecidedYet, IntactUntilQueued, LoadedIsCurrent,
              AnnouncedIsComplete, VerifiedIsSaved, ReaderAt, Verifies, HashMatches, IsComplete
<1>2. CASE Incoming(p)
  <2>1. \A i \in Piece : ~ReaderAt(Keeping, i) /\ ~ReaderAt(Saving, i)
    BY <1>2 DEF Incoming, ReaderAt, Keeping, Saving
  <2>2. VerifiedKept' /\ VerifiedIsSaved'
    BY <1>2, <2>1 DEF Incoming, VerifiedKept, VerifiedIsSaved, Saving
  <2>3. UndecidedYet' /\ IntactUntilQueued' /\ LoadedIsCurrent'
    BY <1>2 DEF Incoming, UndecidedYet, IntactUntilQueued, LoadedIsCurrent, Deciding
  <2>4. AnnouncedIsComplete'
    BY <1>2 DEF Incoming, AnnouncedIsComplete, IsComplete
  <2> QED BY <2>2, <2>3, <2>4
<1> QED BY <1>1, <1>2

(* InitializePiece keeps the invariant of a session with one peer.         *)
LEMMA InitializeSingle ==
  ASSUME NEW p, Peers = {p}, SingleInv, TypeOK', Initialize(p)
  PROVE  SingleInv'
<1> USE DEF SingleInv
<1>1. rd' = rd /\ bits' = bits /\ loaded' = loaded /\ completeCalled' = completeCalled
  BY DEF Initialize, DLStep, sessionVars
<1>2. \A i \in Piece : Pieces'[i] = Pieces[i] \/ (~Pieces[i].exists /\ Pieces'[i] = Started)
  BY DEF Initialize, InitializePiece, TypeOK, PMTypeOK, DLState
<1>3. \A i \in Piece : Pieces'[i].verified => Pieces'[i] = Pieces[i]
  BY <1>2 DEF Started, Absent
<1>4. \A i \in Piece : Pieces[i].exists => Pieces'[i] = Pieces[i]
  BY <1>2
<1>5. VerifiedKept' /\ VerifiedIsSaved'
  BY <1>1, <1>3 DEF VerifiedKept, VerifiedIsSaved, ReaderAt
<1>6. UndecidedYet' /\ LoadedIsCurrent'
  BY <1>1, <1>3 DEF UndecidedYet, LoadedIsCurrent, TypeOK, RDState
<1>7. IntactUntilQueued'
  BY <1>1, <1>4 DEF IntactUntilQueued, Verifies, HashMatches, TypeOK, RDState
<1>8. AnnouncedIsComplete'
  BY <1>1, <1>4 DEF AnnouncedIsComplete, IsComplete, VerifiedKept
<1> QED BY <1>5, <1>6, <1>7, <1>8

(* Every step of the reader keeps it.                                      *)
LEMMA HandleSingle ==
  ASSUME NEW p, Peers = {p}, SingleInv, TypeOK', HandleMessage(p)
  PROVE  SingleInv'
<1> USE DEF SingleInv
<1> DEFINE i == rd[p].piece
<1>1. i \in Piece /\ p \in Peers
  BY DEF TypeOK, RDState
<1>2. \A locs, j : ReaderAt(locs, j) <=> rd[p].pc \in locs /\ i = j
  BY DEF ReaderAt
<1>3. \A locs, j : ReaderAt(locs, j)' <=> rd'[p].pc \in locs /\ rd'[p].piece = j
  BY DEF ReaderAt
<1>4. CASE StoreBlock(p)
  <2>1. rd[p].pc = "add" /\ bits' = bits /\ completeCalled' = completeCalled
    BY <1>4 DEF StoreBlock, RDStep
  <2>2. \A j \in Piece : Pieces[j].verified => Pieces[j].freed
    BY <1>2, <2>1 DEF VerifiedKept, Keeping
  <2>3. \A j \in Piece : /\ Pieces'[j].verified = Pieces[j].verified
                         /\ Pieces'[j].exists = Pieces[j].exists
                         /\ Pieces'[j].freed = Pieces[j].freed
                         /\ (j # i \/ ~AddBlockCompletes(i, rd[p].block))
                              => Pieces'[j].complete = Pieces[j].complete
    BY <1>4, AddBlockEffect DEF StoreBlock, TypeOK, RDState
  <2>4. Pieces[i].verified => ~AddBlockCompletes(i, rd[p].block)
    BY <1>1, <2>2 DEF AddBlockCompletes, Accepts
  <2>5. \/ rd'[p] = RDAt("read", 0)
        \/ rd'[p] = RDAt("verify", i) /\ AddBlockCompletes(i, rd[p].block)
    BY <1>4 DEF StoreBlock, RDStep, TypeOK
  <2>6. VerifiedKept'
    BY <2>2, <2>3, <2>4 DEF VerifiedKept
  <2>7. VerifiedIsSaved'
    BY <1>2, <2>1, <2>3 DEF VerifiedIsSaved
  <2>8. UndecidedYet' /\ IntactUntilQueued' /\ LoadedIsCurrent'
    BY <1>1, <2>3, <2>4, <2>5 DEF UndecidedYet, IntactUntilQueued, LoadedIsCurrent, Deciding, RDAt
  <2>9. AnnouncedIsComplete'
    BY <2>1, <2>3 DEF AnnouncedIsComplete, IsComplete
  <2> QED BY <2>6, <2>7, <2>8, <2>9
<1>5. CASE Verify(p)
  <2>1. rd[p].pc = "verify" /\ bits' = bits /\ completeCalled' = completeCalled
    BY <1>5 DEF Verify, RDStep
  <2>2. Pieces' = [Pieces EXCEPT ![i].verified = @ \/ Verifies(i)]
    BY <1>5 DEF Verify, VerifyPiece
  <2>3. /\ \A j \in Piece : j # i => Pieces'[j] = Pieces[j]
        /\ Pieces'[i].verified = Verifies(i)
        /\ Pieces'[i].exists = Pieces[i].exists
        /\ Pieces'[i].complete = Pieces[i].complete
        /\ Pieces'[i].freed = Pieces[i].freed
        /\ Pieces'[i].blocks = Pieces[i].blocks
    <3>1. ~Pieces[i].verified
      BY <1>1, <2>1 DEF UndecidedYet, Deciding
    <3>2. Pieces[i].verified \in BOOLEAN /\ Verifies(i) \in BOOLEAN
      BY <1>1 DEF TypeOK, PMTypeOK, PieceState, Verifies, HashMatches
    <3>3. (Pieces[i].verified \/ Verifies(i)) = Verifies(i)
      BY <3>1, <3>2
    <3> QED BY <1>1, <2>2, <3>3 DEF TypeOK, PMTypeOK, PieceState
  <2>4. rd'[p] = RDAt(IF Verifies(i) THEN "persist" ELSE "remove", i)
    BY <1>5 DEF Verify, RDStep, TypeOK
  <2>5. VerifiedKept'
    <3> SUFFICES ASSUME NEW j \in Piece, Pieces'[j].verified
                 PROVE  /\ Pieces'[j].exists /\ Pieces'[j].complete
                        /\ Pieces'[j].freed \/ ReaderAt(Keeping, j)'
      BY DEF VerifiedKept
    <3>1. CASE j # i
      BY <1>2, <2>1, <2>3, <3>1 DEF VerifiedKept, Keeping
    <3>2. CASE j = i
      <4>1. Verifies(i)
        BY <2>3, <3>2
      <4>2. rd'[p].pc = "persist" /\ rd'[p].piece = i
        BY <2>4, <4>1 DEF RDAt
      <4> QED BY <1>3, <2>3, <3>2, <4>1, <4>2 DEF Keeping, Verifies
    <3> QED BY <3>1, <3>2
  <2>6. VerifiedIsSaved'
    BY <1>2, <1>3, <2>1, <2>3, <2>4 DEF VerifiedIsSaved, RDAt
  <2>7. UndecidedYet' /\ LoadedIsCurrent'
    BY <2>3, <2>4 DEF UndecidedYet, LoadedIsCurrent, Deciding, RDAt
  <2>8. IntactUntilQueued'
    BY <2>3, <2>4 DEF IntactUntilQueued, Verifies, HashMatches, RDAt
  <2>9. AnnouncedIsComplete'
    BY <1>1, <2>1, <2>3 DEF AnnouncedIsComplete, IsComplete, UndecidedYet, Deciding
  <2> QED BY <2>5, <2>6, <2>7, <2>8, <2>9
<1>6. CASE LoadBits(p) \/ StoreBits(p)
  <2>1. Pieces' = Pieces /\ completeCalled' = completeCalled /\ rd[p].pc \in Saving
    BY <1>6 DEF LoadBits, StoreBits, RDStep, pmVars, Saving
  <2>2. \/ rd'[p] = RDAt("store", i) /\ bits' = bits /\ loaded'[p] = bits
        \/ rd'[p] = RDAt("queue", i) /\ bits' = bits \cup {i}
    BY <1>6 DEF LoadBits, StoreBits, RDStep, LoadedIsCurrent, TypeOK
  <2>3. VerifiedKept'
    BY <1>2, <1>3, <2>1, <2>2 DEF VerifiedKept, Keeping, Saving, RDAt
  <2>4. VerifiedIsSaved'
    BY <1>2, <1>3, <2>1, <2>2 DEF VerifiedIsSaved, RDAt
  <2>5. IntactUntilQueued' /\ UndecidedYet' /\ LoadedIsCurrent'
    <3>1. Verifies(i)
      BY <1>1, <2>1 DEF IntactUntilQueued, Saving
    <3>2. Verifies(i)' /\ rd'[p].piece = i
      BY <2>1, <2>2, <3>1 DEF Verifies, HashMatches, RDAt
    <3>3. IntactUntilQueued'
      BY <3>2 DEF IntactUntilQueued, Verifies, HashMatches
    <3>4. UndecidedYet' /\ LoadedIsCurrent'
      BY <2>2 DEF UndecidedYet, LoadedIsCurrent, Deciding, RDAt
    <3> QED BY <3>3, <3>4
  <2>6. AnnouncedIsComplete'
    BY <2>1 DEF AnnouncedIsComplete, IsComplete
  <2> QED BY <2>3, <2>4, <2>5, <2>6
<1>7. CASE QueuePiece(p)
  <2>1. /\ Pieces' = Pieces /\ completeCalled' = completeCalled /\ bits' = bits
        /\ rd[p].pc = "queue"
    BY <1>7 DEF QueuePiece, RDStep, pmVars
  <2>2. Verifies(i)
    BY <1>1, <2>1 DEF IntactUntilQueued
  <2>3. rd'[p] = RDAt("clear", i)
    BY <1>7, <2>2 DEF QueuePiece, RDStep, PieceData, Verifies, TypeOK
  <2>4. VerifiedKept' /\ VerifiedIsSaved'
    BY <1>2, <1>3, <2>1, <2>3 DEF VerifiedKept, VerifiedIsSaved, Keeping, RDAt
  <2>5. UndecidedYet' /\ IntactUntilQueued' /\ LoadedIsCurrent'
    BY <2>3 DEF UndecidedYet, IntactUntilQueued, LoadedIsCurrent, Deciding, RDAt
  <2>6. AnnouncedIsComplete'
    BY <2>1 DEF AnnouncedIsComplete, IsComplete
  <2> QED BY <2>4, <2>5, <2>6
<1>8. CASE ClearData(p)
  <2>1. /\ rd[p].pc = "clear" /\ rd'[p] = RDAt("check", i)
        /\ bits' = bits /\ completeCalled' = completeCalled
    BY <1>8 DEF ClearData, RDStep, TypeOK
  <2>2. /\ \A j \in Piece : j # i => Pieces'[j] = Pieces[j]
        /\ Pieces'[i].verified = Pieces[i].verified
        /\ Pieces'[i].exists = Pieces[i].exists
        /\ Pieces'[i].complete = Pieces[i].complete
        /\ Pieces[i].exists /\ Pieces[i].complete => Pieces'[i].freed
    BY <1>1, <1>8 DEF ClearData, ClearPieceData, TypeOK, PMTypeOK, PieceState
  <2>3. VerifiedKept' /\ VerifiedIsSaved'
    BY <1>2, <2>1, <2>2 DEF VerifiedKept, VerifiedIsSaved
  <2>4. UndecidedYet' /\ IntactUntilQueued' /\ LoadedIsCurrent'
    BY <2>1 DEF UndecidedYet, IntactUntilQueued, LoadedIsCurrent, Deciding, RDAt
  <2>5. AnnouncedIsComplete'
    BY <1>1, <2>1, <2>2 DEF AnnouncedIsComplete, IsComplete
  <2> QED BY <2>3, <2>4, <2>5
<1>9. CASE CheckLast(p)
  <2>1. /\ Pieces' = Pieces /\ bits' = bits /\ rd[p].pc = "check"
        /\ rd'[p] = RDAt("read", 0)
        /\ completeCalled' = (completeCalled \/ IsComplete)
    BY <1>9 DEF CheckLast, TypeOK, pmVars
  <2>2. VerifiedKept' /\ VerifiedIsSaved'
    BY <1>2, <2>1 DEF VerifiedKept, VerifiedIsSaved, Keeping
  <2>3. UndecidedYet' /\ IntactUntilQueued' /\ LoadedIsCurrent'
    BY <2>1 DEF UndecidedYet, IntactUntilQueued, LoadedIsCurrent, Deciding, RDAt
  <2>4. AnnouncedIsComplete'
    BY <2>1 DEF AnnouncedIsComplete, IsComplete
  <2> QED BY <2>2, <2>3, <2>4
<1>10. CASE RemoveFailed(p)
  <2>1. /\ rd[p].pc = "remove" /\ rd'[p] = RDAt("read", 0)
        /\ bits' = bits /\ completeCalled' = completeCalled
    BY <1>10 DEF RemoveFailed, RDStep, TypeOK
  <2>2. ~Pieces[i].verified
    BY <1>1, <2>1 DEF UndecidedYet, Deciding
  <2>3. /\ \A j \in Piece : j # i => Pieces'[j] = Pieces[j]
        /\ ~Pieces'[i].verified
    BY <1>1, <1>10 DEF RemoveFailed, RemovePiece, Absent, TypeOK, PMTypeOK
  <2>4. VerifiedKept' /\ VerifiedIsSaved'
    BY <1>2, <2>1, <2>3 DEF VerifiedKept, VerifiedIsSaved, Keeping
  <2>5. UndecidedYet' /\ IntactUntilQueued' /\ LoadedIsCurrent'
    BY <2>1 DEF UndecidedYet, IntactUntilQueued, LoadedIsCurrent, Deciding, RDAt
  <2>6. AnnouncedIsComplete'
    BY <1>1, <2>1, <2>2 DEF AnnouncedIsComplete, IsComplete
  <2> QED BY <2>4, <2>5, <2>6
<1> QED BY <1>4, <1>5, <1>6, <1>7, <1>8, <1>9, <1>10 DEF HandleMessage

(* Every step keeps it.                                                    *)
LEMMA NextSingle ==
  ASSUME NEW p, Peers = {p}, SingleInv, [Next]_vars
  PROVE  SingleInv'
<1>1. TypeOK'
  BY NextType DEF SingleInv
<1>2. Elsewhere \/ Initialize(p) \/ Incoming(p) \/ HandleMessage(p)
  BY StepCases DEF SingleInv
<1> QED BY <1>1, <1>2, QuietStep, InitializeSingle, HandleSingle

(* With one peer a verified piece has its bit set, or is about to.         *)
THEOREM SinglePeerSaves ==
  ASSUME NEW only, Peers = {only}
  PROVE  Spec => []VerifiedIsSaved
<1>1. Init => SingleInv
  BY InitSingle
<1>2. SingleInv /\ [Next]_vars => SingleInv'
  BY NextSingle
<1>3. SingleInv => VerifiedIsSaved
  BY DEF SingleInv
<1> QED BY <1>1, <1>2, <1>3, PTL DEF Spec

(* With one peer the reader hands the verified bytes of a piece over right *)
(* after it saved its bit.                                                 *)
THEOREM SinglePeerQueues ==
  ASSUME NEW only, Peers = {only}
  PROVE  Spec => SavedIsQueued
<1> DEFINE Step == \A p \in Peers : rd[p].pc = "queue" /\ rd'[p].pc # "queue"
                                     => <<rd[p].piece, "good">> \in queued'
<1>1. Init => SingleInv
  BY InitSingle
<1>2. SingleInv /\ [Next]_vars => SingleInv'
  BY NextSingle
<1>3. SingleInv /\ [Next]_vars => [Step]_vars
  <2> SUFFICES ASSUME SingleInv, [Next]_vars, rd[only].pc = "queue", rd'[only].pc # "queue"
               PROVE  <<rd[only].piece, "good">> \in queued'
    OBVIOUS
  <2>1. HandleMessage(only)
    <3>1. ~Elsewhere /\ ~Initialize(only) /\ ~Incoming(only)
      BY DEF Elsewhere, Initialize, DLStep, Incoming
    <3> QED BY <3>1, StepCases DEF SingleInv
  <2>2. QueuePiece(only)
    BY <2>1 DEF HandleMessage, StoreBlock, Verify, LoadBits, StoreBits, QueuePiece, ClearData,
                CheckLast, RemoveFailed, RDStep
  <2>3. PieceData(rd[only].piece) = "good"
    BY DEF SingleInv, IntactUntilQueued, Verifies, PieceData, HashMatches
  <2> QED BY <2>2, <2>3 DEF QueuePiece
<1> QED BY <1>1, <1>2, <1>3, PTL DEF Spec, SavedIsQueued

(* With one peer the goroutines implement Acquisition: whatever that peer  *)
(* sends and whatever fails, a verified piece is never given up, and       *)
(* completion is announced only when every piece is verified.              *)
THEOREM SinglePeerRefines ==
  ASSUME NEW only, Peers = {only}
  PROVE  Spec => ImplementsAcquisition
<1> DEFINE Target == <<Verified, completeCalled>>
<1>1. Init => SingleInv
  BY InitSingle
<1>2. SingleInv /\ [Next]_vars => SingleInv'
  BY NextSingle
<1>3. Init => Abstract!Init
  <2> SUFFICES ASSUME Init PROVE Abstract!Init
    OBVIOUS
  <2>1. PICK resumed \in (SUBSET Piece) \ {Piece} : PMInit(resumed)
    BY DEF Init
  <2>2. Verified = resumed
    BY <2>1 DEF PMInit, Verified, FromBitfield, Absent
  <2> QED BY <2>1, <2>2 DEF Init, Abstract!Init
<1>4. SingleInv /\ [Next]_vars => [Abstract!Next]_Target
  <2> SUFFICES ASSUME SingleInv, [Next]_vars
               PROVE  Abstract!Next \/ UNCHANGED Target
    OBVIOUS
  <2> DEFINE i == rd[only].piece
  <2>1. i \in Piece
    BY DEF SingleInv, TypeOK, RDState
  <2>2. CASE Elsewhere \/ Incoming(only)
    BY <2>2 DEF Elsewhere, Incoming, Verified
  <2>3. CASE Initialize(only)
    <3>1. \A j \in Piece : Pieces'[j].verified = Pieces[j].verified
      BY <2>3 DEF Initialize, InitializePiece, Started, Absent, SingleInv, VerifiedKept,
                  TypeOK, PMTypeOK, PieceState, DLState
    <3> QED BY <2>3, <3>1 DEF Initialize, DLStep, sessionVars, Verified
  <2>4. CASE StoreBlock(only)
    <3>1. \A j \in Piece : Pieces'[j].verified = Pieces[j].verified
      BY <2>4, AddBlockEffect DEF StoreBlock, SingleInv, TypeOK, RDState
    <3> QED BY <2>4, <3>1 DEF StoreBlock, RDStep, Verified
  <2>5. CASE Verify(only)
    <3>1. i \notin Verified /\ rd[only].pc = "verify"
      BY <2>1, <2>5 DEF Verify, RDStep, SingleInv, UndecidedYet, Deciding, Verified
    <3>2. Verified' = IF Verifies(i) THEN Verified \cup {i} ELSE Verified
      BY <2>1, <2>5 DEF Verify, VerifyPiece, SingleInv, TypeOK, PMTypeOK, PieceState, Verified
    <3>3. completeCalled' = completeCalled
      BY <2>5 DEF Verify, RDStep
    <3> QED BY <2>1, <3>1, <3>2, <3>3 DEF Abstract!Next, Abstract!Acquire
  <2>6. CASE LoadBits(only) \/ StoreBits(only) \/ QueuePiece(only)
    BY <2>6 DEF LoadBits, StoreBits, QueuePiece, RDStep, pmVars, Verified
  <2>7. CASE ClearData(only)
    <3>1. \A j \in Piece : Pieces'[j].verified = Pieces[j].verified
      BY <2>1, <2>7 DEF ClearData, ClearPieceData, SingleInv, TypeOK, PMTypeOK, PieceState
    <3> QED BY <2>7, <3>1 DEF ClearData, RDStep, Verified
  <2>8. CASE CheckLast(only)
    <3>1. Verified' = Verified /\ completeCalled' = (completeCalled \/ IsComplete)
      BY <2>8 DEF CheckLast, pmVars, Verified
    <3>2. completeCalled \in BOOLEAN
      BY DEF SingleInv, TypeOK
    <3>3. CASE IsComplete
      <4>1. Verified = Piece
        BY <3>3 DEF IsComplete, Verified
      <4> QED BY <3>1, <3>3, <4>1 DEF Abstract!Next, Abstract!Announce
    <3>4. CASE ~IsComplete
      BY <3>1, <3>2, <3>4
    <3> QED BY <3>3, <3>4
  <2>9. CASE RemoveFailed(only)
    <3>1. ~Pieces[i].verified
      BY <2>1, <2>9 DEF RemoveFailed, RDStep, SingleInv, UndecidedYet, Deciding
    <3>2. \A j \in Piece : Pieces'[j].verified <=> Pieces[j].verified
      BY <2>1, <2>9, <3>1 DEF RemoveFailed, RemovePiece, Absent, SingleInv, TypeOK, PMTypeOK
    <3> QED BY <2>9, <3>2 DEF RemoveFailed, RDStep, Verified
  <2> QED BY <2>2, <2>3, <2>4, <2>5, <2>6, <2>7, <2>8, <2>9, StepCases
          DEF SingleInv, HandleMessage
<1> QED BY <1>1, <1>2, <1>3, <1>4, PTL DEF Spec, ImplementsAcquisition, Abstract!Spec

=============================================================================
