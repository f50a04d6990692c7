-------------------------------- MODULE Wire --------------------------------
(***************************************************************************)
(* One connection to a peer, byte by byte: the handshake and the first     *)
(* message, which ConnectToPeers reads, and the messages of PeerReadLoop   *)
(* (internal/libnet/pwp.go, message.go, peer.go, internal/daemon/          *)
(* manager.go).  TCP keeps the order of the bytes and cuts them anywhere:  *)
(* the client reads them one at a time, and a deadline may pass between    *)
(* any two of them.                                                        *)
(*                                                                         *)
(* The remote peer keeps to the protocol: it answers the handshake, sends  *)
(* a bitfield as its first message or not at all, and whole messages.      *)
(***************************************************************************)
EXTENDS Naturals, Integers, SequencesExt

CONSTANTS
  HandshakeLength,  \* 68 in the code
  Messages,         \* what the peer may send
  MaxMessages       \* bound: how many messages it sends

VARIABLES
  sent,         \* the messages the peer has written after its handshake
  stream,       \* the bytes it has written that the client has not read
  closed,       \* the peer has closed its end
  stage,        \* who reads: ConnectToPeers, nobody, PeerReadLoop
  Status,       \* peer.Status, as ConnectToPeers leaves it
  buf,          \* the bytes of a message that ReadMessage has read so far
  read,         \* the messages ReadMessage has returned
  dropped,      \* how many bytes it had read when it failed
  PeerChoking,  \* peer.PeerChoking
  Bitfield      \* peer.Bitfield; <<>> is nil

remote == <<sent, closed>>
local == <<stage, Status, buf, read, dropped, PeerChoking, Bitfield>>
wireVars == <<remote, stream, local>>

-----------------------------------------------------------------------------
(* message.go.                                                             *)

KeepAlive == -1         \* m.ID is nil
MsgChoke == 0
MsgUnchoke == 1
MsgHave == 4
MsgBitfield == 5
MsgPiece == 7

Message(id, payload) == [ID |-> id, Payload |-> payload]

(* Four bytes, the first of which weighs most.                             *)
FirstByte(n) == ((n \div 256) \div 256) \div 256

BigEndian(n) ==
  <<FirstByte(n), ((n \div 256) \div 256) % 256, (n \div 256) % 256, n % 256>>

FromBigEndian(bytes) ==
  256 * (256 * (256 * bytes[1] + bytes[2]) + bytes[3]) + bytes[4]

(* A message without an ID is empty, and its length fits in four bytes.    *)
ASSUME WireAssumption ==
  /\ HandshakeLength \in Nat
  /\ MaxMessages \in Nat
  /\ Messages \subseteq [ID : -1..255, Payload : Seq(0..255)]
  /\ \A m \in Messages : /\ m.ID = KeepAlive => m.Payload = <<>>
                         /\ FirstByte(1 + Len(m.Payload)) < 256

Serialize(m) ==
  IF m.ID = KeepAlive THEN BigEndian(0)
  ELSE BigEndian(1 + Len(m.Payload)) \o <<m.ID>> \o m.Payload

Length(bytes) == FromBigEndian(SubSeq(bytes, 1, 4))

(* Faulty variant: the length is taken for that of the payload.            *)
NeededAfterID(bytes) ==
  IF Len(bytes) < 4 \/ Length(bytes) = 0 THEN 4
  ELSE IF Len(bytes) < 5 THEN 5
  ELSE 5 + Length(bytes)

(* How far ReadMessage reads before it looks at what it has: the length,   *)
(* the ID unless the length is 0, and the payload.                         *)
Needed(bytes) ==
  IF Len(bytes) < 4 \/ Length(bytes) = 0 THEN 4
  ELSE IF Len(bytes) < 5 THEN 5
  ELSE 5 + (Length(bytes) - 1)

Received(bytes) ==
  IF Length(bytes) = 0 THEN Message(KeepAlive, <<>>)
  ELSE Message(bytes[5], SubSeq(bytes, 6, Len(bytes)))

-----------------------------------------------------------------------------
(* peer.go: bit 7 of byte 0 is piece 0.                                    *)

Bit(i) == <<128, 64, 32, 16, 8, 4, 2, 1>>[(i % 8) + 1]
InRange(i) == i \div 8 < Len(Bitfield)
HasPiece(i) == InRange(i) /\ (Bitfield[i \div 8 + 1] \div Bit(i)) % 2 = 1

(* Faulty variant: the bits of a byte counted from the other end.          *)
SetLowBit(i) ==
  IF InRange(i) /\ ~HasPiece(i)
  THEN [Bitfield EXCEPT ![i \div 8 + 1] = @ + Bit(7 - (i % 8))]
  ELSE Bitfield

(* Nothing is set in a bitfield that is nil or too short.                  *)
SetBitInBitfield(i) ==
  IF InRange(i) /\ ~HasPiece(i)
  THEN [Bitfield EXCEPT ![i \div 8 + 1] = @ + Bit(i)]
  ELSE Bitfield

-----------------------------------------------------------------------------
WireInit ==
  /\ sent = <<>>
  /\ \E n \in 0..HandshakeLength : stream = [k \in 1..n |-> 19]
  /\ closed = FALSE
  /\ stage = "handshake"
  /\ Status = "handshaking"
  /\ buf = <<>>
  /\ read = <<>>
  /\ dropped = 0
  /\ PeerChoking = TRUE
  /\ Bitfield = <<>>

(* The remote peer; one that stops in its handshake has no more to say.    *)
PeerSends(m) ==
  /\ ~closed
  /\ stage = "handshake" => Len(stream) >= HandshakeLength
  /\ Len(sent) < MaxMessages
  /\ m.ID = MsgBitfield => sent = <<>>
  /\ sent' = Append(sent, m)
  /\ stream' = stream \o Serialize(m)
  /\ UNCHANGED <<closed, local>>

PeerCloses ==
  /\ ~closed
  /\ closed' = TRUE
  /\ UNCHANGED <<sent, stream, local>>

(* SendHandshakeToPeer reads the whole answer, without a deadline, and     *)
(* does not look at it.                                                    *)
ReadHandshake ==
  /\ stage = "handshake"
  /\ Len(stream) >= HandshakeLength
  /\ stream' = SubSeq(stream, HandshakeLength + 1, Len(stream))
  /\ stage' = "first"
  /\ UNCHANGED <<remote, Status, buf, read, dropped, PeerChoking, Bitfield>>

HandshakeFails ==
  /\ stage = "handshake"
  /\ closed /\ Len(stream) < HandshakeLength
  /\ stage' = "listed"
  /\ Status' = "failed"
  /\ stream' = <<>>
  /\ dropped' = Len(stream)
  /\ UNCHANGED <<remote, buf, read, PeerChoking, Bitfield>>

-----------------------------------------------------------------------------
(* ReadMessage, in ConnectToPeers and in PeerReadLoop.                     *)

Extended == Append(buf, Head(stream))

(* Faulty variant: it reads on after the last byte of a message.           *)
ReadOn ==
  /\ stage \in {"first", "loop"}
  /\ stream # <<>>
  /\ buf' = Extended
  /\ stream' = Tail(stream)
  /\ UNCHANGED <<remote, stage, Status, read, dropped, PeerChoking, Bitfield>>

ReadByte ==
  /\ stage \in {"first", "loop"}
  /\ stream # <<>>
  /\ Len(Extended) < Needed(Extended)
  /\ buf' = Extended
  /\ stream' = Tail(stream)
  /\ UNCHANGED <<remote, stage, Status, read, dropped, PeerChoking, Bitfield>>

(* The last byte of a message: ReadMessage returns it to its caller.       *)
ReadLastByte ==
  /\ stream # <<>>
  /\ Len(Extended) = Needed(Extended)
  /\ buf' = <<>>
  /\ stream' = Tail(stream)
  /\ read' = Append(read, Received(Extended))

(* Whatever it is, the first message makes the peer active; only a         *)
(* bitfield is used.                                                       *)
FirstMessage ==
  /\ stage = "first"
  /\ ReadLastByte
  /\ stage' = "listed"
  /\ Status' = "active"
  /\ LET m == Received(Extended) IN
       Bitfield' = IF m.ID = MsgBitfield THEN m.Payload ELSE Bitfield
  /\ UNCHANGED <<remote, dropped, PeerChoking>>

(* Ten seconds have passed, or the peer has closed: the error leaves the   *)
(* connection as it is, and what was read of the message is gone.          *)
FirstMessageFails ==
  /\ stage = "first"
  /\ stage' = "listed"
  /\ Status' = "failed"
  /\ dropped' = Len(buf)
  /\ buf' = <<>>
  /\ UNCHANGED <<remote, stream, read, PeerChoking, Bitfield>>

(* InitiateDownloadSequence starts the loop of every connection it finds,  *)
(* failed or not.                                                          *)
StartReadLoop ==
  /\ stage = "listed"
  /\ stage' = "loop"
  /\ UNCHANGED <<remote, stream, Status, buf, read, dropped, PeerChoking, Bitfield>>

HaveIndex(m) == FromBigEndian(SubSeq(m.Payload, 1, 4))

Announced(m) == SetBitInBitfield(HaveIndex(m))

(* Faulty variant: whatever a peer sends shows that it does not choke.     *)
HandleAsUnchoke ==
  /\ stage = "loop"
  /\ ReadLastByte
  /\ LET m == Received(Extended) IN
       /\ PeerChoking' = (m.ID = MsgChoke)
       /\ Bitfield' = IF m.ID = MsgHave THEN Announced(m) ELSE Bitfield
  /\ UNCHANGED <<remote, stage, Status, dropped>>

(* The switch of PeerReadLoop.  A bitfield is not among its cases; a piece *)
(* goes to the PieceManager (Download).  A have of less than four bytes    *)
(* ends the process.                                                       *)
HandleMessage ==
  /\ stage = "loop"
  /\ ReadLastByte
  /\ LET m == Received(Extended)
         short == m.ID = MsgHave /\ Len(m.Payload) < 4
     IN /\ PeerChoking' = CASE m.ID = MsgChoke -> TRUE
                             [] m.ID = MsgUnchoke -> FALSE
                             [] OTHER -> PeerChoking
        /\ Bitfield' = IF m.ID = MsgHave /\ ~short THEN Announced(m) ELSE Bitfield
        /\ stage' = IF short THEN "panic" ELSE stage
  /\ UNCHANGED <<remote, Status, dropped>>

(* PeerReadTimeout has passed since the last message.                      *)
ReadTimesOut ==
  /\ stage = "loop"
  /\ stage' = "ended"
  /\ dropped' = dropped + Len(buf)
  /\ buf' = <<>>
  /\ UNCHANGED <<remote, stream, Status, read, PeerChoking, Bitfield>>

(* Faulty variant: the end of the stream is noticed between messages only. *)
EndBetweenMessages ==
  /\ buf = <<>>
  /\ closed /\ stream = <<>>
  /\ FirstMessageFails \/ ReadTimesOut

(* io.EOF, or io.ErrUnexpectedEOF in the middle of a message.              *)
EndOfStream ==
  /\ closed /\ stream = <<>>
  /\ FirstMessageFails \/ ReadTimesOut

-----------------------------------------------------------------------------
(* The connection by itself.                                               *)
WireNext ==
  \/ \E m \in Messages : PeerSends(m)
  \/ PeerCloses
  \/ ReadHandshake \/ HandshakeFails
  \/ ReadByte \/ FirstMessage \/ HandleMessage
  \/ FirstMessageFails \/ StartReadLoop \/ ReadTimesOut \/ EndOfStream

WireSpec == WireInit /\ [][WireNext]_wireVars

-----------------------------------------------------------------------------
(* Types.  ReadMessage never holds more than a part of a message, and only *)
(* its two callers leave it with one.                                      *)
WireTypeOK ==
  /\ sent \in Seq(Messages) /\ Len(sent) <= MaxMessages
  /\ stream \in Seq(0..255)
  /\ closed \in BOOLEAN
  /\ stage \in {"handshake", "first", "listed", "loop", "ended", "panic"}
  /\ Status \in {"handshaking", "active", "failed"}
  /\ buf \in Seq(0..255)
  /\ buf # <<>> => stage \in {"first", "loop"} /\ Len(buf) < Needed(buf)
  /\ dropped \in Nat
  /\ PeerChoking \in BOOLEAN
  /\ Bitfield \in Seq(0..255)

AtRest == stage = "loop" /\ stream = <<>> /\ buf = <<>>

(* However TCP cuts the stream, and whatever the first message is, the     *)
(* client reads what the peer wrote, in that order, and nothing is left in *)
(* between when the stream is empty - if no ReadMessage failed in the      *)
(* middle of a message (message.go:32-110, pwp.go:46-48).                  *)
MessagesKept ==
  dropped = 0 => /\ IsPrefix(read, sent)
                 /\ AtRest => read = sent

Chokes(m) == m.ID \in {MsgChoke, MsgUnchoke}

(* Every unchoke among the messages is taken back by a later choke.        *)
ChokedBy(messages) ==
  \A k \in DOMAIN messages : messages[k].ID = MsgUnchoke =>
    \E j \in DOMAIN messages : j > k /\ messages[j].ID = MsgChoke

(* Once everything is read, the client knows whether it is choked, if the  *)
(* peer did not say so in the message that ConnectToPeers read             *)
(* (manager.go:291-297, 637-647).                                          *)
ChokeKnown ==
  AtRest /\ dropped = 0 /\ ~(Status = "active" /\ Chokes(sent[1]))
    => PeerChoking = ChokedBy(sent)

PieceIn(bytes, i) == i \div 8 < Len(bytes) /\ (bytes[i \div 8 + 1] \div Bit(i)) % 2 = 1

Says(m, i) ==
  \/ m.ID = MsgBitfield /\ PieceIn(m.Payload, i)
  \/ m.ID = MsgHave /\ Len(m.Payload) >= 4 /\ HaveIndex(m) = i

(* Once everything is read, the client knows the pieces of a peer whose    *)
(* bitfield came in time, and no others: so that it asks for what the peer *)
(* has (manager.go:299-301, 637-640, peer.go:76-124).                      *)
PiecesKnown ==
  AtRest /\ dropped = 0 /\ Status = "active" /\ sent[1].ID = MsgBitfield
    => \A i \in 0..(8 * Len(sent[1].Payload) - 1) :
         HasPiece(i) <=> \E k \in DOMAIN sent : Says(sent[k], i)

(* A peer that hangs up is noticed, in the middle of a message too.        *)
HangUpNoticed == closed ~> stage \in {"ended", "panic"}

-----------------------------------------------------------------------------
(* What the comments of the code say, and the code refutes.                *)

(* manager.go:633: the deadline is cleared "for subsequent messages        *)
(* (handled by PeerReadLoop)": its loop reads messages, and not the rest   *)
(* of one that ConnectToPeers began.                                       *)
LoopInStep == stage = "loop" => IsPrefix(read, sent)

(* manager.go:636: "Handle the message", whichever it is.                  *)
FirstHandled == AtRest /\ Status = "active" /\ dropped = 0 => PeerChoking = ChokedBy(sent)

(* peer.go:34: the Bitfield is that "of pieces this peer has".             *)
PiecesAlwaysKnown ==
  AtRest /\ dropped = 0 =>
    \A k \in DOMAIN sent, i \in 0..15 : Says(sent[k], i) => HasPiece(i)

=============================================================================
