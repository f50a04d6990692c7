----------------------------- MODULE MCExchange -----------------------------
(* Small files, answers and messages for TLC.                              *)
EXTENDS Exchange

CONSTANT MCTwice        \* whether a file may say info twice, or nothing

a == <<97>>
b == <<98>>

(* Strings that look like bencoding, and bytes above 127.                  *)
Decoy == String(<<52, 58>> \o InfoKey \o <<100, 101>>)
Binary == String(<<0, 255, 101>>)

Infos ==
  {Dict(<<<<a, Integer(-10)>>, <<InfoKey, Dict(<<<<b, Binary>>>>)>>>>),
   Dict(<<<<FilesKey, List(<<Dict(<<<<a, Integer(0)>>>>), List(<<Binary>>)>>)>>>>)}

Others == {Decoy, List(<<Decoy, Integer(7)>>), Dict(<<<<InfoKey, Dict(<<<<a, Binary>>>>)>>>>)}

Orders == {<<1, 2, 3>>, <<2, 3, 1>>, <<3, 2, 1>>}

InAnyOrder(pairs) == {Dict([k \in DOMAIN pairs |-> pairs[o[k]]]) : o \in Orders}

MCMetainfos ==
  UNION {InAnyOrder(<<<<a, String(a)>>, <<InfoKey, i>>, <<b, o>>>>) : i \in Infos, o \in Others}
    \cup IF MCTwice
         THEN InAnyOrder(<<<<InfoKey, Dict(<<<<a, Integer(1)>>>>)>>, <<b, List(<<>>)>>,
                           <<InfoKey, Dict(<<<<b, Integer(2)>>>>)>>>>)
         ELSE {}

(* Two peers, as a tracker writes them in either form, and what has to     *)
(* come of them.                                                           *)
Address1 == <<49, 48, 46, 48, 46, 48, 46, 50, 53, 53>>                \* "10.0.0.255"
Address2 == <<49, 57, 50, 46, 49, 46, 50, 46, 51>>                    \* "192.1.2.3"

Meant1 == Peer(Address1, 6881)
Meant2 == Peer(Address2, 80)

Compact1 == <<10, 0, 0, 255, 26, 225>>
Compact2 == <<192, 1, 2, 3, 0, 80>>

InList(peer) ==
  Dict(<<<<IpKey, String(peer.PeerAddress)>>, <<PortKey, Integer(peer.PeerPort)>>>>)

Answer(peers) == Dict(<<<<a, Integer(1800)>>, <<PeersKey, peers>>>>)

MCAnswersMeant ==
  {[answer |-> Answer(String(Compact1 \o Compact2)), peers |-> <<Meant1, Meant2>>],
   [answer |-> Answer(String(Compact2)), peers |-> <<Meant2>>],
   [answer |-> Answer(String(<<>>)), peers |-> <<>>],
   [answer |-> Answer(List(<<InList(Meant1), InList(Meant2)>>)), peers |-> <<Meant1, Meant2>>],
   [answer |-> Answer(List(<<Integer(1), Dict(<<<<IpKey, String(a)>>>>), InList(Meant1)>>)),
    peers |-> <<Meant1>>]}

MCTrailers == {<<>>, <<E>>}

ASSUME OneInfoAssumption == MCTwice \/ OneInfo

(* Pieces 7 and 9 of ten, and haves with a byte too much and too few.      *)
MCMessages ==
  {Message(KeepAlive, <<>>), Message(MsgChoke, <<>>), Message(MsgUnchoke, <<>>),
   Message(MsgHave, BigEndian(9)), Message(MsgHave, BigEndian(9) \o <<0>>),
   Message(MsgHave, <<0, 9>>), Message(MsgBitfield, <<1, 0>>),
   Message(MsgPiece, BigEndian(1) \o BigEndian(0) \o <<5, 1>>)}

=============================================================================
