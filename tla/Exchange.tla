------------------------------ MODULE Exchange ------------------------------
(***************************************************************************)
(* What the client reads from outside, one thing after the other: the      *)
(* torrent's file, its own copy of it at a later start, the tracker's      *)
(* answer, and then the bytes of one of the peers the answer names.  The   *)
(* parser is in Bencode, the connection in Wire.                           *)
(*                                                                         *)
(* A file or an answer is written down from a value (source), with         *)
(* something after it, and may have been cut short.  Dictionaries of a     *)
(* source are sequences of pairs: their writer chooses the order of the    *)
(* keys.                                                                   *)
(***************************************************************************)
EXTENDS Bencode, Wire

CONSTANTS
  Metainfos,    \* what the torrent's file may say
  AnswersMeant, \* what the tracker may answer, with the peers it means
  Trailers      \* what may come after either

VARIABLES
  doing,        \* what the client is at
  source,       \* what the file or the answer was written down from
  bytes,        \* the file, or the body of the answer
  result        \* what the parser made of it

reading == <<doing, source, bytes, result>>
vars == <<reading, wireVars>>

-----------------------------------------------------------------------------
(* Bencoding, by its definition, and what a value means.                   *)

Values[n \in Nat] ==
  IF n = 0 THEN Scalars
  ELSE Values[n - 1] \cup ({"BenList"} \X Seq(Values[n - 1]))
                     \cup ({"BenDict"} \X Seq(Strings \X Values[n - 1]))

AllValues == Values[Depth]

EncodeString(s) == Decimal[Len(s)] \o <<Colon>> \o s

EncodeInteger(n) == <<I>> \o (IF n < 0 THEN <<Minus>> \o Decimal[-n] ELSE Decimal[n]) \o <<E>>

EachPair(encode, pairs) ==
  [k \in DOMAIN pairs |-> EncodeString(pairs[k][1]) \o encode[pairs[k][2]]]

Encode[v \in AllValues] ==
  CASE v[1] = "BenString" -> EncodeString(v[2])
    [] v[1] = "BenInteger" -> EncodeInteger(v[2])
    [] v[1] = "BenList" -> <<L>> \o FlattenSeq(Each(Encode, v[2])) \o <<E>>
    [] OTHER -> <<D>> \o FlattenSeq(EachPair(Encode, v[2])) \o <<E>>

Keys(pairs) == {pairs[k][1] : k \in DOMAIN pairs}
At(pairs, key) == (CHOOSE k \in DOMAIN pairs : pairs[k][1] = key)

(* Of two pairs with one key the last counts.                              *)
LastOfKey(pairs, k) == \A j \in DOMAIN pairs : pairs[j][1] = pairs[k][1] => j <= k

LastPairs(pairs, mean) ==
  {<<pairs[k][1], mean[pairs[k][2]]>> : k \in {k \in DOMAIN pairs : LastOfKey(pairs, k)}}

Meaning[v \in AllValues] ==
  CASE v[1] \in {"BenString", "BenInteger"} -> v
    [] v[1] = "BenList" -> List(Each(Meaning, v[2]))
    [] OTHER -> Dict(LastPairs(v[2], Meaning))

(* The value of a key, in a dictionary that has it.                        *)
Said(pairs, key) ==
  pairs[CHOOSE k \in DOMAIN pairs : pairs[k][1] = key /\ LastOfKey(pairs, k)][2]

Gives(v, key, type) == v[1] = "BenDict" /\ key \in Keys(v[2]) /\ Said(v[2], key)[1] = type

(* Peers in either form, by the definition of the protocol.                *)
InSixBytes(peer, six) ==
  /\ peer = Peer(Dotted(six), peer.PeerPort) /\ peer.PeerPort \in Nat
  /\ SubSeq(six, 5, 6) = <<peer.PeerPort \div 256, peer.PeerPort % 256>>

InCompactForm(peers, string) ==
  /\ Len(string) = 6 * Len(peers)
  /\ \A k \in DOMAIN peers : InSixBytes(peers[k], SubSeq(string, 6 * k - 5, 6 * k))

PeerSaid(v) ==
  IF Gives(v, IpKey, "BenString") /\ Gives(v, PortKey, "BenInteger")
  THEN <<Peer(Said(v[2], IpKey)[2], Said(v[2], PortKey)[2])>>
  ELSE <<>>

InListForm(peers, list) == peers = FlattenSeq([k \in DOMAIN list |-> PeerSaid(list[k])])

None == <<>>

Answers == {a.answer : a \in AnswersMeant}

(* A file and an answer are dictionaries; an answer says who the peers are. *)
ASSUME ExchangeAssumption ==
  /\ Depth \in Nat
  /\ Trailers \subseteq Strings
  /\ \A v \in Metainfos \cup Answers : v \in Values[Depth] /\ v[1] = "BenDict"
  /\ \A a \in AnswersMeant :
       a.peers \in Seq([PeerAddress : Strings, PeerPort : Int])
  /\ \A a \in AnswersMeant :
       \/ Gives(a.answer, PeersKey, "BenString") /\ InCompactForm(a.peers, Said(a.answer[2], PeersKey)[2])
       \/ Gives(a.answer, PeersKey, "BenList") /\ InListForm(a.peers, Said(a.answer[2], PeersKey)[2])

Written(v) ==
  /\ source' = v
  /\ \E tail \in Trailers : \E n \in 0..Len(Encode[v] \o tail) :
       bytes' = SubSeq(Encode[v] \o tail, 1, n)

-----------------------------------------------------------------------------
Init ==
  /\ doing = "file"
  /\ source \in Metainfos
  /\ \E tail \in Trailers : \E n \in 0..Len(Encode[source] \o tail) :
       bytes = SubSeq(Encode[source] \o tail, 1, n)
  /\ result = None
  /\ WireInit

(* os.ReadFile and ParseTorrentFile.                                       *)
ParseFile ==
  /\ doing = "file"
  /\ result' = ParseTorrentFile(bytes)
  /\ doing' = IF result'.ok THEN "stored" ELSE "refused"
  /\ UNCHANGED <<source, bytes, wireVars>>

(* StoreTorrentFileInDotfolder, and LoadTorrentFileFromPath at a later     *)
(* start of the program.                                                   *)
Reload ==
  /\ doing = "stored"
  /\ result' = [result EXCEPT !.Data = ReloadedDict(@)]
  /\ doing' = "reloaded"
  /\ UNCHANGED <<source, bytes, wireVars>>

(* The tracker answers; the file is not looked at any more.                *)
Announce(v) ==
  /\ doing \in {"stored", "reloaded"}
  /\ Written(v)
  /\ doing' = "answer"
  /\ result' = None
  /\ UNCHANGED wireVars

ParseAnswer ==
  /\ doing = "answer"
  /\ result' = AnnouncedPeers(bytes)
  /\ doing' = IF result'.ok THEN "peers" ELSE "unanswered"
  /\ UNCHANGED <<source, bytes, wireVars>>

(* ConnectToPeers, for one peer of the answer.                             *)
Connect ==
  /\ doing = "peers"
  /\ result.value # <<>>
  /\ doing' = "peer"
  /\ source' = None /\ bytes' = None /\ result' = None
  /\ UNCHANGED wireVars

Talking == doing = "peer" /\ UNCHANGED reading

(* The file or the answer is refused, no peer is named, the loop has       *)
(* ended, or the peer says nothing more and does not close.                *)
Stopped ==
  /\ \/ doing \in {"refused", "unanswered"}
     \/ doing = "peers" /\ result.value = <<>>
     \/ doing = "peer" /\ stage \in {"handshake", "ended", "panic"}
  /\ UNCHANGED vars

Next ==
  \/ ParseFile \/ Reload \/ ParseAnswer \/ Connect
  \/ \E v \in Answers : Announce(v)
  \/ Talking /\ WireNext
  \/ Stopped

Spec == Init /\ [][Next]_vars

(* The client keeps reading, and the end of a stream is an error at once.  *)
Fairness ==
  /\ WF_vars(Talking /\ (ReadHandshake \/ HandshakeFails))
  /\ WF_vars(Talking /\ (ReadByte \/ FirstMessage \/ HandleMessage))
  /\ WF_vars(Talking /\ StartReadLoop)
  /\ WF_vars(Talking /\ EndOfStream)

FairSpec == Spec /\ Fairness

-----------------------------------------------------------------------------
TypeOK ==
  /\ doing \in {"file", "refused", "stored", "reloaded", "answer", "unanswered", "peers", "peer"}
  /\ doing \in {"stored", "reloaded", "peers"} => result.ok
  /\ WireTypeOK

Complete == Len(bytes) >= Len(Encode[source])

(* A file says info once, and its value is a dictionary.                   *)
OneInfo ==
  \A v \in Metainfos : \E k \in DOMAIN v[2] :
    /\ v[2][k][1] = InfoKey /\ v[2][k][2][1] = "BenDict"
    /\ \A j \in DOMAIN v[2] : v[2][j][1] = InfoKey => j = k

(* A file is taken if and only if it is whole, whatever the order of its   *)
(* keys and whatever follows it; its data is what was written, and its     *)
(* info hash that of the info dictionary's own bytes, wherever else the    *)
(* name info comes in it (bencoding.go:197-246, parser.go:16-58).          *)
FileUnderstood ==
  /\ doing = "refused" => ~Complete
  /\ doing = "stored" =>
       /\ Complete
       /\ result.Data = Meaning[source][2]
       /\ result.InfoHash = Encode[source[2][At(source[2], InfoKey)][2]]

Plain[v \in AllValues] ==
  CASE v[1] = "BenList" -> v[2] # <<>> /\ \A k \in DOMAIN v[2] : Plain[v[2][k]]
    [] v[1] = "BenDict" -> /\ v[2] # <<>>
                           /\ \A k \in DOMAIN v[2] : /\ JsonText(v[2][k][1]) = v[2][k][1]
                                                    /\ Plain[v[2][k][2]]
    [] OTHER -> TRUE

(* The copy that a later start loads says what the file said, if no list   *)
(* or dictionary of it is empty and its keys are text: the strings, as the *)
(* hashes of the pieces, may hold any bytes (types.go:41-82).              *)
ReloadedIsSame == doing = "reloaded" /\ Plain[source] => result.Data = Meaning[source][2]

(* A tracker's answer is taken if and only if it is whole, and gives the   *)
(* peers the tracker meant, in their order, in the compact form as in the  *)
(* other: a peer has one address, by which ConnectToPeers knows it again   *)
(* (utils.go:53-125, tracker.go:249).                                      *)
PeersMeant(v) == (CHOOSE a \in AnswersMeant : a.answer = v).peers

PeersExact ==
  /\ doing = "unanswered" => ~Complete
  /\ doing = "peers" => Complete /\ result.value = PeersMeant(source)

-----------------------------------------------------------------------------
(* What the comments of the code say, and the code refutes.                *)

(* types.go:96: InfoBytes are the "raw bencoded bytes of the info dict",   *)
(* the one that Data has and the pieces are taken from.                    *)
HashIsOfData ==
  doing = "stored" => ParseObject(result.InfoHash).value = ValueOf(result.Data, InfoKey)

(* types.go:41, 59: the JSON form of an object is read back as the object. *)
ReloadKeepsAll == doing = "reloaded" => result.Data = Meaning[source][2]

=============================================================================
