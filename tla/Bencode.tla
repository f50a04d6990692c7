------------------------------ MODULE Bencode ------------------------------
(***************************************************************************)
(* The bencoding parser (internal/bencoding): what it makes of a sequence  *)
(* of bytes, and what the client takes from a torrent's file and from a    *)
(* tracker's answer.                                                       *)
(*                                                                         *)
(* A byte is a number.  A BencodedObject is a pair of its type and its     *)
(* value; a dictionary is the set of its pairs, no two of one key.  An     *)
(* error is Fail, whichever it is: the code only tells them apart in its   *)
(* log.  strconv's limits and the overflow of start + size are out of the  *)
(* model's reach: its numbers are short.                                   *)
(*                                                                         *)
(* What calls itself is a recursive function, of which it can be proved    *)
(* what it does for every input.                                           *)
(***************************************************************************)
EXTENDS Naturals, Integers, SequencesExt

CONSTANT Depth          \* how deep objects nest: any number

Strings == Seq(0..255)

Digit(n) == 48 + n
Digits == Digit(0)..Digit(9)
Colon == 58
Minus == 45
Plus == 43
Dot == 46
I == 105
D == 100
L == 108
E == 101

String(bytes) == <<"BenString", bytes>>
Integer(n) == <<"BenInteger", n>>
List(objects) == <<"BenList", objects>>
Dict(pairs) == <<"BenDict", pairs>>

KeysOf(dict) == {pair[1] : pair \in dict}
ValueOf(dict, key) == (CHOOSE pair \in dict : pair[1] = key)[2]

Fail == [ok |-> FALSE]
Parsed(value, rest) == [ok |-> TRUE, value |-> value, rest |-> rest]

-----------------------------------------------------------------------------
Behind(data, n) == SubSeq(data, n + 1, Len(data))

IndexByte(data, byte) == SelectInSeq(data, LAMBDA b : b = byte)

AllDigits(bytes) == bytes # <<>> /\ \A k \in DOMAIN bytes : bytes[k] \in Digits

Number[bytes \in Strings] ==
  IF bytes = <<>> THEN 0 ELSE 10 * Number[Front(bytes)] + (Last(bytes) - Digit(0))

(* Leading zeros of the length are let through.                            *)
ParseString(data) ==
  LET colon == IndexByte(data, Colon)
      size == SubSeq(data, 1, colon - 1)
      end == colon + Number[size]
  IN IF colon # 0 /\ AllDigits(size) /\ end <= Len(data)
     THEN Parsed(SubSeq(data, colon + 1, end), Behind(data, end))
     ELSE Fail

(* What strconv.ParseInt reads: a sign, a plus too, and digits.            *)
Signed(num) == num # <<>> /\ num[1] \in {Minus, Plus}
Magnitude(num) == IF Signed(num) THEN Tail(num) ELSE num
Value(num) == IF num[1] = Minus THEN -Number[Magnitude(num)] ELSE Number[Magnitude(num)]

ParseInteger(data) ==
  LET end == IndexByte(data, E)
      num == SubSeq(data, 2, end - 1)
  IN IF /\ Len(data) >= 3
        /\ data[1] = I
        /\ end # 0
        /\ ~(Len(num) > 1 /\ num[1] = Digit(0))
        /\ num # <<Minus, Digit(0)>>
        /\ AllDigits(Magnitude(num))
     THEN Parsed(Value(num), Behind(data, end))
     ELSE Fail

As(type, parsed) == IF parsed.ok THEN Parsed(<<type, parsed.value>>, parsed.rest) ELSE Fail

(* parse is the parser itself, of an object or of what is left of a list   *)
(* or a dictionary.                                                        *)
ListBy(parse, data) ==
  IF Len(data) < 2 \/ data[1] # L THEN Fail ELSE parse[<<"items", Tail(data)>>]

DictBy(parse, data) ==
  IF Len(data) < 2 \/ data[1] # D THEN Fail ELSE parse[<<"pairs", Tail(data)>>]

ObjectBy(parse, data) ==
  IF data = <<>> THEN Fail
  ELSE CASE data[1] = I -> As("BenInteger", ParseInteger(data))
         [] data[1] = D -> As("BenDict", DictBy(parse, data))
         [] data[1] = L -> As("BenList", ListBy(parse, data))
         [] OTHER -> As("BenString", ParseString(data))

ItemsBy(parse, data) ==
  LET obj == parse[<<"object", data>>]
      more == parse[<<"items", obj.rest>>]
  IN IF data = <<>> THEN Fail
     ELSE IF data[1] = E THEN Parsed(<<>>, Tail(data))
     ELSE IF obj.ok /\ more.ok THEN Parsed(<<obj.value>> \o more.value, more.rest)
     ELSE Fail

(* A key that comes again replaces the value it had; keys in any order.    *)
PairsBy(parse, data) ==
  LET key == ParseString(data)
      obj == parse[<<"object", key.rest>>]
      more == parse[<<"pairs", obj.rest>>]
      pair == IF key.value \in KeysOf(more.value) THEN {} ELSE {<<key.value, obj.value>>}
  IN IF data = <<>> THEN Fail
     ELSE IF data[1] = E THEN Parsed({}, Tail(data))
     ELSE IF key.ok /\ obj.ok /\ more.ok THEN Parsed(more.value \cup pair, more.rest)
     ELSE Fail

Calls == {"object", "items", "pairs"} \X Strings

Parsing[call \in Calls] ==
  CASE call[1] = "object" -> ObjectBy(Parsing, call[2])
    [] call[1] = "items" -> ItemsBy(Parsing, call[2])
    [] OTHER -> PairsBy(Parsing, call[2])

ParseObject(data) == Parsing[<<"object", data>>]
ParseList(data) == ListBy(Parsing, data)
ParseDict(data) == DictBy(Parsing, data)

-----------------------------------------------------------------------------
(* A torrent's file.                                                       *)

InfoKey == <<105, 110, 102, 111>>                   \* "info"
FilesKey == <<102, 105, 108, 101, 115>>             \* "files"

Consumed(data, rest) == SubSeq(data, 1, Len(data) - Len(rest))

(* Faulty variant: the first value of the name info at any depth is taken. *)
FirstInfo[data \in Strings] ==
  LET key == ParseString(data)
      obj == ParseObject(key.rest)
  IN IF data = <<>> THEN Fail
     ELSE IF key.ok /\ key.value = InfoKey /\ obj.ok
     THEN Parsed(Consumed(key.rest, obj.rest), <<>>)
     ELSE FirstInfo[Tail(data)]

ExtractFirstInfo(data) == FirstInfo[data]

(* The raw bytes of the value of the first key info, which is not the one  *)
(* ParseDict keeps when there are two.                                     *)
InfoBytes[data \in Strings] ==
  LET key == ParseString(data)
      obj == ParseObject(key.rest)
  IN IF data = <<>> \/ data[1] = E \/ ~key.ok \/ ~obj.ok THEN Fail
     ELSE IF key.value = InfoKey THEN Parsed(Consumed(key.rest, obj.rest), <<>>)
     ELSE InfoBytes[obj.rest]

ExtractInfoDictBytes(data) ==
  IF Len(data) < 2 \/ data[1] # D THEN Fail ELSE InfoBytes[Tail(data)]

(* The hash of the info bytes stands for itself: no two collide.           *)
ParseTorrentFile(data) ==
  LET metainfo == ParseDict(data)
      info == ExtractInfoDictBytes(data)
  IN IF /\ metainfo.ok /\ info.ok
        /\ InfoKey \in KeysOf(metainfo.value)
        /\ ValueOf(metainfo.value, InfoKey)[1] = "BenDict"
     THEN [ok |-> TRUE,
           Data |-> metainfo.value,
           TFileMode |-> IF FilesKey \in KeysOf(ValueOf(metainfo.value, InfoKey)[2])
                         THEN "MultiFileMode" ELSE "SingleFileMode",
           InfoHash |-> info.value]
     ELSE Fail

(* The object that the next start of the program finds: MarshalJSON and    *)
(* UnmarshalJSON leave a string its bytes, by way of base64.  A list or a  *)
(* dictionary that is empty is left out of the JSON and comes back as nil, *)
(* and a byte of a key that is not part of a character comes back as the   *)
(* three bytes of U+FFFD.  (The model's keys have no other bytes above 127 *)
(* than such.)                                                             *)
JsonText(bytes) ==
  FlattenSeq([k \in DOMAIN bytes |-> IF bytes[k] < 128 THEN <<bytes[k]>> ELSE <<239, 191, 189>>])

ReloadedString(bytes) == bytes

Scalars == ({"BenString"} \X Strings) \cup ({"BenInteger"} \X Int)

Objects[n \in Nat] ==
  IF n = 0 THEN Scalars
  ELSE Objects[n - 1] \cup ({"BenList"} \X Seq(Objects[n - 1]))
                      \cup ({"BenDict"} \X SUBSET (Strings \X Objects[n - 1]))

AllObjects == Objects[Depth]

Each(f, objects) == [k \in DOMAIN objects |-> f[objects[k]]]

ReloadedDictBy(reload, dict) ==
  {<<text, reload[ValueOf(dict, CHOOSE key \in KeysOf(dict) : JsonText(key) = text)]>> :
     text \in {JsonText(key) : key \in KeysOf(dict)}}

Reloaded[object \in AllObjects] ==
  CASE object[1] = "BenInteger" -> object
    [] object[1] = "BenString" -> String(ReloadedString(object[2]))
    [] object[1] = "BenList" ->
         IF object[2] = <<>> THEN <<"BenList">>
         ELSE List(Each(Reloaded, object[2]))
    [] OTHER ->
         IF object[2] = {} THEN <<"BenDict">> ELSE Dict(ReloadedDictBy(Reloaded, object[2]))

ReloadedDict(dict) == ReloadedDictBy(Reloaded, dict)

-----------------------------------------------------------------------------
(* A tracker's answer.                                                     *)

PeersKey == <<112, 101, 101, 114, 115>>             \* "peers"
IpKey == <<105, 112>>                               \* "ip"
PortKey == <<112, 111, 114, 116>>                   \* "port"

Decimal[n \in Nat] == IF n < 10 THEN <<Digit(n)>> ELSE Append(Decimal[n \div 10], Digit(n % 10))

(* Sprintf("%d.%d.%d.%d", ...)                                             *)
Dotted(ip) ==
  Decimal[ip[1]] \o <<Dot>> \o Decimal[ip[2]] \o <<Dot>> \o Decimal[ip[3]] \o <<Dot>> \o Decimal[ip[4]]

(* Faulty variant: the bytes of the port the other way round.              *)
LittleEndian(bytes) == bytes[5] + 256 * bytes[6]

BigEndianPort(bytes) == 256 * bytes[5] + bytes[6]

Peer(address, port) == [PeerAddress |-> address, PeerPort |-> port]

CompactPeers(bytes) ==
  [k \in 1..(Len(bytes) \div 6) |->
     LET six == SubSeq(bytes, 6 * k - 5, 6 * k) IN Peer(Dotted(six), BigEndianPort(six))]

Has(dict, key, type) == key \in KeysOf(dict) /\ ValueOf(dict, key)[1] = type

(* Elements that do not name a peer are passed over.                       *)
NamesPeer(obj) ==
  obj[1] = "BenDict" /\ Has(obj[2], IpKey, "BenString") /\ Has(obj[2], PortKey, "BenInteger")

PeerOf(obj) ==
  IF NamesPeer(obj)
  THEN <<Peer(ValueOf(obj[2], IpKey)[2], ValueOf(obj[2], PortKey)[2])>>
  ELSE <<>>

ListedPeers(objects) == FlattenSeq([k \in DOMAIN objects |-> PeerOf(objects[k])])

ExtractPeersFromTrackerResponse(data) ==
  LET peers == ValueOf(data, PeersKey)[2] IN
  IF Has(data, PeersKey, "BenString") /\ Len(peers) % 6 = 0
  THEN Parsed(CompactPeers(peers), <<>>)
  ELSE IF Has(data, PeersKey, "BenList") THEN Parsed(ListedPeers(peers), <<>>)
  ELSE Fail

(* SendTrackerRequest and InitiateDownloadSequence: what is left of the    *)
(* body after the dictionary is ignored.                                   *)
AnnouncedPeers(body) ==
  LET response == ParseDict(body)
  IN IF response.ok THEN ExtractPeersFromTrackerResponse(response.value) ELSE Fail

=============================================================================
