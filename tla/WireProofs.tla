----------------------------- MODULE WireProofs -----------------------------
(***************************************************************************)
(* Theorems about Wire, for all messages and any number of them, every     *)
(* length of the handshake, and every way to cut the stream.  The steps of *)
(* Exchange change the variables of Wire by WireNext or not at all, so     *)
(* that they hold there too.                                               *)
(***************************************************************************)
EXTENDS Wire, SequenceTheorems, TLAPS

Octets == Seq(0..255)

-----------------------------------------------------------------------------
(* Lengths, and messages as bytes.                                         *)

LEMMA BigEndianFacts ==
  ASSUME NEW n \in Nat, FirstByte(n) < 256
  PROVE  /\ BigEndian(n) \in Octets /\ Len(BigEndian(n)) = 4
         /\ FromBigEndian(BigEndian(n)) = n
<1> DEFINE x == n \div 256
           y == x \div 256
           a == y \div 256
           b == y % 256
           c == x % 256
           d == n % 256
<1>1. a \in 0..255 /\ b \in 0..255 /\ c \in 0..255 /\ d \in 0..255
  BY DEF FirstByte
<1>2. n = 256 * (256 * (256 * a + b) + c) + d
  <2>1. n = 256 * x + d /\ x = 256 * y + c /\ y = 256 * a + b
    OBVIOUS
  <2>2. a \in Int /\ b \in Int /\ c \in Int /\ d \in Int
    BY <1>1
  <2> HIDE DEF x, y, a, b, c, d
  <2> QED BY <2>1, <2>2
<1> HIDE DEF a, b, c, d
<1>3. BigEndian(n) = <<a, b, c, d>>
  BY DEF BigEndian, FirstByte, a, b, c, d, x, y
<1>4. <<a, b, c, d>> \in Seq(0..255) /\ Len(<<a, b, c, d>>) = 4
  BY <1>1
<1>5. FromBigEndian(<<a, b, c, d>>) = 256 * (256 * (256 * a + b) + c) + d
  BY DEF FromBigEndian
<1> QED BY <1>2, <1>3, <1>4, <1>5 DEF Octets

(* The number in the first four of some bytes.                             *)
LEMMA FirstFour ==
  ASSUME NEW e \in Octets, Len(e) >= 4
  PROVE  /\ FromBigEndian(SubSeq(e, 1, 4)) = FromBigEndian(e)
         /\ FromBigEndian(e) \in Nat
         /\ e[1] \in 0..255 /\ e[2] \in 0..255 /\ e[3] \in 0..255 /\ e[4] \in 0..255
<1>1. Len(e) \in Nat /\ \A i \in 1..Len(e) : e[i] \in 0..255
  BY ElementOfSeq, LenProperties DEF Octets
<1>2. \A i \in 1..4 : e[i] \in 0..255
  BY <1>1
<1>3. \A i \in 1..4 : SubSeq(e, 1, 4)[i] = e[i]
  <2>1. \A i \in 1..4 - 1 + 1 : SubSeq(e, 1, 4)[i] = e[1 + i - 1]
    BY <1>2, SubSeqProperties
  <2> QED BY <2>1
<1>4. e[1] \in 0..255 /\ e[2] \in 0..255 /\ e[3] \in 0..255 /\ e[4] \in 0..255
  BY <1>2
<1>5. FromBigEndian(e) \in Nat
  <2> DEFINE a == e[1]
             b == e[2]
             c == e[3]
             d == e[4]
  <2>1. a \in 0..255 /\ b \in 0..255 /\ c \in 0..255 /\ d \in 0..255
    BY <1>4
  <2>2. FromBigEndian(e) = 256 * (256 * (256 * a + b) + c) + d
    BY DEF FromBigEndian
  <2> HIDE DEF a, b, c, d
  <2> QED BY <2>1, <2>2
<1>6. FromBigEndian(SubSeq(e, 1, 4)) = FromBigEndian(e)
  BY <1>3 DEF FromBigEndian
<1> QED BY <1>4, <1>5, <1>6

LEMMA MessageFields ==
  ASSUME NEW m \in Messages
  PROVE  /\ m.ID \in -1..255 /\ m.Payload \in Octets /\ Len(m.Payload) \in Nat
         /\ m = Message(m.ID, m.Payload)
         /\ m.ID = KeepAlive => m.Payload = <<>>
         /\ FirstByte(1 + Len(m.Payload)) < 256
<1>1. m \in [ID : -1..255, Payload : Seq(0..255)]
  BY WireAssumption
<1>2. m.ID \in -1..255 /\ m.Payload \in Seq(0..255) /\ m = [ID |-> m.ID, Payload |-> m.Payload]
  BY <1>1
<1>3. Len(m.Payload) \in Nat
  BY <1>2, LenProperties
<1> QED BY <1>2, <1>3, WireAssumption DEF Octets, Message, KeepAlive

(* What is where in the bytes of a message.                                *)
LEMMA SerializeFacts ==
  ASSUME NEW m \in Messages
  PROVE  /\ Serialize(m) \in Octets /\ Len(Serialize(m)) \in Nat /\ Len(Serialize(m)) >= 4
         /\ m.ID = KeepAlive =>
              Len(Serialize(m)) = 4 /\ FromBigEndian(Serialize(m)) = 0
         /\ m.ID # KeepAlive =>
              /\ Len(Serialize(m)) = 5 + Len(m.Payload)
              /\ FromBigEndian(Serialize(m)) = 1 + Len(m.Payload)
              /\ Serialize(m)[5] = m.ID
              /\ \A k \in 1..Len(m.Payload) : Serialize(m)[5 + k] = m.Payload[k]
<1>1. CASE m.ID = KeepAlive
  <2>1. Serialize(m) = BigEndian(0)
    BY <1>1 DEF Serialize
  <2>2. FirstByte(0) < 256
    BY DEF FirstByte
  <2>3. BigEndian(0) \in Octets /\ Len(BigEndian(0)) = 4 /\ FromBigEndian(BigEndian(0)) = 0
    BY <2>2, BigEndianFacts
  <2>4. Len(Serialize(m)) = 4 /\ FromBigEndian(Serialize(m)) = 0 /\ Serialize(m) \in Octets
    BY <2>1, <2>3
  <2> QED BY <1>1, <2>4
<1>2. CASE m.ID # KeepAlive
  <2> DEFINE h == BigEndian(1 + Len(m.Payload))
             i == <<m.ID>>
             p == m.Payload
             s == Serialize(m)
  <2>1. m.ID \in 0..255 /\ p \in Octets /\ Len(p) \in Nat
    BY <1>2, MessageFields DEF KeepAlive
  <2>2. h \in Octets /\ Len(h) = 4 /\ FromBigEndian(h) = 1 + Len(p)
    BY <2>1, MessageFields, BigEndianFacts
  <2>3. i \in Octets /\ Len(i) = 1 /\ i[1] = m.ID
    BY <2>1 DEF Octets
  <2>4. s = h \o i \o p
    BY <1>2 DEF Serialize
  <2> HIDE DEF h, i, p, s
  <2>5. /\ h \o i \in Octets /\ Len(h \o i) = 5
        /\ \A k \in 1..5 : (h \o i)[k] = IF k <= 4 THEN h[k] ELSE i[k - 4]
    <3>1. /\ h \o i \in Seq(0..255) /\ Len(h \o i) = Len(h) + Len(i)
          /\ \A k \in 1..Len(h) + Len(i) :
               (h \o i)[k] = IF k <= Len(h) THEN h[k] ELSE i[k - Len(h)]
      BY <2>2, <2>3, ConcatProperties DEF Octets
    <3> QED BY <2>2, <2>3, <3>1 DEF Octets
  <2>6. /\ s \in Octets /\ Len(s) = 5 + Len(p)
        /\ \A k \in 1..5 + Len(p) : s[k] = IF k <= 5 THEN (h \o i)[k] ELSE p[k - 5]
    BY <2>1, <2>4, <2>5, ConcatProperties DEF Octets
  <2>7. s[1] = h[1] /\ s[2] = h[2] /\ s[3] = h[3] /\ s[4] = h[4] /\ s[5] = m.ID
    BY <2>1, <2>3, <2>5, <2>6
  <2>8. FromBigEndian(s) = 1 + Len(p)
    BY <2>2, <2>7 DEF FromBigEndian
  <2>9. ASSUME NEW k \in 1..Len(p) PROVE s[5 + k] = p[k]
    <3>1. 5 + k \in 1..5 + Len(p) /\ ~(5 + k <= 5) /\ (5 + k) - 5 = k
      BY <2>1
    <3> QED BY <2>6, <3>1
  <2> QED BY <1>2, <2>1, <2>6, <2>7, <2>8, <2>9 DEF p, s
<1> QED BY <1>1, <1>2

(* e is how a message begins: ReadMessage goes on as long as it is not the *)
(* whole of it, and then has the message.                                  *)
LEMMA ReadsOneMessage ==
  ASSUME NEW m \in Messages, NEW e \in Octets, Len(e) \in 1..Len(Serialize(m)),
         \A k \in 1..Len(e) : e[k] = Serialize(m)[k]
  PROVE  /\ Len(e) < Len(Serialize(m)) <=> Len(e) < Needed(e)
         /\ Len(e) = Len(Serialize(m)) <=> Len(e) = Needed(e)
         /\ Len(e) = Len(Serialize(m)) => Received(e) = m
<1> DEFINE s == Serialize(m)
           p == m.Payload
<1>1. /\ Len(s) \in Nat /\ Len(s) >= 4 /\ Len(p) \in Nat
      /\ Len(e) \in 1..Len(s) /\ Len(e) \in Nat
      /\ m.ID = KeepAlive => Len(s) = 4 /\ FromBigEndian(s) = 0
      /\ m.ID # KeepAlive => /\ Len(s) = 5 + Len(p) /\ FromBigEndian(s) = 1 + Len(p)
                             /\ s[5] = m.ID /\ \A k \in 1..Len(p) : s[5 + k] = p[k]
  BY SerializeFacts, MessageFields
<1>2. Len(e) >= 4 => Length(e) = FromBigEndian(s)
  <2> SUFFICES ASSUME Len(e) >= 4 PROVE Length(e) = FromBigEndian(s)
    OBVIOUS
  <2>1. e[1] = s[1] /\ e[2] = s[2] /\ e[3] = s[3] /\ e[4] = s[4]
    BY <1>1
  <2>2. Length(e) = FromBigEndian(e)
    BY FirstFour DEF Length
  <2> QED BY <2>1, <2>2 DEF FromBigEndian
<1> HIDE DEF s
<1>3. CASE m.ID = KeepAlive
  <2>1. Len(s) = 4 /\ (Len(e) >= 4 => Length(e) = 0)
    BY <1>1, <1>2, <1>3
  <2>2. Needed(e) = 4
    BY <1>1, <2>1 DEF Needed
  <2>3. Len(e) >= 4 => Received(e) = m
    BY <1>3, <2>1, MessageFields DEF Received
  <2> QED BY <1>1, <2>1, <2>2, <2>3 DEF s
<1>4. CASE m.ID # KeepAlive
  <2>1. Len(s) = 5 + Len(p) /\ (Len(e) >= 4 => Length(e) = 1 + Len(p))
    BY <1>1, <1>2, <1>4
  <2>2. Needed(e) = IF Len(e) < 4 THEN 4 ELSE IF Len(e) < 5 THEN 5 ELSE 5 + Len(p)
    BY <1>1, <2>1 DEF Needed
  <2>3. ASSUME Len(e) = Len(s) PROVE Received(e) = m
    <3> DEFINE q == SubSeq(e, 6, Len(e))
    <3>1. Length(e) # 0 /\ e[5] = m.ID
      BY <1>1, <1>4, <2>1, <2>3 DEF s
    <3>2. Received(e) = Message(m.ID, q)
      BY <3>1 DEF Received
    <3>3. \A k \in 6..Len(e) : e[k] \in 0..255
      <4>1. \A k \in 1..Len(e) : e[k] \in 0..255
        BY ElementOfSeq DEF Octets
      <4> QED BY <1>1, <4>1
    <3>4. /\ q \in Seq(0..255) /\ Len(q) = Len(p)
          /\ \A k \in 1..Len(p) : q[k] = e[5 + k]
      <4>1. /\ q \in Seq(0..255)
            /\ Len(q) = IF 6 <= Len(e) THEN Len(e) - 6 + 1 ELSE 0
            /\ \A k \in 1..Len(e) - 6 + 1 : q[k] = e[6 + k - 1]
        BY <1>1, <3>3, SubSeqProperties
      <4> HIDE DEF q
      <4>2. Len(e) - 6 + 1 = Len(p) /\ \A k \in 1..Len(p) : 6 + k - 1 = 5 + k
        BY <1>1, <2>1, <2>3
      <4> QED BY <1>1, <2>1, <2>3, <4>1, <4>2
    <3>5. \A k \in 1..Len(p) : q[k] = p[k]
      <4> SUFFICES ASSUME NEW k \in 1..Len(p) PROVE e[5 + k] = p[k]
        BY <3>4
      <4>1. 5 + k \in 1..Len(e)
        BY <1>1, <2>1, <2>3
      <4>2. e[5 + k] = s[5 + k]
        BY <4>1 DEF s
      <4> QED BY <1>1, <1>4, <4>2
    <3>6. q = p
      <4>1. p \in Seq(0..255)
        BY MessageFields DEF Octets
      <4> HIDE DEF q, p
      <4> QED BY <3>4, <3>5, <4>1, SeqEqual
    <3> QED BY <3>2, <3>6, MessageFields
  <2> HIDE DEF p
  <2>4. Len(e) < Len(s) <=> Len(e) < Needed(e)
    BY <1>1, <2>1, <2>2
  <2>5. Len(e) = Len(s) <=> Len(e) = Needed(e)
    <3>1. CASE Len(e) < 5
      <4> DEFINE l == Len(e)
                 n == Needed(e)
      <4>1. l \in Nat /\ l < 5 /\ n = IF l < 4 THEN 4 ELSE 5
        BY <1>1, <2>2, <3>1
      <4>2. l # Len(s)
        BY <1>1, <2>1, <3>1
      <4> HIDE DEF l, n
      <4>3. l # n
        BY <4>1
      <4> QED BY <4>2, <4>3 DEF l, n
    <3>2. CASE ~(Len(e) < 5)
      <4>1. Needed(e) = 5 + Len(p)
        BY <1>1, <2>2, <3>2
      <4> QED BY <2>1, <4>1
    <3> QED BY <3>1, <3>2
  <2> QED BY <2>3, <2>4, <2>5 DEF s
<1> QED BY <1>3, <1>4

-----------------------------------------------------------------------------
(* The bits of a bitfield.                                                 *)

Weights == {1, 2, 4, 8, 16, 32, 64, 128}

LEMMA BitWeighs ==
  ASSUME NEW i \in Nat
  PROVE  /\ Bit(i) \in Weights /\ i \div 8 \in Nat
         /\ \A j \in Nat : Bit(i) = Bit(j) => i % 8 = j % 8
<1> DEFINE w == <<128, 64, 32, 16, 8, 4, 2, 1>>
<1>1. \A j \in Nat : (j % 8) + 1 \in 1..8 /\ j % 8 \in 0..7
  OBVIOUS
<1>2. \A k \in 1..8 : w[k] \in Weights
  BY DEF Weights
<1>3. \A k, l \in 1..8 : w[k] = w[l] => k = l
  OBVIOUS
<1>4. \A j \in Nat : Bit(j) = w[(j % 8) + 1]
  BY DEF Bit
<1> HIDE DEF w
<1>5. ASSUME NEW j \in Nat, Bit(i) = Bit(j) PROVE i % 8 = j % 8
  <2>1. (i % 8) + 1 = (j % 8) + 1
    BY <1>1, <1>3, <1>4, <1>5
  <2> QED BY <1>1, <2>1
<1>6. i \div 8 \in Nat
  OBVIOUS
<1> QED BY <1>1, <1>2, <1>4, <1>5, <1>6

(* A weight that is not in x is added to it, and to no other bit.          *)
LEMMA BitAdded ==
  ASSUME NEW x \in 0..255, NEW p \in Weights, (x \div p) % 2 # 1
  PROVE  /\ x + p \in 0..255
         /\ ((x + p) \div p) % 2 = 1
         /\ \A q \in Weights : q # p => ((x + p) \div q) % 2 = (x \div q) % 2
<1>1. CASE p = 1
  BY <1>1 DEF Weights
<1>2. CASE p = 2
  BY <1>2 DEF Weights
<1>3. CASE p = 4
  BY <1>3 DEF Weights
<1>4. CASE p = 8
  BY <1>4 DEF Weights
<1>5. CASE p = 16
  BY <1>5 DEF Weights
<1>6. CASE p = 32
  BY <1>6 DEF Weights
<1>7. CASE p = 64
  BY <1>7 DEF Weights
<1>8. CASE p = 128
  BY <1>8 DEF Weights
<1> QED BY <1>1, <1>2, <1>3, <1>4, <1>5, <1>6, <1>7, <1>8 DEF Weights

(* Setting the bit of piece i: that one and no other, and nothing when the *)
(* bitfield does not reach so far.                                         *)
LEMMA BitSet ==
  ASSUME Bitfield \in Octets, NEW i \in Nat
  PROVE  /\ SetBitInBitfield(i) \in Octets
         /\ Len(SetBitInBitfield(i)) = Len(Bitfield)
         /\ \A j \in Nat : j \div 8 < Len(Bitfield) =>
              (PieceIn(SetBitInBitfield(i), j) <=> PieceIn(Bitfield, j) \/ j = i)
<1> DEFINE n == i \div 8 + 1
           x == Bitfield[n]
           new == [Bitfield EXCEPT ![n] = x + Bit(i)]
<1>1. Bit(i) \in Weights /\ i \div 8 \in Nat /\ Len(Bitfield) \in Nat
  BY BitWeighs, LenProperties DEF Octets
<1>2. CASE InRange(i) /\ ~HasPiece(i)
  <2>1. n \in 1..Len(Bitfield)
    BY <1>1, <1>2 DEF InRange
  <2>2. x \in 0..255
    BY <2>1, ElementOfSeq DEF Octets
  <2>3. (x \div Bit(i)) % 2 # 1
    BY <1>2 DEF HasPiece
  <2>4. /\ x + Bit(i) \in 0..255
        /\ ((x + Bit(i)) \div Bit(i)) % 2 = 1
        /\ \A q \in Weights : q # Bit(i) => ((x + Bit(i)) \div q) % 2 = (x \div q) % 2
    <3> HIDE DEF x
    <3> QED BY <1>1, <2>2, <2>3, BitAdded
  <2>5. SetBitInBitfield(i) = new
    BY <1>2 DEF SetBitInBitfield
  <2> HIDE DEF n, x
  <2>6. /\ new \in Octets /\ Len(new) = Len(Bitfield)
        /\ \A k \in 1..Len(Bitfield) : new[k] = IF k = n THEN x + Bit(i) ELSE Bitfield[k]
    BY <2>1, <2>4, ExceptSeq DEF Octets
  <2> HIDE DEF new
  <2>7. ASSUME NEW j \in Nat, j \div 8 < Len(Bitfield)
        PROVE  PieceIn(new, j) <=> PieceIn(Bitfield, j) \/ j = i
    <3>1. Bit(j) \in Weights /\ j \div 8 \in Nat /\ j \div 8 + 1 \in 1..Len(Bitfield)
      BY <1>1, <2>7, BitWeighs
    <3>2. /\ PieceIn(new, j) <=> (new[j \div 8 + 1] \div Bit(j)) % 2 = 1
          /\ PieceIn(Bitfield, j) <=> (Bitfield[j \div 8 + 1] \div Bit(j)) % 2 = 1
      BY <2>6, <2>7 DEF PieceIn
    <3>3. CASE j = i
      <4>1. new[j \div 8 + 1] = x + Bit(j)
        BY <2>6, <3>1, <3>3 DEF n
      <4> QED BY <2>4, <3>2, <3>3, <4>1
    <3>4. CASE j # i /\ j \div 8 # i \div 8
      <4>1. j \div 8 + 1 # n
        BY <1>1, <3>1, <3>4 DEF n
      <4> QED BY <2>6, <3>1, <3>2, <3>4, <4>1
    <3>5. CASE j # i /\ j \div 8 = i \div 8
      <4>1. j % 8 # i % 8
        BY <3>5
      <4>2. Bit(j) # Bit(i)
        BY <4>1, BitWeighs
      <4>3. new[j \div 8 + 1] = x + Bit(i) /\ Bitfield[j \div 8 + 1] = x
        BY <2>6, <3>1, <3>5 DEF n, x
      <4>4. ((x + Bit(i)) \div Bit(j)) % 2 = (x \div Bit(j)) % 2
        BY <2>4, <3>1, <4>2
      <4> QED BY <3>2, <3>5, <4>3, <4>4
    <3> QED BY <3>3, <3>4, <3>5
  <2> QED BY <2>5, <2>6, <2>7
<1>3. CASE ~(InRange(i) /\ ~HasPiece(i))
  <2>1. SetBitInBitfield(i) = Bitfield
    BY <1>3 DEF SetBitInBitfield
  <2>2. i \div 8 < Len(Bitfield) => PieceIn(Bitfield, i)
    BY <1>3 DEF InRange, HasPiece, PieceIn
  <2> QED BY <2>1, <2>2
<1> QED BY <1>2, <1>3

-----------------------------------------------------------------------------
(* Types.                                                                  *)

LEMMA OctetsReadOn ==
  ASSUME buf \in Octets, stream \in Octets, stream # <<>>
  PROVE  /\ Extended \in Octets /\ Len(Extended) = Len(buf) + 1
         /\ Extended # <<>>
         /\ \A k \in 1..Len(buf) : Extended[k] = buf[k]
         /\ Extended[Len(buf) + 1] = stream[1]
         /\ Tail(stream) \in Octets /\ Len(Tail(stream)) = Len(stream) - 1
         /\ \A k \in 1..Len(stream) - 1 : Tail(stream)[k] = stream[k + 1]
         /\ Len(buf) \in Nat /\ Len(stream) \in Nat \ {0}
<1>1. /\ Len(stream) \in Nat \ {0} /\ Head(stream) = stream[1] /\ Head(stream) \in 0..255
      /\ Tail(stream) \in Seq(0..255) /\ Len(Tail(stream)) = Len(stream) - 1
      /\ \A k \in 1..Len(Tail(stream)) : Tail(stream)[k] = stream[k + 1]
  BY HeadTailProperties, EmptySeq DEF Octets
<1>2. /\ Extended \in Seq(0..255) /\ Extended # <<>> /\ Len(Extended) = Len(buf) + 1
      /\ \A k \in 1..Len(buf) : Extended[k] = buf[k]
      /\ Extended[Len(buf) + 1] = Head(stream)
  BY <1>1, AppendProperties DEF Extended, Octets
<1>3. Len(buf) \in Nat
  BY LenProperties DEF Octets
<1> QED BY <1>1, <1>2, <1>3 DEF Octets

(* What ReadMessage returns is made of octets, whatever the stream is.     *)
LEMMA ReceivedType ==
  ASSUME NEW e \in Octets, Len(e) = Needed(e)
  PROVE  /\ Received(e).Payload \in Octets
         /\ Len(Received(e).Payload) >= 4 => HaveIndex(Received(e)) \in Nat
<1> DEFINE p == Received(e).Payload
<1>1. Len(e) \in Nat /\ \A k \in 1..Len(e) : e[k] \in 0..255
  BY LenProperties, ElementOfSeq DEF Octets
<1>2. p \in Octets
  <2>1. CASE Length(e) = 0
    BY <2>1 DEF Received, Message, Octets
  <2>2. CASE Length(e) # 0
    <3>1. \A k \in 6..Len(e) : e[k] \in 0..255
      BY <1>1
    <3>2. SubSeq(e, 6, Len(e)) \in Seq(0..255)
      BY <1>1, <3>1, SubSeqProperties
    <3> QED BY <2>2, <3>2 DEF Received, Message, Octets
  <2> QED BY <2>1, <2>2
<1>3. ASSUME Len(p) >= 4 PROVE HaveIndex(Received(e)) \in Nat
  <2>1. FromBigEndian(SubSeq(p, 1, 4)) \in Nat
    <3> HIDE DEF p
    <3>1. FromBigEndian(SubSeq(p, 1, 4)) = FromBigEndian(p) /\ FromBigEndian(p) \in Nat
      BY <1>2, <1>3, FirstFour
    <3> QED BY <3>1
  <2> QED BY <2>1 DEF HaveIndex
<1> QED BY <1>2, <1>3

LEMMA WireTypeInit == WireInit => WireTypeOK
<1> SUFFICES ASSUME WireInit PROVE WireTypeOK
  OBVIOUS
<1>1. PICK n \in 0..HandshakeLength : stream = [k \in 1..n |-> 19]
  BY DEF WireInit
<1>2. stream \in Seq(0..255)
  <2>1. n \in Nat
    BY WireAssumption
  <2>2. [k \in 1..n |-> 19] \in [1..n -> 0..255]
    OBVIOUS
  <2> QED BY <1>1, <2>1, <2>2, SeqDef
<1>3. <<>> \in Seq(Messages) /\ Len(<<>>) = 0 /\ <<>> \in Seq(0..255) /\ 0 <= MaxMessages
  BY WireAssumption
<1> QED BY <1>2, <1>3 DEF WireInit, WireTypeOK

(* One call of ReadMessage that returns.                                   *)
LEMMA LastByteTypes ==
  ASSUME WireTypeOK, ReadLastByte
  PROVE  buf' = <<>> /\ stream' \in Seq(0..255)
BY OctetsReadOn DEF WireTypeOK, ReadLastByte, Octets

LEMMA WireTypeNext == WireTypeOK /\ [WireNext]_wireVars => WireTypeOK'
<1> SUFFICES ASSUME WireTypeOK, [WireNext]_wireVars PROVE WireTypeOK'
  OBVIOUS
<1>0. <<>> \in Seq(0..255) /\ stream \in Octets /\ buf \in Octets /\ Bitfield \in Octets
      /\ Len(buf) \in Nat /\ dropped \in Nat
  BY LenProperties DEF WireTypeOK, Octets
<1>1. CASE \E m \in Messages : PeerSends(m)
  <2>1. PICK m \in Messages : PeerSends(m)
    BY <1>1
  <2>2. /\ sent' = Append(sent, m) /\ stream' = stream \o Serialize(m) /\ Len(sent) < MaxMessages
        /\ UNCHANGED <<closed, local>>
    BY <2>1 DEF PeerSends
  <2>3. sent' \in Seq(Messages) /\ Len(sent') <= MaxMessages
    BY <2>2, AppendProperties, LenProperties, WireAssumption DEF WireTypeOK
  <2>4. stream' \in Seq(0..255)
    BY <1>0, <2>2, SerializeFacts, ConcatProperties DEF Octets
  <2> QED BY <2>2, <2>3, <2>4 DEF WireTypeOK, local
<1>2. CASE PeerCloses
  BY <1>2 DEF PeerCloses, WireTypeOK, local
<1>3. CASE ReadHandshake
  <2>1. stream' \in Seq(0..255)
    <3>1. Len(stream) \in Nat /\ \A k \in 1..Len(stream) : stream[k] \in 0..255
      BY LenProperties, ElementOfSeq DEF WireTypeOK
    <3>2. \A k \in HandshakeLength + 1..Len(stream) : stream[k] \in 0..255
      BY <3>1, WireAssumption
    <3>3. stream' = SubSeq(stream, HandshakeLength + 1, Len(stream))
      BY <1>3 DEF ReadHandshake
    <3> QED BY <3>1, <3>2, <3>3, SubSeqProperties, WireAssumption
  <2> QED BY <1>3, <2>1 DEF ReadHandshake, WireTypeOK, remote
<1>4. CASE HandshakeFails
  <2>1. Len(stream) \in Nat
    BY LenProperties DEF WireTypeOK
  <2> QED BY <1>0, <1>4, <2>1 DEF HandshakeFails, WireTypeOK, remote
<1>5. CASE ReadByte
  <2>1. Extended \in Seq(0..255) /\ Tail(stream) \in Seq(0..255)
    BY <1>0, <1>5, OctetsReadOn DEF ReadByte, Octets
  <2> QED BY <1>5, <2>1 DEF ReadByte, WireTypeOK, remote
<1>6. CASE FirstMessage
  <2>1. buf' = <<>> /\ stream' \in Seq(0..255)
    BY <1>6, LastByteTypes DEF FirstMessage
  <2>2. Bitfield' \in Seq(0..255)
    <3>1. Extended \in Octets /\ Len(Extended) = Needed(Extended)
      BY <1>0, <1>6, OctetsReadOn DEF FirstMessage, ReadLastByte
    <3>2. Received(Extended).Payload \in Seq(0..255)
      BY <3>1, ReceivedType DEF Octets
    <3> QED BY <1>0, <1>6, <3>2 DEF FirstMessage, Octets
  <2> QED BY <1>6, <2>1, <2>2 DEF FirstMessage, WireTypeOK, remote
<1>7. CASE HandleMessage
  <2> DEFINE m == Received(Extended)
  <2>1. buf' = <<>> /\ stream' \in Seq(0..255)
    BY <1>7, LastByteTypes DEF HandleMessage
  <2>2. Bitfield' \in Seq(0..255) /\ PeerChoking' \in BOOLEAN /\ stage' \in {"loop", "panic"}
    <3>1. Extended \in Octets /\ Len(Extended) = Needed(Extended)
      BY <1>0, <1>7, OctetsReadOn DEF HandleMessage, ReadLastByte
    <3>2. m.Payload \in Octets /\ (Len(m.Payload) >= 4 => HaveIndex(m) \in Nat)
      BY <3>1, ReceivedType
    <3>3. Len(m.Payload) \in Nat
      BY <3>2, LenProperties DEF Octets
    <3> HIDE DEF m
    <3>4. /\ Bitfield' \in {Announced(m), Bitfield}
          /\ Bitfield' # Bitfield => ~(Len(m.Payload) < 4)
          /\ PeerChoking' \in {TRUE, FALSE, PeerChoking}
          /\ stage' \in {"panic", stage} /\ stage = "loop"
      BY <1>7 DEF HandleMessage, m
    <3>5. Len(m.Payload) >= 4 => Announced(m) \in Octets
      <4> DEFINE i == HaveIndex(m)
      <4> SUFFICES ASSUME i \in Nat PROVE SetBitInBitfield(i) \in Octets
        BY <3>2 DEF Announced
      <4> HIDE DEF i
      <4> QED BY <1>0, BitSet
    <3>6. Bitfield' \in Octets
      BY <1>0, <3>3, <3>4, <3>5
    <3>7. PeerChoking \in BOOLEAN
      BY DEF WireTypeOK
    <3>8. PeerChoking' \in BOOLEAN
      BY <3>4, <3>7, Zenon
    <3>9. stage' \in {"loop", "panic"}
      BY <3>4
    <3> QED BY <3>6, <3>8, <3>9 DEF Octets
  <2>3. UNCHANGED <<sent, closed, Status, dropped>>
    BY <1>7 DEF HandleMessage, remote
  <2> QED BY <2>1, <2>2, <2>3 DEF WireTypeOK
<1>8. CASE FirstMessageFails \/ ReadTimesOut \/ EndOfStream
  <2>1. CASE FirstMessageFails
    BY <1>0, <2>1 DEF FirstMessageFails, WireTypeOK, remote
  <2>2. CASE ReadTimesOut
    BY <1>0, <2>2 DEF ReadTimesOut, WireTypeOK, remote
  <2> QED BY <1>8, <2>1, <2>2 DEF EndOfStream
<1>9. CASE StartReadLoop
  BY <1>9 DEF StartReadLoop, WireTypeOK, remote
<1>10. CASE UNCHANGED wireVars
  BY <1>10 DEF wireVars, remote, local, WireTypeOK
<1> QED BY <1>1, <1>2, <1>3, <1>4, <1>5, <1>6, <1>7, <1>8, <1>9, <1>10 DEF WireNext

(* Every variable of a connection keeps its type; in particular ReadMessage *)
(* never holds a whole message, and nobody else holds a part of one.        *)
THEOREM WireTypes == WireSpec => []WireTypeOK
BY WireTypeInit, WireTypeNext, PTL DEF WireSpec

-----------------------------------------------------------------------------
(* The messages a peer sent and the client has not read.                   *)

(* rest[k] is what is on the way behind the k-th message.                  *)
Rest(messages, rest) ==
  /\ rest \in [0..Len(messages) -> Octets]
  /\ rest[Len(messages)] = <<>>
  /\ \A k \in 1..Len(messages) : rest[k - 1] = Serialize(messages[k]) \o rest[k]

RestWith(messages, rest, m) ==
  [k \in 0..(Len(messages) + 1) |->
     IF k = Len(messages) + 1 THEN <<>> ELSE rest[k] \o Serialize(m)]

(* Strings of octets one behind the other.                                 *)
LEMMA Associative ==
  ASSUME NEW s \in Octets, NEW t \in Octets, NEW u \in Octets
  PROVE  (s \o t) \o u = s \o (t \o u)
BY ConcatAssociative DEF Octets

(* A message that is written is behind all the others.                     *)
LEMMA RestGrows ==
  ASSUME NEW messages \in Seq(Messages), NEW rest, Rest(messages, rest), NEW m \in Messages
  PROVE  /\ Rest(Append(messages, m), RestWith(messages, rest, m))
         /\ \A k \in 0..Len(messages) :
              RestWith(messages, rest, m)[k] = rest[k] \o Serialize(m)
<1> DEFINE n == Len(messages)
           more == Append(messages, m)
           s == Serialize(m)
           q == RestWith(messages, rest, m)
<1>1. n \in Nat /\ s \in Octets
  BY LenProperties, SerializeFacts
<1>2. Len(more) = n + 1 /\ more[n + 1] = m /\ \A k \in 1..n : more[k] = messages[k]
  BY AppendProperties
<1>3. /\ rest \in [0..n -> Octets] /\ rest[n] = <<>>
      /\ \A k \in 1..n : rest[k - 1] = Serialize(messages[k]) \o rest[k]
  BY DEF Rest
<1>4. /\ q = [k \in 0..(n + 1) |-> IF k = n + 1 THEN <<>> ELSE rest[k] \o s]
      /\ q[n + 1] = <<>> /\ \A k \in 0..n : q[k] = rest[k] \o s
  BY <1>1 DEF RestWith
<1> HIDE DEF n, more, s, q
<1>5. \A k \in 0..n : rest[k] \o s \in Octets
  BY <1>1, <1>3, ConcatProperties DEF Octets
<1>6. <<>> \in Octets
  BY DEF Octets
<1>7. q \in [0..(n + 1) -> Octets]
  BY <1>1, <1>4, <1>5, <1>6
<1>8. ASSUME NEW k \in 1..(n + 1) PROVE q[k - 1] = Serialize(more[k]) \o q[k]
  <2>1. CASE k = n + 1
    <3>1. k - 1 = n /\ n \in 0..n /\ q[n] = rest[n] \o s /\ more[k] = m
      BY <1>1, <1>2, <1>4, <2>1
    <3>2. q[k - 1] = <<>> \o s /\ q[k] = <<>> /\ Serialize(more[k]) = s
      BY <1>3, <1>4, <2>1, <3>1 DEF s
    <3>3. <<>> \o s = s \o <<>> /\ s = s \o <<>>
      BY <1>1, ConcatEmptySeq DEF Octets
    <3>4. Serialize(more[k]) \o q[k] = s \o <<>>
      BY <3>2
    <3> QED BY <3>2, <3>3, <3>4
  <2>2. CASE k # n + 1
    <3> DEFINE t == Serialize(messages[k])
    <3>1. k \in 1..n /\ k - 1 \in 0..n /\ k \in 0..n
      BY <1>1, <2>2
    <3>2. messages[k] \in Messages
      BY <3>1, ElementOfSeq DEF n
    <3>3. t \in Octets /\ rest[k] \in Octets
      BY <1>3, <3>1, <3>2, SerializeFacts
    <3>4. q[k - 1] = rest[k - 1] \o s /\ q[k] = rest[k] \o s /\ rest[k - 1] = t \o rest[k]
      BY <1>3, <1>4, <3>1
    <3>5. more[k] = messages[k]
      BY <1>2, <3>1
    <3> HIDE DEF t
    <3>6. (t \o rest[k]) \o s = t \o (rest[k] \o s)
      BY <1>1, <3>3, Associative
    <3> QED BY <3>4, <3>5, <3>6 DEF t
  <2> QED BY <2>1, <2>2
<1> QED BY <1>2, <1>4, <1>7, <1>8 DEF Rest, n, more, s, q

-----------------------------------------------------------------------------
(* Where the client is in the stream.                                      *)

(* What comes after the handshake.                                         *)
Unread ==
  IF stage = "handshake" THEN SubSeq(stream, HandshakeLength + 1, Len(stream)) ELSE stream

Returned == Messages \cup {Received(e) : e \in Octets}

(* Who has read what, by the stage of the connection.                      *)
StagesRight ==
  /\ read \in Seq(Returned)
  /\ stage = "handshake" => /\ read = <<>> /\ buf = <<>> /\ dropped = 0
                            /\ Status = "handshaking"
                            /\ Len(stream) < HandshakeLength => sent = <<>>
  /\ stage = "first" => read = <<>> /\ dropped = 0 /\ Status = "handshaking"
  /\ stage # "handshake" => stage = "first" \/ Status # "handshaking"
  /\ Status = "active" => read # <<>>

ReadFirst == Len(read) <= Len(sent) /\ \A k \in 1..Len(read) : read[k] = sent[k]

(* ReadMessage has not read beyond the message it is in.                   *)
InMessage == buf # <<>> => Len(buf) < Len(Serialize(sent[Len(read) + 1]))

Following(rest) ==
  /\ Rest(sent, rest)
  /\ ReadFirst
  /\ buf \o Unread = rest[Len(read)]
  /\ InMessage

InStep == dropped = 0 => \E rest : Following(rest)

ReadInv == WireTypeOK /\ StagesRight /\ InStep

LEMMA ReadInit == WireInit => ReadInv
<1> SUFFICES ASSUME WireInit PROVE ReadInv
  OBVIOUS
<1>1. WireTypeOK
  BY WireTypeInit
<1>2. /\ sent = <<>> /\ read = <<>> /\ buf = <<>> /\ stage = "handshake"
      /\ Status = "handshaking" /\ dropped = 0
  BY DEF WireInit
<1>3. StagesRight
  BY <1>2 DEF StagesRight
<1>4. Len(stream) \in Nat /\ Len(stream) <= HandshakeLength
  <2>1. PICK n \in 0..HandshakeLength : stream = [k \in 1..n |-> 19]
    BY DEF WireInit
  <2>2. n \in Nat /\ n <= HandshakeLength
    BY WireAssumption
  <2> QED BY <2>1, <2>2
<1>5. Unread = <<>>
  BY <1>2, <1>4, WireAssumption, SubSeqEmpty DEF Unread
<1>6. PICK rest : rest = [k \in 0..0 |-> <<>>]
  OBVIOUS
<1>7. Rest(sent, rest)
  <2>1. <<>> \in Octets
    BY DEF Octets
  <2> QED BY <1>2, <1>6, <2>1 DEF Rest
<1>8. Following(rest)
  BY <1>2, <1>5, <1>6, <1>7 DEF Following, ReadFirst, InMessage
<1> QED BY <1>1, <1>3, <1>8 DEF ReadInv, InStep

LEMMA StagesNext == ReadInv /\ [WireNext]_wireVars => StagesRight'
<1> SUFFICES ASSUME ReadInv, [WireNext]_wireVars PROVE StagesRight'
  OBVIOUS
<1>0. /\ buf \in Octets /\ stream \in Octets /\ Len(buf) \in Nat /\ Len(stream) \in Nat
      /\ dropped \in Nat /\ StagesRight /\ HandshakeLength \in Nat
      /\ Status \in {"handshaking", "active", "failed"}
  BY LenProperties, WireAssumption DEF ReadInv, WireTypeOK, Octets
<1>1. ASSUME ReadLastByte PROVE /\ read' \in Seq(Returned) /\ read' # <<>>
  <2>1. Extended \in Octets
    BY <1>0, <1>1, OctetsReadOn DEF ReadLastByte
  <2>2. Received(Extended) \in Returned /\ read \in Seq(Returned)
    BY <1>0, <2>1 DEF Returned, StagesRight
  <2> QED BY <1>1, <2>2, AppendProperties DEF ReadLastByte
<1>2. CASE \E m \in Messages : PeerSends(m)
  <2>1. PICK m \in Messages : PeerSends(m)
    BY <1>2
  <2>2. /\ stream' = stream \o Serialize(m) /\ UNCHANGED local
        /\ stage = "handshake" => Len(stream) >= HandshakeLength
    BY <2>1 DEF PeerSends
  <2>3. Len(stream') = Len(stream) + Len(Serialize(m)) /\ Len(Serialize(m)) \in Nat
    BY <1>0, <2>2, SerializeFacts, ConcatProperties DEF Octets
  <2>4. stage = "handshake" => ~(Len(stream') < HandshakeLength)
    BY <1>0, <2>2, <2>3
  <2> QED BY <1>0, <2>2, <2>4 DEF StagesRight, local
<1>3. CASE PeerCloses
  BY <1>0, <1>3 DEF PeerCloses, StagesRight, local
<1>4. CASE ReadHandshake
  BY <1>0, <1>4 DEF ReadHandshake, StagesRight, remote
<1>5. CASE HandshakeFails
  BY <1>0, <1>5 DEF HandshakeFails, StagesRight, remote
<1>6. CASE ReadByte
  BY <1>0, <1>6 DEF ReadByte, StagesRight, remote
<1>7. CASE FirstMessage
  BY <1>0, <1>1, <1>7 DEF FirstMessage, StagesRight, remote
<1>8. CASE HandleMessage
  <2>1. stage = "loop" /\ stage' \in {"loop", "panic"} /\ UNCHANGED <<Status, dropped>>
    BY <1>8 DEF HandleMessage
  <2>2. read' \in Seq(Returned) /\ read' # <<>>
    BY <1>1, <1>8 DEF HandleMessage
  <2> QED BY <1>0, <2>1, <2>2 DEF StagesRight
<1>9. CASE FirstMessageFails
  BY <1>0, <1>9 DEF FirstMessageFails, StagesRight, remote
<1>10. CASE ReadTimesOut
  BY <1>0, <1>10 DEF ReadTimesOut, StagesRight, remote
<1>11. CASE EndOfStream
  BY <1>9, <1>10, <1>11 DEF EndOfStream
<1>12. CASE StartReadLoop
  BY <1>0, <1>12 DEF StartReadLoop, StagesRight, remote
<1>13. CASE UNCHANGED wireVars
  BY <1>0, <1>13 DEF wireVars, remote, local, StagesRight
<1> QED
  BY <1>2, <1>3, <1>4, <1>5, <1>6, <1>7, <1>8, <1>9, <1>10, <1>11, <1>12, <1>13 DEF WireNext

(* A byte that is moved from the stream to the buffer.                     *)
LEMMA Moved ==
  ASSUME buf \in Octets, stream \in Octets, stream # <<>>
  PROVE  Extended \o Tail(stream) = buf \o stream
<1> DEFINE h == Head(stream)
           t == Tail(stream)
<1>1. h \in 0..255 /\ t \in Octets /\ Len(stream) \in Nat \ {0}
  BY HeadTailProperties, EmptySeq DEF Octets
<1>2. Extended = buf \o <<h>>
  BY <1>1, AppendIsConcat DEF Extended, Octets
<1>3. stream = <<h>> \o t
  <2>1. /\ Len(t) = Len(stream) - 1 /\ \A k \in 1..Len(t) : t[k] = stream[k + 1]
        /\ h = stream[1]
    BY HeadTailProperties DEF Octets
  <2> HIDE DEF h, t
  <2>2. <<h>> \in Octets /\ Len(<<h>>) = 1 /\ <<h>>[1] = h
    BY <1>1 DEF Octets
  <2>3. /\ <<h>> \o t \in Octets /\ Len(<<h>> \o t) = 1 + Len(t)
        /\ \A k \in 1..1 + Len(t) : (<<h>> \o t)[k] = IF k <= 1 THEN <<h>>[k] ELSE t[k - 1]
    BY <1>1, <2>2, ConcatProperties DEF Octets
  <2>4. Len(<<h>> \o t) = Len(stream)
    BY <1>1, <2>1, <2>3
  <2>5. ASSUME NEW k \in 1..Len(stream) PROVE stream[k] = (<<h>> \o t)[k]
    <3>1. CASE k = 1
      BY <1>1, <2>1, <2>2, <2>3, <2>4, <3>1
    <3>2. CASE k # 1
      <4>1. k - 1 \in 1..Len(t) /\ ~(k <= 1) /\ k \in 1..1 + Len(t) /\ (k - 1) + 1 = k
        BY <1>1, <2>1, <3>2
      <4> QED BY <2>1, <2>3, <4>1
    <3> QED BY <3>1, <3>2
  <2> QED BY <2>3, <2>4, <2>5, SeqEqual DEF Octets
<1>4. <<h>> \in Octets
  BY <1>1 DEF Octets
<1> HIDE DEF h, t
<1>5. (buf \o <<h>>) \o t = buf \o (<<h>> \o t)
  BY <1>1, <1>4, Associative
<1> QED BY <1>2, <1>3, <1>5 DEF t

(* Two ways to cut the same octets.                                        *)
LEMMA SameAt ==
  ASSUME NEW s \in Octets, NEW t \in Octets, NEW u \in Octets, NEW v \in Octets,
         s \o t = u \o v, Len(s) <= Len(u), NEW k \in 1..Len(s)
  PROVE  s[k] = u[k]
<1>1. Len(s) \in Nat /\ Len(u) \in Nat /\ Len(t) \in Nat /\ Len(v) \in Nat
  BY LenProperties DEF Octets
<1>2. /\ \A i \in 1..Len(s) + Len(t) : (s \o t)[i] = IF i <= Len(s) THEN s[i] ELSE t[i - Len(s)]
      /\ \A i \in 1..Len(u) + Len(v) : (u \o v)[i] = IF i <= Len(u) THEN u[i] ELSE v[i - Len(u)]
  BY ConcatProperties DEF Octets
<1>3. k \in 1..Len(s) + Len(t) /\ k \in 1..Len(u) + Len(v) /\ k <= Len(s) /\ k <= Len(u)
  BY <1>1
<1> QED BY <1>2, <1>3

LEMMA SameEnd ==
  ASSUME NEW s \in Octets, NEW t \in Octets, NEW u \in Octets, NEW v \in Octets,
         s \o t = u \o v, Len(s) = Len(u)
  PROVE  t = v
<1>1. Len(s) <= Len(u)
  BY LenProperties DEF Octets
<1>2. \A k \in 1..Len(s) : s[k] = u[k]
  BY <1>1, SameAt
<1>3. s = u
  BY <1>2, SeqEqual DEF Octets
<1>4. s \o t = s \o v
  BY <1>3
<1>5. \A S : \A a, b, c \in Seq(S) : a \o b = a \o c => b = c
  BY ConcatSimplifications
<1> QED BY <1>4, <1>5 DEF Octets

(* The next byte belongs to the first message that is not read yet.        *)
LEMMA NextByte ==
  ASSUME ReadInv, NEW rest, Following(rest), stream # <<>>, stage \in {"first", "loop"}
  PROVE  /\ Len(read) \in Nat /\ Len(read) + 1 \in 1..Len(sent)
         /\ sent[Len(read) + 1] \in Messages
         /\ rest[Len(read) + 1] \in Octets
         /\ Len(Extended) \in 1..Len(Serialize(sent[Len(read) + 1]))
         /\ \A k \in 1..Len(Extended) : Extended[k] = Serialize(sent[Len(read) + 1])[k]
         /\ Len(Extended) = Len(Serialize(sent[Len(read) + 1])) =>
              Tail(stream) = rest[Len(read) + 1]
         /\ Extended \o Tail(stream) = rest[Len(read)]
<1> DEFINE r == Len(read)
           n == Len(sent)
           m == sent[r + 1]
           s == Serialize(m)
           e == Extended
           t == Tail(stream)
<1>1. /\ buf \in Octets /\ stream \in Octets /\ read \in Seq(Returned) /\ sent \in Seq(Messages)
      /\ r \in Nat /\ n \in Nat /\ r <= n /\ Len(buf) \in Nat
  BY LenProperties DEF ReadInv, WireTypeOK, StagesRight, Following, ReadFirst, Octets
<1>2. /\ rest \in [0..n -> Octets] /\ rest[n] = <<>>
      /\ \A k \in 1..n : rest[k - 1] = Serialize(sent[k]) \o rest[k]
  BY DEF Following, Rest
<1>3. /\ e \in Octets /\ Len(e) = Len(buf) + 1 /\ t \in Octets /\ e \o t = buf \o stream
  BY <1>1, OctetsReadOn, Moved
<1>4. e \o t = rest[r]
  BY <1>3 DEF Following, Unread
<1>5. r # n
  <2>1. buf \o stream # <<>>
    BY <1>1, ConcatEqualIffEmpty DEF Octets
  <2> QED BY <1>2, <1>3, <1>4, <2>1
<1>6. r + 1 \in 1..n /\ (r + 1) - 1 = r
  BY <1>1, <1>5
<1>7. m \in Messages /\ rest[r + 1] \in Octets /\ e \o t = s \o rest[r + 1]
  <2>1. m \in Messages
    BY <1>1, <1>6, ElementOfSeq
  <2>2. rest[r + 1] \in Octets
    BY <1>2, <1>6
  <2>3. rest[(r + 1) - 1] = s \o rest[r + 1]
    BY <1>2, <1>6
  <2> QED BY <1>4, <1>6, <2>1, <2>2, <2>3
<1>8. s \in Octets /\ Len(s) \in Nat /\ Len(s) >= 4
  BY <1>7, SerializeFacts
<1>9. buf # <<>> => Len(buf) < Len(s)
  BY DEF Following, InMessage
<1>10. buf = <<>> => Len(buf) = 0
  OBVIOUS
<1> HIDE DEF r, n, m, s, e, t
<1>11. Len(e) \in 1..Len(s)
  BY <1>1, <1>3, <1>8, <1>9, <1>10
<1>12. /\ \A k \in 1..Len(e) : e[k] = s[k]
       /\ Len(e) = Len(s) => t = rest[r + 1]
  <2> DEFINE v == rest[r + 1]
  <2>1. v \in Octets /\ e \o t = s \o v /\ Len(e) <= Len(s)
    BY <1>7, <1>8, <1>11
  <2> HIDE DEF v
  <2>2. e \in Octets /\ t \in Octets /\ s \in Octets
    BY <1>3, <1>8
  <2>3. \A k \in 1..Len(e) : e[k] = s[k]
    BY <2>1, <2>2, SameAt
  <2>4. Len(e) = Len(s) => t = v
    BY <2>1, <2>2, SameEnd
  <2> QED BY <2>3, <2>4 DEF v
<1> QED BY <1>1, <1>4, <1>6, <1>7, <1>11, <1>12 DEF r, n, m, s, e, t

LEMMA CutAppended ==
  ASSUME NEW s \in Octets, NEW t \in Octets, NEW h \in Nat, h <= Len(s)
  PROVE  SubSeq(s \o t, h + 1, Len(s \o t)) = SubSeq(s, h + 1, Len(s)) \o t
<1> DEFINE u == s \o t
           c == SubSeq(s, h + 1, Len(s))
           d == SubSeq(u, h + 1, Len(u))
<1>1. /\ Len(s) \in Nat /\ Len(t) \in Nat
      /\ u \in Seq(0..255) /\ Len(u) = Len(s) + Len(t)
      /\ \A k \in 1..Len(s) + Len(t) : u[k] = IF k <= Len(s) THEN s[k] ELSE t[k - Len(s)]
  BY LenProperties, ConcatProperties DEF Octets
<1>2. \A k \in 1..Len(s) : s[k] \in 0..255
  BY ElementOfSeq DEF Octets
<1>3. \A k \in 1..Len(u) : u[k] \in 0..255
  BY <1>1, ElementOfSeq
<1> HIDE DEF u
<1>4. /\ c \in Seq(0..255) /\ Len(c) = Len(s) - h
      /\ \A k \in 1..Len(s) - h : c[k] = s[h + k]
  <2>1. \A k \in h + 1..Len(s) : s[k] \in 0..255
    BY <1>2
  <2>2. /\ c \in Seq(0..255) /\ Len(c) = IF h + 1 <= Len(s) THEN Len(s) - (h + 1) + 1 ELSE 0
        /\ \A k \in 1..Len(s) - (h + 1) + 1 : c[k] = s[h + 1 + k - 1]
    BY <1>1, <2>1, SubSeqProperties
  <2> HIDE DEF c
  <2>3. Len(c) = Len(s) - h
    BY <1>1, <2>2
  <2>4. ASSUME NEW k \in 1..Len(s) - h PROVE c[k] = s[h + k]
    <3>1. k \in 1..Len(s) - (h + 1) + 1 /\ h + 1 + k - 1 = h + k
      BY <1>1
    <3> QED BY <2>2, <3>1
  <2> QED BY <2>2, <2>3, <2>4
<1>5. /\ d \in Seq(0..255) /\ Len(d) = Len(u) - h
      /\ \A k \in 1..Len(u) - h : d[k] = u[h + k]
  <2>1. \A k \in h + 1..Len(u) : u[k] \in 0..255
    BY <1>3
  <2>2. /\ d \in Seq(0..255) /\ Len(d) = IF h + 1 <= Len(u) THEN Len(u) - (h + 1) + 1 ELSE 0
        /\ \A k \in 1..Len(u) - (h + 1) + 1 : d[k] = u[h + 1 + k - 1]
    BY <1>1, <2>1, SubSeqProperties
  <2> HIDE DEF d
  <2>3. Len(d) = Len(u) - h
    BY <1>1, <2>2
  <2>4. ASSUME NEW k \in 1..Len(u) - h PROVE d[k] = u[h + k]
    <3>1. k \in 1..Len(u) - (h + 1) + 1 /\ h + 1 + k - 1 = h + k
      BY <1>1
    <3> QED BY <2>2, <3>1
  <2> QED BY <2>2, <2>3, <2>4
<1> HIDE DEF c, d
<1>6. /\ c \o t \in Seq(0..255) /\ Len(c \o t) = Len(c) + Len(t)
      /\ \A k \in 1..Len(c) + Len(t) : (c \o t)[k] = IF k <= Len(c) THEN c[k] ELSE t[k - Len(c)]
  BY <1>4, ConcatProperties DEF Octets
<1>7. Len(d) = Len(c \o t)
  BY <1>1, <1>4, <1>5, <1>6
<1>8. ASSUME NEW k \in 1..Len(d) PROVE d[k] = (c \o t)[k]
  <2>1. h + k \in 1..Len(s) + Len(t) /\ k \in 1..Len(u) - h /\ k \in 1..Len(c) + Len(t)
    BY <1>1, <1>4, <1>5
  <2>2. d[k] = IF h + k <= Len(s) THEN s[h + k] ELSE t[(h + k) - Len(s)]
    BY <1>1, <1>5, <2>1
  <2>3. CASE k <= Len(c)
    <3>1. k \in 1..Len(s) - h /\ h + k <= Len(s)
      BY <1>1, <1>4, <1>5, <2>3
    <3> QED BY <1>4, <1>6, <2>1, <2>2, <2>3, <3>1
  <2>4. CASE ~(k <= Len(c))
    <3>1. ~(h + k <= Len(s)) /\ (h + k) - Len(s) = k - Len(c)
      BY <1>1, <1>4, <1>5, <2>4
    <3> QED BY <1>6, <2>1, <2>2, <2>4, <3>1
  <2> QED BY <2>3, <2>4
<1>9. d = c \o t
  BY <1>5, <1>6, <1>7, <1>8, SeqEqual
<1> QED BY <1>9 DEF c, d, u

(* The peer writes another message.                                        *)
LEMMA InStepSent ==
  ASSUME ReadInv, NEW m \in Messages, PeerSends(m), dropped = 0
  PROVE  \E rest : Following(rest)'
<1> DEFINE s == Serialize(m)
           n == Len(sent)
           r == Len(read)
<1>1. PICK rest : Following(rest)
  BY DEF ReadInv, InStep
<1>2. PICK q : q = RestWith(sent, rest, m)
  OBVIOUS
<1>3. /\ sent' = Append(sent, m) /\ stream' = stream \o s /\ UNCHANGED <<stage, buf, read>>
      /\ stage = "handshake" => Len(stream) >= HandshakeLength
  BY DEF PeerSends, local
<1>4. /\ sent \in Seq(Messages) /\ n \in Nat /\ stream \in Octets /\ Len(stream) \in Nat
      /\ buf \in Octets /\ s \in Octets /\ read \in Seq(Returned) /\ r \in Nat /\ r <= n
      /\ HandshakeLength \in Nat /\ StagesRight
  BY <1>1, LenProperties, SerializeFacts, WireAssumption
     DEF ReadInv, WireTypeOK, StagesRight, Following, ReadFirst, Octets
<1>5. Rest(sent, rest) /\ buf \o Unread = rest[r] /\ ReadFirst /\ InMessage
  BY <1>1 DEF Following
<1> HIDE DEF s
<1>6. Rest(sent', q) /\ q[r] = rest[r] \o s
  <2>1. r \in 0..n
    BY <1>4
  <2> QED BY <1>2, <1>3, <1>4, <1>5, <2>1, RestGrows DEF s
<1>7. Len(sent') = n + 1 /\ \A k \in 1..n : sent'[k] = sent[k]
  BY <1>3, <1>4, AppendProperties
<1>8. ReadFirst'
  <2>1. \A k \in 1..r : k \in 1..n
    BY <1>4
  <2> QED BY <1>3, <1>4, <1>5, <1>7, <2>1 DEF ReadFirst
<1>9. Unread \in Octets /\ Unread' = Unread \o s
  <2>1. CASE stage = "handshake"
    <3>1. \A k \in HandshakeLength + 1..Len(stream) : stream[k] \in 0..255
      <4>1. \A k \in 1..Len(stream) : stream[k] \in 0..255
        BY <1>4, ElementOfSeq DEF Octets
      <4> QED BY <1>4, <4>1
    <3>2. Unread \in Octets
      BY <1>4, <2>1, <3>1, SubSeqProperties DEF Unread, Octets
    <3>3. Unread' = SubSeq(stream \o s, HandshakeLength + 1, Len(stream \o s))
      BY <1>3, <2>1 DEF Unread
    <3>4. HandshakeLength <= Len(stream)
      BY <1>3, <1>4, <2>1
    <3> QED BY <1>4, <2>1, <3>2, <3>3, <3>4, CutAppended DEF Unread
  <2>2. CASE stage # "handshake"
    BY <1>3, <1>4, <2>2 DEF Unread
  <2> QED BY <2>1, <2>2
<1>10. buf' \o Unread' = q[Len(read')]
  <2> DEFINE u == Unread
  <2>1. u \in Octets /\ Unread' = u \o s
    BY <1>9
  <2>2. buf \o u = rest[r]
    BY <1>5
  <2> HIDE DEF u
  <2>3. (buf \o u) \o s = buf \o (u \o s)
    BY <1>4, <2>1, Associative
  <2> QED BY <1>3, <1>6, <2>1, <2>2, <2>3
<1>11. InMessage'
  <2> SUFFICES ASSUME buf # <<>> PROVE Len(buf) < Len(Serialize(sent'[r + 1]))
    BY <1>3 DEF InMessage
  <2>1. Len(buf) < Len(Serialize(sent[r + 1]))
    BY <1>5 DEF InMessage
  <2>2. r # n
    <3>1. rest[n] = <<>>
      BY <1>5 DEF Rest
    <3>2. buf \o Unread # <<>>
      BY <1>4, <1>9, ConcatEqualIffEmpty DEF Octets
    <3> QED BY <1>5, <3>1, <3>2
  <2>3. r + 1 \in 1..n
    BY <1>4, <2>2
  <2> QED BY <1>7, <2>1, <2>3
<1>12. Following(q)'
  BY <1>6, <1>8, <1>10, <1>11 DEF Following
<1> QED BY <1>12

(* ReadMessage reads a byte: one of a message that is still incomplete, or *)
(* its last.                                                               *)
LEMMA InStepRead ==
  ASSUME ReadInv, stage \in {"first", "loop"}, stream # <<>>, NEW rest, Following(rest),
         stage' # "handshake", UNCHANGED sent
  PROVE  /\ ReadByte => Following(rest)'
         /\ ReadLastByte => /\ Following(rest)'
                            /\ read' = Append(read, sent[Len(read) + 1])
<1> DEFINE r == Len(read)
           m == sent[r + 1]
           s == Serialize(m)
<1>1. /\ r \in Nat /\ r + 1 \in 1..Len(sent) /\ m \in Messages
      /\ Len(Extended) \in 1..Len(s)
      /\ \A k \in 1..Len(Extended) : Extended[k] = s[k]
      /\ Len(Extended) = Len(s) => Tail(stream) = rest[r + 1]
      /\ Extended \o Tail(stream) = rest[r]
  BY NextByte
<1>2. /\ buf \in Octets /\ stream \in Octets /\ Extended \in Octets /\ Tail(stream) \in Octets
      /\ read \in Seq(Returned) /\ Rest(sent, rest) /\ ReadFirst /\ Len(sent) \in Nat
  BY OctetsReadOn, LenProperties DEF ReadInv, WireTypeOK, StagesRight, Following, Octets
<1>3. /\ Len(Extended) < Len(s) <=> Len(Extended) < Needed(Extended)
      /\ Len(Extended) = Len(s) <=> Len(Extended) = Needed(Extended)
      /\ Len(Extended) = Len(s) => Received(Extended) = m
  BY <1>1, <1>2, ReadsOneMessage
<1> HIDE DEF m, s
<1>4. ASSUME ReadByte PROVE Following(rest)'
  <2>1. /\ buf' = Extended /\ stream' = Tail(stream) /\ read' = read
        /\ Len(Extended) < Needed(Extended)
    BY <1>4 DEF ReadByte
  <2>2. ReadFirst'
    BY <1>2, <2>1 DEF ReadFirst
  <2>3. InMessage'
    BY <1>3, <2>1 DEF InMessage, m, s
  <2>4. buf' \o Unread' = rest[Len(read')]
    BY <1>1, <2>1 DEF Unread
  <2> QED BY <1>2, <2>2, <2>3, <2>4 DEF Following
<1>5. ASSUME ReadLastByte PROVE Following(rest)' /\ read' = Append(read, m)
  <2>1. /\ buf' = <<>> /\ stream' = Tail(stream) /\ read' = Append(read, m)
        /\ Tail(stream) = rest[r + 1]
    BY <1>1, <1>3, <1>5 DEF ReadLastByte
  <2>2. /\ Len(read') = r + 1 /\ read'[r + 1] = m /\ \A k \in 1..r : read'[k] = read[k]
    <3>1. m \in Returned
      BY <1>1 DEF Returned
    <3> QED BY <1>2, <2>1, <3>1, AppendProperties
  <2>3. ReadFirst'
    <3>1. ASSUME NEW k \in 1..r + 1 PROVE read'[k] = sent[k]
      <4>1. CASE k = r + 1
        BY <2>2, <4>1 DEF m
      <4>2. CASE k # r + 1
        <5>1. k \in 1..r
          BY <1>1, <4>2
        <5> QED BY <1>2, <2>2, <5>1 DEF ReadFirst
      <4> QED BY <4>1, <4>2
    <3> QED BY <1>1, <1>2, <2>2, <3>1 DEF ReadFirst
  <2>4. InMessage'
    BY <2>1 DEF InMessage
  <2>5. buf' \o Unread' = rest[Len(read')]
    <3>1. <<>> \o Tail(stream) = Tail(stream)
      BY <1>2, ConcatEmptySeq DEF Octets
    <3>2. Unread' = Tail(stream)
      BY <2>1 DEF Unread
    <3> HIDE DEF r
    <3> QED BY <2>1, <2>2, <3>1, <3>2
  <2> QED BY <1>2, <2>1, <2>3, <2>4, <2>5 DEF Following
<1> QED BY <1>4, <1>5 DEF m

(* Bytes that are gone make dropped positive, and no step takes that back. *)
LEMMA InStepNext == ReadInv /\ [WireNext]_wireVars => InStep'
<1> SUFFICES ASSUME ReadInv, [WireNext]_wireVars, dropped' = 0
             PROVE  \E rest : Following(rest)'
  BY DEF InStep
<1>0. /\ buf \in Octets /\ stream \in Octets /\ Len(buf) \in Nat /\ Len(stream) \in Nat
      /\ dropped \in Nat /\ StagesRight /\ HandshakeLength \in Nat
  BY LenProperties, WireAssumption DEF ReadInv, WireTypeOK, Octets
<1>1. dropped = 0 => \E rest : Following(rest)
  BY DEF ReadInv, InStep
<1>2. ASSUME dropped = 0, UNCHANGED <<sent, buf, read>>, Unread' = Unread
      PROVE  \E rest : Following(rest)'
  <2>1. PICK rest : Following(rest)
    BY <1>1, <1>2
  <2>2. Following(rest)'
    BY <1>2, <2>1 DEF Following, ReadFirst, InMessage
  <2> QED BY <2>2
<1>3. ASSUME dropped = 0, UNCHANGED <<sent, buf, read, stream, stage>>
      PROVE  \E rest : Following(rest)'
  BY <1>2, <1>3 DEF Unread
<1>4. CASE \E m \in Messages : PeerSends(m)
  <2>1. PICK m \in Messages : PeerSends(m)
    BY <1>4
  <2>2. dropped = 0
    BY <2>1 DEF PeerSends, local
  <2> QED BY <2>1, <2>2, InStepSent
<1>5. CASE PeerCloses
  BY <1>3, <1>5 DEF PeerCloses, local
<1>6. CASE ReadHandshake
  BY <1>2, <1>6 DEF ReadHandshake, remote, Unread
<1>7. CASE HandshakeFails
  <2>1. dropped = 0 /\ Unread' = stream' /\ stream' = <<>> /\ UNCHANGED <<sent, buf, read>>
    BY <1>0, <1>7 DEF HandshakeFails, StagesRight, Unread, remote
  <2>2. Unread = <<>>
    BY <1>0, <1>7, SubSeqEmpty DEF HandshakeFails, Unread
  <2> QED BY <1>2, <2>1, <2>2
<1>8. CASE ReadByte
  <2>1. /\ stage \in {"first", "loop"} /\ stream # <<>> /\ stage' = stage /\ dropped = 0
        /\ UNCHANGED sent
    BY <1>8 DEF ReadByte, remote
  <2>2. PICK rest : Following(rest)
    BY <1>1, <2>1
  <2>3. Following(rest)'
    BY <1>8, <2>1, <2>2, InStepRead
  <2> QED BY <2>3
<1>9. CASE FirstMessage \/ HandleMessage
  <2>1. /\ ReadLastByte /\ stage \in {"first", "loop"} /\ stage' # "handshake" /\ dropped = 0
        /\ UNCHANGED sent
    <3>1. CASE FirstMessage
      BY <3>1 DEF FirstMessage, remote
    <3>2. CASE HandleMessage
      BY <3>2 DEF HandleMessage, remote
    <3> QED BY <1>9, <3>1, <3>2
  <2>2. stream # <<>>
    BY <2>1 DEF ReadLastByte
  <2>3. PICK rest : Following(rest)
    BY <1>1, <2>1
  <2>4. Following(rest)'
    BY <2>1, <2>2, <2>3, InStepRead
  <2> QED BY <2>4
<1>10. CASE FirstMessageFails \/ ReadTimesOut \/ EndOfStream
  <2>1. CASE FirstMessageFails
    <3>1. dropped = 0 /\ Len(buf) = 0
      BY <1>0, <2>1 DEF FirstMessageFails, StagesRight
    <3>2. buf = <<>>
      BY <1>0, <3>1, EmptySeq DEF Octets
    <3> QED BY <1>2, <2>1, <3>1, <3>2 DEF FirstMessageFails, Unread, remote
  <2>2. CASE ReadTimesOut
    <3>1. dropped = 0 /\ Len(buf) = 0
      BY <1>0, <2>2 DEF ReadTimesOut
    <3>2. buf = <<>>
      BY <1>0, <3>1, EmptySeq DEF Octets
    <3> QED BY <1>2, <2>2, <3>1, <3>2 DEF ReadTimesOut, Unread, remote
  <2> QED BY <1>10, <2>1, <2>2 DEF EndOfStream
<1>11. CASE StartReadLoop
  BY <1>2, <1>11 DEF StartReadLoop, Unread, remote
<1>12. CASE UNCHANGED wireVars
  BY <1>3, <1>12 DEF wireVars, remote, local
<1> QED BY <1>4, <1>5, <1>6, <1>7, <1>8, <1>9, <1>10, <1>11, <1>12 DEF WireNext

LEMMA ReadInvHolds == WireSpec => []ReadInv
<1>1. ReadInv /\ [WireNext]_wireVars => ReadInv'
  BY WireTypeNext, StagesNext, InStepNext DEF ReadInv
<1> QED BY <1>1, ReadInit, PTL DEF WireSpec

(* Where nothing is dropped, what is read is what was sent.                *)
LEMMA ReadIsSent ==
  ASSUME ReadInv, dropped = 0
  PROVE  IsPrefix(read, sent) /\ (AtRest => read = sent) /\ ReadFirst
<1>1. PICK rest : Following(rest)
  BY DEF ReadInv, InStep
<1>2. /\ read \in Seq(Returned) /\ sent \in Seq(Messages) /\ Len(read) \in Nat
      /\ Len(sent) \in Nat /\ ReadFirst /\ Len(read) <= Len(sent)
      /\ \A k \in 1..Len(read) : read[k] = sent[k]
  BY <1>1, LenProperties DEF ReadInv, WireTypeOK, StagesRight, Following, ReadFirst
<1>3. read \in Seq(Returned) /\ sent \in Seq(Returned)
  BY <1>2, SeqMonotonic DEF Returned
<1>4. IsPrefix(read, sent)
  <2> DEFINE a == SubSeq(read, 1, Len(read))
             b == SubSeq(sent, 1, Len(read))
  <2>1. \A k \in 1..Len(read) : read[k] \in Returned /\ sent[k] \in Returned
    BY <1>2, <1>3, ElementOfSeq
  <2>2. /\ a \in Seq(Returned) /\ Len(a) = Len(read)
        /\ \A k \in 1..Len(read) : a[k] = read[k]
    <3>1. a = read
      BY <1>3, SubSeqFull
    <3> QED BY <1>3, <3>1
  <2>3. /\ b \in Seq(Returned) /\ Len(b) = Len(read)
        /\ \A k \in 1..Len(read) : b[k] = sent[k]
    <3>1. /\ b \in Seq(Returned) /\ Len(b) = IF 1 <= Len(read) THEN Len(read) - 1 + 1 ELSE 0
          /\ \A k \in 1..Len(read) - 1 + 1 : b[k] = sent[1 + k - 1]
      BY <1>2, <2>1, SubSeqProperties
    <3> HIDE DEF b
    <3>2. Len(b) = Len(read)
      BY <1>2, <3>1
    <3>3. ASSUME NEW k \in 1..Len(read) PROVE b[k] = sent[k]
      <4>1. k \in 1..Len(read) - 1 + 1 /\ 1 + k - 1 = k
        BY <1>2
      <4> QED BY <3>1, <4>1
    <3> QED BY <3>1, <3>2, <3>3
  <2> HIDE DEF a, b
  <2>4. a = b
    <3>1. \A k \in 1..Len(a) : a[k] = b[k]
      BY <1>2, <2>2, <2>3
    <3> QED BY <2>2, <2>3, <3>1, SeqEqual
  <2> QED BY <1>2, <2>4 DEF IsPrefix, a, b
<1>5. ASSUME AtRest PROVE read = sent
  <2>1. stream = <<>> /\ buf = <<>> /\ Unread = <<>>
    BY <1>5 DEF AtRest, Unread
  <2>2. rest[Len(read)] = <<>>
    BY <1>1, <2>1 DEF Following
  <2>3. Len(read) = Len(sent)
    <3> SUFFICES ASSUME Len(read) # Len(sent) PROVE FALSE
      OBVIOUS
    <3> DEFINE k == Len(read) + 1
    <3>1. k \in 1..Len(sent) /\ k - 1 = Len(read)
      BY <1>2
    <3>2. sent[k] \in Messages /\ rest[k] \in Octets
      BY <1>1, <1>2, <3>1, ElementOfSeq DEF Following, Rest
    <3>3. rest[k - 1] = Serialize(sent[k]) \o rest[k]
      BY <1>1, <3>1 DEF Following, Rest
    <3> HIDE DEF k
    <3> DEFINE s == Serialize(sent[k])
               t == rest[k]
    <3>4. s \in Octets /\ Len(s) >= 4 /\ Len(s) \in Nat /\ t \in Octets /\ s \o t = <<>>
      BY <2>2, <3>1, <3>2, <3>3, SerializeFacts
    <3> HIDE DEF s, t
    <3>5. s = <<>>
      BY <3>4, ConcatEqualIffEmpty DEF Octets
    <3> QED BY <3>4, <3>5
  <2> QED BY <1>2, <1>3, <2>3, SeqEqual
<1> QED BY <1>2, <1>4, <1>5

(* As long as no ReadMessage fails in the middle of a message, the client   *)
(* reads the messages that the peer wrote, in their order, wherever TCP     *)
(* cuts the stream, and all of them once the stream is empty.               *)
THEOREM MessagesAreKept == WireSpec => []MessagesKept
<1>1. ReadInv => MessagesKept
  BY ReadIsSent DEF MessagesKept
<1> QED BY <1>1, ReadInvHolds, PTL

-----------------------------------------------------------------------------
(* Choked or not.                                                          *)

(* PeerReadLoop handles every message but the one ConnectToPeers read.     *)
Handled == IF Status = "active" THEN Tail(read) ELSE read

ChokeRight == PeerChoking <=> ChokedBy(Handled)

LEMMA ChokedByNext ==
  ASSUME NEW S, NEW ms \in Seq(S), NEW m \in S
  PROVE  /\ m.ID = MsgChoke => ChokedBy(Append(ms, m))
         /\ m.ID = MsgUnchoke => ~ChokedBy(Append(ms, m))
         /\ ~Chokes(m) => (ChokedBy(Append(ms, m)) <=> ChokedBy(ms))
<1> DEFINE n == Len(ms)
           more == Append(ms, m)
<1>1. n \in Nat /\ DOMAIN ms = 1..n
  BY LenProperties
<1>2. /\ more \in Seq(S) /\ DOMAIN more = 1..n + 1 /\ more[n + 1] = m
      /\ \A k \in 1..n : more[k] = ms[k]
  <2>1. /\ more \in Seq(S) /\ Len(more) = n + 1 /\ more[n + 1] = m
        /\ \A k \in 1..n : more[k] = ms[k]
    BY AppendProperties
  <2>2. DOMAIN more = 1..Len(more)
    BY <2>1, LenProperties
  <2> QED BY <2>1, <2>2
<1> HIDE DEF n, more
<1>3. \A k \in 1..n + 1 : k \in 1..n \/ k = n + 1
  BY <1>1
<1>4. \A k \in 1..n : k \in 1..n + 1 /\ n + 1 > k
  BY <1>1
<1>5. n + 1 \in 1..n + 1 /\ \A k \in 1..n + 1 : ~(k > n + 1)
  BY <1>1
<1>6. ASSUME m.ID = MsgChoke PROVE ChokedBy(more)
  <2> SUFFICES ASSUME NEW k \in 1..n + 1, more[k].ID = MsgUnchoke
               PROVE  \E j \in 1..n + 1 : j > k /\ more[j].ID = MsgChoke
    BY <1>2 DEF ChokedBy
  <2>1. k # n + 1
    BY <1>2, <1>6 DEF MsgChoke, MsgUnchoke
  <2>2. n + 1 > k
    BY <1>3, <1>4, <2>1
  <2> QED BY <1>2, <1>5, <1>6, <2>2
<1>7. ASSUME m.ID = MsgUnchoke PROVE ~ChokedBy(more)
  BY <1>2, <1>5, <1>7 DEF ChokedBy
<1>8. ASSUME ~Chokes(m) PROVE ChokedBy(more) <=> ChokedBy(ms)
  <2>1. m.ID # MsgChoke /\ m.ID # MsgUnchoke
    BY <1>8 DEF Chokes
  <2>2. ASSUME ChokedBy(more), NEW k \in 1..n, ms[k].ID = MsgUnchoke
        PROVE  \E j \in 1..n : j > k /\ ms[j].ID = MsgChoke
    <3>1. PICK j \in 1..n + 1 : j > k /\ more[j].ID = MsgChoke
      BY <1>2, <1>4, <2>2 DEF ChokedBy
    <3>2. j \in 1..n
      BY <1>2, <1>3, <2>1, <3>1
    <3> QED BY <1>2, <3>1, <3>2
  <2>3. ASSUME ChokedBy(ms), NEW k \in 1..n + 1, more[k].ID = MsgUnchoke
        PROVE  \E j \in 1..n + 1 : j > k /\ more[j].ID = MsgChoke
    <3>1. k \in 1..n
      BY <1>2, <1>3, <2>1, <2>3
    <3>2. PICK j \in 1..n : j > k /\ ms[j].ID = MsgChoke
      BY <1>1, <1>2, <2>3, <3>1 DEF ChokedBy
    <3> QED BY <1>2, <1>4, <3>2
  <2>4. ChokedBy(more) => ChokedBy(ms)
    BY <1>1, <2>2 DEF ChokedBy
  <2>5. ChokedBy(ms) => ChokedBy(more)
    BY <1>2, <2>3 DEF ChokedBy
  <2> QED BY <2>4, <2>5
<1> QED BY <1>6, <1>7, <1>8 DEF more

(* A first message that says nothing of it may be left out.                *)
LEMMA ChokedByTail ==
  ASSUME NEW S, NEW ms \in Seq(S), ms # <<>>, ~Chokes(ms[1])
  PROVE  ChokedBy(Tail(ms)) <=> ChokedBy(ms)
<1> DEFINE n == Len(ms)
           t == Tail(ms)
<1>1. n \in Nat \ {0} /\ DOMAIN ms = 1..n
  BY LenProperties, EmptySeq
<1>2. t \in Seq(S) /\ DOMAIN t = 1..n - 1 /\ \A k \in 1..n - 1 : t[k] = ms[k + 1]
  <2>1. t \in Seq(S) /\ Len(t) = n - 1 /\ \A k \in 1..Len(t) : t[k] = ms[k + 1]
    BY HeadTailProperties
  <2>2. DOMAIN t = 1..Len(t)
    BY <2>1, LenProperties
  <2> QED BY <2>1, <2>2
<1>3. ms[1].ID # MsgChoke /\ ms[1].ID # MsgUnchoke
  BY DEF Chokes
<1> HIDE DEF n, t
<1>4. \A k \in 1..n - 1 : k + 1 \in 1..n
  BY <1>1
<1>5. ASSUME ChokedBy(t) PROVE ChokedBy(ms)
  <2> SUFFICES ASSUME NEW k \in 1..n, ms[k].ID = MsgUnchoke
               PROVE  \E j \in 1..n : j > k /\ ms[j].ID = MsgChoke
    BY <1>1 DEF ChokedBy
  <2>1. k # 1
    BY <1>3
  <2>2. k - 1 \in 1..n - 1 /\ (k - 1) + 1 = k
    BY <1>1, <2>1
  <2>3. t[k - 1] = ms[k]
    BY <1>2, <2>2
  <2>4. PICK j \in 1..n - 1 : j > k - 1 /\ t[j].ID = MsgChoke
    BY <1>2, <1>5, <2>2, <2>3 DEF ChokedBy
  <2>5. j + 1 \in 1..n /\ j + 1 > k /\ ms[j + 1].ID = MsgChoke
    BY <1>1, <1>2, <2>4
  <2> QED BY <2>5
<1>6. ASSUME ChokedBy(ms) PROVE ChokedBy(t)
  <2> SUFFICES ASSUME NEW k \in 1..n - 1, t[k].ID = MsgUnchoke
               PROVE  \E j \in 1..n - 1 : j > k /\ t[j].ID = MsgChoke
    BY <1>2 DEF ChokedBy
  <2>1. k + 1 \in 1..n /\ ms[k + 1].ID = MsgUnchoke
    BY <1>2, <1>4
  <2>2. PICK j \in 1..n : j > k + 1 /\ ms[j].ID = MsgChoke
    BY <1>1, <1>6, <2>1 DEF ChokedBy
  <2>3. j - 1 \in 1..n - 1 /\ j - 1 > k /\ (j - 1) + 1 = j
    BY <1>1, <2>2
  <2>4. t[j - 1].ID = MsgChoke
    BY <1>2, <2>2, <2>3
  <2> QED BY <2>3, <2>4
<1> QED BY <1>5, <1>6 DEF t

LEMMA ChokeInit == WireInit => ChokeRight
<1> SUFFICES ASSUME WireInit PROVE ChokeRight
  OBVIOUS
<1>1. PeerChoking = TRUE /\ Handled = <<>>
  BY DEF WireInit, Handled
<1>2. ChokedBy(<<>>)
  BY DEF ChokedBy
<1> QED BY <1>1, <1>2 DEF ChokeRight

LEMMA ChokeNext == ReadInv /\ ChokeRight /\ [WireNext]_wireVars => ChokeRight'
<1> SUFFICES ASSUME ReadInv, ChokeRight, [WireNext]_wireVars PROVE ChokeRight'
  OBVIOUS
<1>0. /\ buf \in Octets /\ stream \in Octets /\ StagesRight /\ read \in Seq(Returned)
      /\ PeerChoking \in BOOLEAN /\ (PeerChoking <=> ChokedBy(Handled))
  BY DEF ReadInv, WireTypeOK, StagesRight, ChokeRight, Octets
<1>1. ASSUME UNCHANGED <<PeerChoking, read>>, (Status = "active") <=> (Status' = "active")
      PROVE  ChokeRight'
  <2>1. Handled' = Handled
    BY <1>1 DEF Handled
  <2>2. ChokedBy(Handled)' <=> ChokedBy(Handled)
    BY <2>1 DEF ChokedBy
  <2> QED BY <1>0, <1>1, <2>1, <2>2 DEF ChokeRight
<1>2. CASE \E m \in Messages : PeerSends(m)
  BY <1>1, <1>2 DEF PeerSends, local
<1>3. CASE PeerCloses
  BY <1>1, <1>3 DEF PeerCloses, local
<1>4. CASE ReadHandshake
  BY <1>1, <1>4 DEF ReadHandshake
<1>5. CASE HandshakeFails
  BY <1>0, <1>1, <1>5 DEF HandshakeFails, StagesRight
<1>6. CASE ReadByte
  BY <1>1, <1>6 DEF ReadByte
<1>7. CASE FirstMessage
  <2> DEFINE m == Received(Extended)
  <2>1. /\ read = <<>> /\ Status = "handshaking" /\ read' = Append(read, m)
        /\ Status' = "active" /\ UNCHANGED PeerChoking
    BY <1>0, <1>7 DEF FirstMessage, ReadLastByte, StagesRight
  <2> HIDE DEF m
  <2>2. Handled = <<>> /\ Handled' = <<>>
    <3>1. Tail(Append(read, m)) = <<>>
      BY <1>0, <2>1, HeadTailAppend
    <3> QED BY <2>1, <3>1 DEF Handled
  <2>3. ChokedBy(Handled)' <=> ChokedBy(Handled)
    BY <2>2 DEF ChokedBy
  <2> QED BY <1>0, <2>1, <2>3 DEF ChokeRight
<1>8. CASE HandleMessage
  <2> DEFINE m == Received(Extended)
  <2>1. /\ PeerChoking' = CASE m.ID = MsgChoke -> TRUE
                            [] m.ID = MsgUnchoke -> FALSE
                            [] OTHER -> PeerChoking
        /\ read' = Append(read, m) /\ Status' = Status /\ stage = "loop"
    BY <1>8 DEF HandleMessage, ReadLastByte
  <2>2. m \in Returned
    BY <1>0, <1>8, OctetsReadOn DEF HandleMessage, ReadLastByte, Returned
  <2> HIDE DEF m
  <2>3. Handled \in Seq(Returned) /\ Handled' = Append(Handled, m)
    <3>1. CASE Status = "active"
      <4>1. read # <<>>
        BY <1>0, <3>1 DEF StagesRight
      <4>2. Tail(Append(read, m)) = Append(Tail(read), m) /\ Tail(read) \in Seq(Returned)
        BY <1>0, <4>1, HeadTailAppend, HeadTailProperties
      <4> QED BY <2>1, <3>1, <4>2 DEF Handled
    <3>2. CASE Status # "active"
      BY <1>0, <2>1, <3>2 DEF Handled
    <3> QED BY <3>1, <3>2
  <2>4. ChokedBy(Handled)' <=> ChokedBy(Append(Handled, m))
    BY <2>3 DEF ChokedBy
  <2> DEFINE h == Handled
  <2>5. h \in Seq(Returned) /\ (PeerChoking <=> ChokedBy(h))
    BY <1>0, <2>3
  <2> HIDE DEF h
  <2>6. PeerChoking' <=> ChokedBy(Append(h, m))
    <3>1. CASE m.ID = MsgChoke
      <4>1. PeerChoking' = TRUE
        BY <2>1, <3>1 DEF MsgChoke, MsgUnchoke
      <4>2. ChokedBy(Append(h, m))
        BY <2>2, <2>5, <3>1, ChokedByNext
      <4> QED BY <4>1, <4>2
    <3>2. CASE m.ID = MsgUnchoke
      <4>1. PeerChoking' = FALSE
        BY <2>1, <3>2 DEF MsgChoke, MsgUnchoke
      <4>2. ~ChokedBy(Append(h, m))
        BY <2>2, <2>5, <3>2, ChokedByNext
      <4> QED BY <4>1, <4>2
    <3>3. CASE ~Chokes(m)
      <4>1. PeerChoking' = PeerChoking
        BY <2>1, <3>3 DEF Chokes
      <4>2. ChokedBy(Append(h, m)) <=> ChokedBy(h)
        BY <2>2, <2>5, <3>3, ChokedByNext
      <4> QED BY <1>0, <2>5, <4>1, <4>2
    <3> QED BY <3>1, <3>2, <3>3 DEF Chokes
  <2> QED BY <2>4, <2>6 DEF ChokeRight, h
<1>9. CASE FirstMessageFails
  BY <1>0, <1>1, <1>9 DEF FirstMessageFails, StagesRight
<1>10. CASE ReadTimesOut
  BY <1>1, <1>10 DEF ReadTimesOut
<1>11. CASE EndOfStream
  BY <1>9, <1>10, <1>11 DEF EndOfStream
<1>12. CASE StartReadLoop
  BY <1>1, <1>12 DEF StartReadLoop
<1>13. CASE UNCHANGED wireVars
  BY <1>1, <1>13 DEF wireVars, local
<1> QED
  BY <1>2, <1>3, <1>4, <1>5, <1>6, <1>7, <1>8, <1>9, <1>10, <1>11, <1>12, <1>13 DEF WireNext

(* Once everything is read, PeerChoking is what the peer said last, for     *)
(* every peer that did not say it in the message ConnectToPeers read.       *)
THEOREM ChokeIsKnown == WireSpec => []ChokeKnown
<1>1. ReadInv /\ ChokeRight => ChokeKnown
  <2> SUFFICES ASSUME ReadInv, ChokeRight, AtRest, dropped = 0,
                      ~(Status = "active" /\ Chokes(sent[1]))
               PROVE  PeerChoking = ChokedBy(sent)
    BY DEF ChokeKnown
  <2>1. read = sent /\ sent \in Seq(Messages) /\ PeerChoking \in BOOLEAN
    BY ReadIsSent DEF ReadInv, WireTypeOK
  <2>2. PeerChoking <=> ChokedBy(Handled)
    BY DEF ChokeRight
  <2>3. ASSUME Status = "active" PROVE PeerChoking <=> ChokedBy(sent)
    <3>1. sent # <<>>
      BY <2>1, <2>3 DEF ReadInv, StagesRight
    <3>2. ChokedBy(Tail(sent)) <=> ChokedBy(sent)
      BY <2>1, <2>3, <3>1, ChokedByTail
    <3>3. Handled = Tail(sent)
      BY <2>1, <2>3 DEF Handled
    <3>4. PeerChoking <=> ChokedBy(Tail(sent))
      BY <2>2, <3>3, Zenon
    <3> QED BY <3>2, <3>4, Zenon
  <2>4. ASSUME Status # "active" PROVE PeerChoking <=> ChokedBy(sent)
    <3>1. Handled = sent
      BY <2>1, <2>4 DEF Handled
    <3> QED BY <2>2, <3>1, Zenon
  <2>5. PeerChoking <=> ChokedBy(sent)
    BY <2>3, <2>4
  <2>6. ChokedBy(sent) \in BOOLEAN
    BY DEF ChokedBy
  <2> QED BY <2>1, <2>5, <2>6
<1>2. WireSpec => []ChokeRight
  BY ReadInvHolds, ChokeInit, ChokeNext, PTL DEF WireSpec
<1> QED BY <1>1, <1>2, ReadInvHolds, PTL

-----------------------------------------------------------------------------
(* The pieces of a peer whose bitfield came as the first message.          *)

OneBitfield == \A k \in 1..Len(sent) : sent[k].ID = MsgBitfield => k = 1

InTime == dropped = 0 /\ Status = "active" /\ read[1].ID = MsgBitfield

(* i is told by one of the messages.                                       *)
Told(messages, i) == \E k \in 1..Len(messages) : Says(messages[k], i)

PiecesHeld ==
  /\ Len(Bitfield) = Len(read[1].Payload)
  /\ \A i \in Nat : i \div 8 < Len(Bitfield) => (HasPiece(i) <=> Told(read, i))

PiecesRight == InTime => PiecesHeld

LEMMA ToldNext ==
  ASSUME NEW S, NEW ms \in Seq(S), NEW m \in S, NEW i
  PROVE  Told(Append(ms, m), i) <=> Told(ms, i) \/ Says(m, i)
<1> DEFINE n == Len(ms)
           more == Append(ms, m)
<1>1. n \in Nat /\ Len(more) = n + 1 /\ more[n + 1] = m /\ \A k \in 1..n : more[k] = ms[k]
  BY AppendProperties, LenProperties
<1> HIDE DEF n, more
<1>2. \A k \in 1..n + 1 : k \in 1..n \/ k = n + 1
  BY <1>1
<1>3. n + 1 \in 1..n + 1 /\ \A k \in 1..n : k \in 1..n + 1
  BY <1>1
<1>4. Told(more, i) => Told(ms, i) \/ Says(m, i)
  BY <1>1, <1>2 DEF Told, n
<1>5. Told(ms, i) => Told(more, i)
  BY <1>1, <1>3 DEF Told, n
<1>6. Says(m, i) => Told(more, i)
  BY <1>1, <1>3 DEF Told
<1> QED BY <1>4, <1>5, <1>6 DEF more

LEMMA HoldsPiece == \A i : HasPiece(i) <=> PieceIn(Bitfield, i)
BY DEF HasPiece, PieceIn, InRange

LEMMA OneBitfieldNext == WireTypeOK /\ OneBitfield /\ [WireNext]_wireVars => OneBitfield'
<1> SUFFICES ASSUME WireTypeOK, OneBitfield, [WireNext]_wireVars PROVE OneBitfield'
  OBVIOUS
<1>1. CASE \E m \in Messages : PeerSends(m)
  <2>1. PICK m \in Messages : PeerSends(m)
    BY <1>1
  <2>2. /\ sent' = Append(sent, m) /\ (m.ID = MsgBitfield => sent = <<>>)
        /\ sent \in Seq(Messages) /\ Len(sent) \in Nat
    BY <2>1, LenProperties DEF PeerSends, WireTypeOK
  <2>3. /\ Len(sent') = Len(sent) + 1 /\ sent'[Len(sent) + 1] = m
        /\ \A k \in 1..Len(sent) : sent'[k] = sent[k]
    BY <2>2, AppendProperties
  <2>4. ASSUME NEW k \in 1..Len(sent) + 1, sent'[k].ID = MsgBitfield PROVE k = 1
    <3>1. CASE k = Len(sent) + 1
      <4>1. sent = <<>>
        BY <2>2, <2>3, <2>4, <3>1
      <4>2. Len(sent) = 0
        BY <4>1
      <4> QED BY <3>1, <4>2
    <3>2. CASE k # Len(sent) + 1
      <4>1. k \in 1..Len(sent)
        BY <2>2, <3>2
      <4> QED BY <2>3, <2>4, <4>1 DEF OneBitfield
    <3> QED BY <3>1, <3>2
  <2> QED BY <2>3, <2>4 DEF OneBitfield
<1>2. CASE UNCHANGED sent
  BY <1>2 DEF OneBitfield
<1>3. (\E m \in Messages : PeerSends(m)) \/ UNCHANGED sent
  BY DEF WireNext, wireVars, remote, PeerCloses, ReadHandshake, HandshakeFails, ReadByte,
         FirstMessage, HandleMessage, FirstMessageFails, StartReadLoop, ReadTimesOut, EndOfStream
<1> QED BY <1>1, <1>2, <1>3

(* The first message is a bitfield: it is the peer's pieces.               *)
LEMMA PiecesFirst ==
  ASSUME ReadInv, FirstMessage, InTime'
  PROVE  PiecesHeld'
<1> DEFINE m == Received(Extended)
<1>1. /\ read = <<>> /\ read' = Append(read, m) /\ read \in Seq(Returned)
      /\ Bitfield' = IF m.ID = MsgBitfield THEN m.Payload ELSE Bitfield
      /\ Extended \in Octets
  BY OctetsReadOn DEF ReadInv, WireTypeOK, StagesRight, FirstMessage, ReadLastByte, Octets
<1>2. m \in Returned
  BY <1>1 DEF Returned
<1> HIDE DEF m
<1>3. Len(read) = 0 /\ Len(read') = 1 /\ read'[1] = m
  BY <1>1, <1>2, AppendProperties
<1>4. m.ID = MsgBitfield /\ Bitfield' = m.Payload
  BY <1>1, <1>3 DEF InTime
<1>5. ASSUME NEW i \in Nat PROVE HasPiece(i)' <=> Told(read', i)
  <2>1. HasPiece(i)' <=> PieceIn(m.Payload, i)
    BY <1>4 DEF HasPiece, InRange, PieceIn
  <2>2. Told(read', i) <=> Told(read, i) \/ Says(m, i)
    BY <1>1, <1>2, ToldNext
  <2>3. ~Told(read, i)
    BY <1>3 DEF Told
  <2>4. Says(m, i) <=> PieceIn(m.Payload, i)
    BY <1>4 DEF Says, MsgBitfield, MsgHave
  <2> QED BY <2>1, <2>2, <2>3, <2>4
<1>6. Len(Bitfield') = Len(read'[1].Payload)
  BY <1>3, <1>4
<1> QED BY <1>5, <1>6 DEF PiecesHeld

(* A later message is no bitfield, and a have adds its piece.              *)
LEMMA PiecesHandled ==
  ASSUME ReadInv, OneBitfield, PiecesRight, HandleMessage, InTime'
  PROVE  PiecesHeld'
<1> DEFINE m == Received(Extended)
           r == Len(read)
<1>1. /\ ReadLastByte /\ stage = "loop" /\ stage' # "handshake" /\ stream # <<>>
      /\ Extended \in Octets /\ Len(Extended) = Needed(Extended)
      /\ read' = Append(read, m) /\ UNCHANGED <<Status, dropped, sent>>
  <2>1. /\ ReadLastByte /\ stage = "loop" /\ stage' \in {"loop", "panic"}
        /\ UNCHANGED <<Status, dropped, sent>>
    BY DEF HandleMessage, remote
  <2>2. /\ stream # <<>> /\ Len(Extended) = Needed(Extended) /\ read' = Append(read, m)
    BY <2>1 DEF ReadLastByte
  <2>3. Extended \in Octets
    BY <2>2, OctetsReadOn DEF ReadInv, WireTypeOK, Octets
  <2> QED BY <2>1, <2>2, <2>3
<1>2. /\ Bitfield' = IF m.ID = MsgHave /\ ~(m.ID = MsgHave /\ Len(m.Payload) < 4)
                     THEN Announced(m) ELSE Bitfield
  BY DEF HandleMessage
<1>3. /\ read \in Seq(Returned) /\ read # <<>> /\ r \in Nat \ {0} /\ m \in Returned
      /\ dropped = 0 /\ Status = "active"
  <2>1. dropped = 0 /\ Status = "active"
    BY <1>1 DEF InTime
  <2>2. read \in Seq(Returned) /\ read # <<>>
    BY <2>1 DEF ReadInv, StagesRight
  <2> QED BY <1>1, <2>1, <2>2, EmptySeq DEF Returned
<1>4. m = sent[r + 1] /\ r + 1 \in 1..Len(sent)
  <2>1. PICK rest : Following(rest)
    BY <1>3 DEF ReadInv, InStep
  <2>2. read' = Append(read, sent[r + 1])
    BY <1>1, <2>1, InStepRead
  <2>3. r + 1 \in 1..Len(sent) /\ sent[r + 1] \in Messages
    BY <1>1, <2>1, NextByte
  <2>4. sent[r + 1] \in Returned
    BY <2>3 DEF Returned
  <2> DEFINE x == sent[r + 1]
  <2>5. Append(read, m) = Append(read, x) /\ x \in Returned
    BY <1>1, <2>2, <2>4
  <2> HIDE DEF m, x
  <2>6. m = x
    BY <1>3, <2>5, AppendInjective
  <2> QED BY <2>3, <2>6 DEF x
<1>5. m.ID # MsgBitfield
  <2>1. r + 1 # 1
    BY <1>3
  <2> QED BY <1>4, <2>1 DEF OneBitfield
<1>6. m.Payload \in Octets /\ Len(m.Payload) \in Nat
      /\ (Len(m.Payload) >= 4 => HaveIndex(m) \in Nat)
  <2>1. m.Payload \in Octets /\ (Len(m.Payload) >= 4 => HaveIndex(m) \in Nat)
    BY <1>1, ReceivedType
  <2> HIDE DEF m
  <2> QED BY <2>1, LenProperties DEF Octets
<1> HIDE DEF m
<1>7. read'[1] = read[1]
  <2>1. \A k \in 1..r : read'[k] = read[k]
    BY <1>1, <1>3, AppendProperties
  <2> QED BY <1>3, <2>1
<1>8. /\ Len(Bitfield) = Len(read[1].Payload)
      /\ \A i \in Nat : i \div 8 < Len(Bitfield) => (HasPiece(i) <=> Told(read, i))
  <2>1. InTime
    BY <1>3, <1>7 DEF InTime
  <2> QED BY <2>1 DEF PiecesRight, PiecesHeld
<1>9. Bitfield \in Octets
  BY DEF ReadInv, WireTypeOK, Octets
<1>10. /\ Len(Bitfield') = Len(Bitfield)
       /\ \A j \in Nat : j \div 8 < Len(Bitfield) =>
            (PieceIn(Bitfield', j) <=> PieceIn(Bitfield, j) \/ Says(m, j))
  <2> DEFINE i == HaveIndex(m)
  <2>1. CASE m.ID = MsgHave /\ Len(m.Payload) >= 4
    <3>1. Bitfield' = SetBitInBitfield(i) /\ i \in Nat
      BY <1>2, <1>6, <2>1 DEF Announced
    <3>2. \A j : Says(m, j) <=> j = i
      BY <1>5, <2>1 DEF Says
    <3> HIDE DEF i
    <3> QED BY <1>9, <3>1, <3>2, BitSet
  <2>2. CASE ~(m.ID = MsgHave /\ Len(m.Payload) >= 4)
    <3>1. Bitfield' = Bitfield
      BY <1>2, <1>6, <2>2
    <3>2. \A j : ~Says(m, j)
      BY <1>5, <2>2 DEF Says
    <3> QED BY <3>1, <3>2
  <2> QED BY <1>6, <2>1, <2>2
<1>11. ASSUME NEW i \in Nat, i \div 8 < Len(Bitfield)
       PROVE  HasPiece(i)' <=> Told(read', i)
  <2>1. HasPiece(i)' <=> PieceIn(Bitfield', i)
    BY DEF HasPiece, InRange, PieceIn
  <2>2. HasPiece(i) <=> PieceIn(Bitfield, i)
    BY HoldsPiece
  <2>3. Told(read', i) <=> Told(read, i) \/ Says(m, i)
    BY <1>1, <1>3, ToldNext
  <2> QED BY <1>8, <1>10, <1>11, <2>1, <2>2, <2>3
<1> QED BY <1>7, <1>8, <1>10, <1>11 DEF PiecesHeld

LEMMA PiecesNext ==
  ReadInv /\ OneBitfield /\ PiecesRight /\ [WireNext]_wireVars => PiecesRight'
<1> SUFFICES ASSUME ReadInv, OneBitfield, PiecesRight, [WireNext]_wireVars, InTime'
             PROVE  PiecesHeld'
  BY DEF PiecesRight
<1>1. ASSUME UNCHANGED <<read, Bitfield>>, InTime PROVE PiecesHeld'
  <2>1. PiecesHeld
    BY <1>1 DEF PiecesRight
  <2> QED BY <1>1, <2>1 DEF PiecesHeld, HasPiece, InRange, Told
<1>2. ASSUME UNCHANGED <<read, Bitfield, Status, dropped>> PROVE PiecesHeld'
  BY <1>1, <1>2 DEF InTime
<1>3. CASE \E m \in Messages : PeerSends(m)
  BY <1>2, <1>3 DEF PeerSends, local
<1>4. CASE PeerCloses
  BY <1>2, <1>4 DEF PeerCloses, local
<1>5. CASE ReadHandshake
  BY <1>2, <1>5 DEF ReadHandshake
<1>6. CASE HandshakeFails
  BY <1>6 DEF HandshakeFails, InTime
<1>7. CASE ReadByte
  BY <1>2, <1>7 DEF ReadByte
<1>8. CASE FirstMessage
  BY <1>8, PiecesFirst
<1>9. CASE HandleMessage
  BY <1>9, PiecesHandled
<1>10. CASE FirstMessageFails
  BY <1>10 DEF FirstMessageFails, InTime
<1>11. CASE ReadTimesOut
  <2>1. dropped \in Nat /\ Len(buf) \in Nat
    BY LenProperties DEF ReadInv, WireTypeOK
  <2>2. dropped = 0
    BY <1>11, <2>1 DEF ReadTimesOut, InTime
  <2>3. UNCHANGED <<read, Bitfield, Status>> /\ InTime
    BY <1>11, <2>2 DEF ReadTimesOut, InTime
  <2> QED BY <1>1, <2>3
<1>12. CASE EndOfStream
  BY <1>10, <1>11, <1>12 DEF EndOfStream
<1>13. CASE StartReadLoop
  BY <1>2, <1>13 DEF StartReadLoop
<1>14. CASE UNCHANGED wireVars
  BY <1>2, <1>14 DEF wireVars, local
<1> QED
  BY <1>3, <1>4, <1>5, <1>6, <1>7, <1>8, <1>9, <1>10, <1>11, <1>12, <1>13, <1>14 DEF WireNext

(* Once everything is read, the client has the pieces of the peer's         *)
(* bitfield and of its haves, and no others, if the bitfield is what        *)
(* ConnectToPeers read.                                                     *)
THEOREM PiecesAreKnown == WireSpec => []PiecesKnown
<1>1. ReadInv /\ PiecesRight => PiecesKnown
  <2> SUFFICES ASSUME ReadInv, PiecesRight, AtRest, dropped = 0, Status = "active",
                      sent[1].ID = MsgBitfield, NEW i \in 0..(8 * Len(sent[1].Payload) - 1)
               PROVE  HasPiece(i) <=> \E k \in DOMAIN sent : Says(sent[k], i)
    BY DEF PiecesKnown
  <2>1. read = sent /\ sent \in Seq(Messages) /\ sent # <<>>
    BY ReadIsSent DEF ReadInv, WireTypeOK, StagesRight
  <2>2. DOMAIN sent = 1..Len(sent) /\ 1 \in 1..Len(sent)
    BY <2>1, LenProperties, EmptySeq
  <2>3. InTime
    BY <2>1 DEF InTime
  <2>4. /\ Len(Bitfield) = Len(sent[1].Payload)
        /\ \A j \in Nat : j \div 8 < Len(Bitfield) => (HasPiece(j) <=> Told(sent, j))
    BY <2>1, <2>3 DEF PiecesRight, PiecesHeld
  <2>5. Len(sent[1].Payload) \in Nat
    BY <2>1, <2>2, ElementOfSeq, MessageFields
  <2>6. i \in Nat /\ i \div 8 < Len(Bitfield)
    <3> DEFINE l == Len(sent[1].Payload)
    <3>1. l \in Nat /\ i \in 0..(8 * l - 1) /\ Len(Bitfield) = l
      BY <2>4, <2>5
    <3> HIDE DEF l
    <3> QED BY <3>1
  <2>7. HasPiece(i) <=> Told(sent, i)
    BY <2>4, <2>6
  <2> QED BY <2>2, <2>7 DEF Told
<1>2. WireInit => OneBitfield /\ PiecesRight
  BY DEF WireInit, OneBitfield, PiecesRight, InTime
<1>3. ReadInv => WireTypeOK
  BY DEF ReadInv
<1>4. WireSpec => [](OneBitfield /\ PiecesRight)
  BY <1>2, <1>3, ReadInvHolds, OneBitfieldNext, PiecesNext, PTL DEF WireSpec
<1> QED BY <1>1, <1>4, ReadInvHolds, PTL

=============================================================================
