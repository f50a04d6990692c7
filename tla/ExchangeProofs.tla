--------------------------- MODULE ExchangeProofs ---------------------------
(***************************************************************************)
(* Theorems about Bencode and Exchange: for every file, every answer,      *)
(* whatever comes after them and wherever they are cut short.              *)
(***************************************************************************)
EXTENDS Exchange, WireProofs, WellFoundedInduction

-----------------------------------------------------------------------------
(* Induction and recursion, with sets and functions in the place of        *)
(* predicates and operators.                                               *)

LEMMA Induction ==
  ASSUME NEW P, \A n \in Nat : (\A m \in Nat : m < n => m \in P) => n \in P
  PROVE  \A n \in Nat : n \in P
<1> DEFINE T == {n \in Nat : n \notin P}
<1> SUFFICES ASSUME T # {} PROVE FALSE
  OBVIOUS
<1>1. PICK n \in T : \A m \in T : ~(<<m, n>> \in OpToRel(<, Nat))
  <2>1. T \in SUBSET Nat
    OBVIOUS
  <2> HIDE DEF T
  <2> QED BY <2>1, NatLessThanWellFounded, WFMin
<1>2. \A m \in T : ~(m < n)
  BY <1>1 DEF OpToRel
<1> QED BY <1>1, <1>2

(* A body that looks at a function only where the rank is smaller has a    *)
(* fixed point.                                                            *)
Fixed(g, body) == g = body[g]

Looking(S, R, rank, body) ==
  \A g, h \in [S -> R] : \A x \in S :
    (\A y \in S : rank[y] < rank[x] => g[y] = h[y]) => body[g][x] = body[h][x]

LEMMA FixedPoint ==
  ASSUME NEW S, NEW R, R # {}, NEW rank \in [S -> Nat],
         NEW body \in [[S -> R] -> [S -> R]], Looking(S, R, rank, body)
  PROVE  \E g \in [S -> R] : Fixed(g, body)
<1> DEFINE Upto(n, g) == \A x \in S : rank[x] < n => g[x] = body[g][x]
<1>1. \A n \in Nat : \E g \in [S -> R] : Upto(n, g)
  <2> DEFINE P == {n \in Nat : \E g \in [S -> R] : Upto(n, g)}
  <2>1. ASSUME NEW n \in Nat, \A m \in Nat : m < n => m \in P PROVE n \in P
    <3>1. CASE n = 0
      <4>1. PICK r \in R : TRUE
        OBVIOUS
      <4>2. [x \in S |-> r] \in [S -> R] /\ \A x \in S : ~(rank[x] < 0)
        OBVIOUS
      <4>3. PICK g \in [S -> R] : TRUE
        BY <4>2
      <4>4. Upto(0, g)
        BY <4>2
      <4> QED BY <3>1, <4>4
    <3>2. CASE n # 0
      <4>1. n - 1 \in Nat /\ n - 1 < n
        BY <3>2
      <4>2. PICK g \in [S -> R] : Upto(n - 1, g)
        BY <2>1, <4>1
      <4>3. PICK h \in [S -> R] : h = body[g]
        OBVIOUS
      <4>4. ASSUME NEW x \in S, rank[x] < n PROVE h[x] = body[h][x]
        <5>1. ASSUME NEW y \in S, rank[y] < rank[x] PROVE g[y] = h[y]
          <6>1. rank[y] \in Nat /\ rank[x] \in Nat
            OBVIOUS
          <6>2. rank[y] < n - 1
            BY <4>4, <5>1, <6>1
          <6> QED BY <4>2, <4>3, <6>2
        <5>2. body[g][x] = body[h][x]
          BY <5>1 DEF Looking
        <5> QED BY <4>3, <5>2
      <4> QED BY <4>4
    <3> QED BY <3>1, <3>2
  <2> HIDE DEF P
  <2>2. \A n \in Nat : n \in P
    BY <2>1, Induction
  <2> QED BY <2>2 DEF P
<1>2. ASSUME NEW g \in [S -> R], NEW h \in [S -> R], NEW k \in Nat, NEW l \in Nat,
             Upto(k, g), Upto(l, h)
      PROVE  \A x \in S : rank[x] < k /\ rank[x] < l => g[x] = h[x]
  <2> DEFINE P == {n \in Nat : \A x \in S : rank[x] = n /\ n < k /\ n < l => g[x] = h[x]}
  <2>1. ASSUME NEW n \in Nat, \A m \in Nat : m < n => m \in P PROVE n \in P
    <3> SUFFICES ASSUME NEW x \in S, rank[x] = n, n < k, n < l PROVE g[x] = h[x]
      OBVIOUS
    <3>1. ASSUME NEW y \in S, rank[y] < rank[x] PROVE g[y] = h[y]
      <4>1. rank[y] \in Nat /\ rank[y] < n /\ rank[y] < k /\ rank[y] < l
        BY <3>1
      <4> QED BY <2>1, <4>1
    <3>2. body[g][x] = body[h][x]
      BY <3>1 DEF Looking
    <3> QED BY <1>2, <3>2
  <2> HIDE DEF P
  <2>2. \A n \in Nat : n \in P
    BY <2>1, Induction
  <2>3. \A x \in S : rank[x] \in P
    BY <2>2
  <2> QED BY <2>3 DEF P
<1> DEFINE f == [n \in Nat |-> CHOOSE g \in [S -> R] : Upto(n, g)]
           G == [x \in S |-> f[rank[x] + 1][x]]
<1>3. \A n \in Nat : f[n] \in [S -> R] /\ Upto(n, f[n])
  BY <1>1
<1> HIDE DEF f
<1>4. G \in [S -> R]
  BY <1>3
<1>5. ASSUME NEW x \in S PROVE G[x] = body[G][x]
  <2>1. rank[x] + 1 \in Nat /\ rank[x] < rank[x] + 1
    OBVIOUS
  <2>2. PICK h \in [S -> R] : h = f[rank[x] + 1] /\ Upto(rank[x] + 1, h)
    BY <1>3, <2>1
  <2>3. ASSUME NEW y \in S, rank[y] < rank[x] PROVE G[y] = h[y]
    <3>1. rank[y] \in Nat /\ rank[y] + 1 \in Nat /\ rank[y] < rank[y] + 1 /\ rank[y] < rank[x] + 1
      BY <2>1, <2>3
    <3>2. f[rank[y] + 1] \in [S -> R] /\ Upto(rank[y] + 1, f[rank[y] + 1])
      BY <1>3, <3>1
    <3>3. f[rank[y] + 1][y] = h[y]
      BY <1>2, <2>1, <2>2, <3>1, <3>2
    <3> QED BY <3>3
  <2>4. h[x] = body[h][x]
    BY <2>1, <2>2
  <2>5. body[G][x] = body[h][x]
    <3> HIDE DEF G
    <3> QED BY <1>4, <2>3 DEF Looking
  <2>6. G[x] = h[x]
    BY <2>2
  <2> QED BY <2>4, <2>5, <2>6
<1> HIDE DEF G
<1>6. Fixed(G, body)
  BY <1>4, <1>5 DEF Fixed
<1> QED BY <1>4, <1>6

-----------------------------------------------------------------------------
(* Strings.                                                                *)

LEMMA StringLen ==
  ASSUME NEW s \in Strings
  PROVE  /\ Len(s) \in Nat /\ DOMAIN s = 1..Len(s)
         /\ s # <<>> <=> Len(s) > 0
         /\ \A k \in 1..Len(s) : s[k] \in 0..255
<1>1. Len(s) \in Nat /\ DOMAIN s = 1..Len(s)
  BY LenProperties DEF Strings
<1>2. s # <<>> => Len(s) > 0
  BY EmptySeq DEF Strings
<1>3. s = <<>> => Len(s) = 0
  OBVIOUS
<1>4. \A k \in 1..Len(s) : s[k] \in 0..255
  BY ElementOfSeq DEF Strings
<1> QED BY <1>1, <1>2, <1>3, <1>4

LEMMA Joined ==
  ASSUME NEW s \in Strings, NEW t \in Strings
  PROVE  /\ s \o t \in Strings /\ Len(s \o t) = Len(s) + Len(t)
         /\ \A k \in 1..Len(s) : (s \o t)[k] = s[k]
         /\ \A k \in 1..Len(t) : (s \o t)[Len(s) + k] = t[k]
<1>1. s \o t \in Strings /\ Len(s \o t) = Len(s) + Len(t)
  BY ConcatProperties DEF Strings
<1>2. Len(s) \in Nat /\ Len(t) \in Nat
  BY StringLen
<1>3. \A k \in 1..Len(s) + Len(t) : (s \o t)[k] = IF k <= Len(s) THEN s[k] ELSE t[k - Len(s)]
  BY ConcatProperties DEF Strings
<1>4. ASSUME NEW k \in 1..Len(s) PROVE (s \o t)[k] = s[k]
  <2>1. k \in 1..Len(s) + Len(t) /\ k <= Len(s)
    BY <1>2
  <2> QED BY <1>3, <2>1
<1>5. ASSUME NEW k \in 1..Len(t) PROVE (s \o t)[Len(s) + k] = t[k]
  <2>1. Len(s) + k \in 1..Len(s) + Len(t) /\ ~(Len(s) + k <= Len(s)) /\ Len(s) + k - Len(s) = k
    BY <1>2
  <2> QED BY <1>3, <2>1
<1> QED BY <1>1, <1>4, <1>5

LEMMA JoinedTwice ==
  ASSUME NEW s \in Strings, NEW t \in Strings, NEW u \in Strings
  PROVE  (s \o t) \o u = s \o (t \o u)
BY ConcatAssociative DEF Strings

LEMMA JoinedNothing ==
  ASSUME NEW s \in Strings
  PROVE  s \o <<>> = s /\ <<>> \o s = s
BY ConcatEmptySeq DEF Strings

LEMMA SameString ==
  ASSUME NEW s \in Strings, NEW t \in Strings, Len(s) = Len(t), \A k \in 1..Len(s) : s[k] = t[k]
  PROVE  s = t
BY SeqEqual DEF Strings

LEMMA OneByte ==
  ASSUME NEW b \in 0..255
  PROVE  <<b>> \in Strings /\ Len(<<b>>) = 1 /\ <<b>>[1] = b /\ <<>> \in Strings
BY DEF Strings

(* What is read byte by byte from the front.                               *)
LEMMA FirstByteOf ==
  ASSUME NEW b \in 0..255, NEW s \in Strings
  PROVE  /\ <<b>> \o s \in Strings /\ <<b>> \o s # <<>>
         /\ Len(<<b>> \o s) = Len(s) + 1
         /\ (<<b>> \o s)[1] = b /\ Tail(<<b>> \o s) = s
<1> DEFINE d == <<b>> \o s
<1>1. /\ <<b>> \in Strings /\ Len(<<b>>) = 1 /\ <<b>>[1] = b /\ Len(s) \in Nat
  BY OneByte, StringLen
<1>2. /\ d \in Strings /\ Len(d) = 1 + Len(s) /\ d[1] = b
      /\ \A k \in 1..Len(s) : d[1 + k] = s[k]
  <2>1. /\ d \in Strings /\ Len(d) = Len(<<b>>) + Len(s)
        /\ \A k \in 1..Len(<<b>>) : d[k] = <<b>>[k]
        /\ \A k \in 1..Len(s) : d[Len(<<b>>) + k] = s[k]
    BY <1>1, Joined
  <2>2. 1 \in 1..Len(<<b>>)
    BY <1>1
  <2> HIDE DEF d
  <2> QED BY <1>1, <2>1, <2>2
<1>3. d # <<>>
  <2> HIDE DEF d
  <2> QED BY <1>1, <1>2, StringLen
<1>4. /\ Tail(d) \in Strings /\ Len(Tail(d)) = Len(d) - 1
      /\ \A k \in 1..Len(Tail(d)) : Tail(d)[k] = d[k + 1]
  <2> HIDE DEF d
  <2> QED BY <1>2, <1>3, HeadTailProperties DEF Strings
<1>5. Tail(d) = s
  <2> HIDE DEF d
  <2>1. Len(Tail(d)) = Len(s)
    BY <1>1, <1>2, <1>4
  <2>2. \A k \in 1..Len(Tail(d)) : Tail(d)[k] = s[k]
    BY <1>1, <1>2, <1>4, <2>1
  <2> QED BY <1>4, <2>1, <2>2, SameString
<1> QED BY <1>1, <1>2, <1>3, <1>5

LEMMA TailOf ==
  ASSUME NEW s \in Strings, s # <<>>
  PROVE  /\ Tail(s) \in Strings /\ Len(Tail(s)) = Len(s) - 1
         /\ s[1] \in 0..255 /\ s = <<s[1]>> \o Tail(s)
<1>1. /\ Tail(s) \in Strings /\ Len(Tail(s)) = Len(s) - 1
      /\ \A k \in 1..Len(Tail(s)) : Tail(s)[k] = s[k + 1]
  BY HeadTailProperties DEF Strings
<1>2. Len(s) \in Nat /\ Len(s) > 0 /\ s[1] \in 0..255
  BY StringLen
<1> DEFINE d == <<s[1]>> \o Tail(s)
<1>3. /\ d \in Strings /\ Len(d) = Len(s) /\ d[1] = s[1]
      /\ \A k \in 1..Len(Tail(s)) : d[1 + k] = Tail(s)[k]
  <2>1. <<s[1]>> \in Strings /\ Len(<<s[1]>>) = 1 /\ <<s[1]>>[1] = s[1]
    BY <1>2, OneByte
  <2>2. /\ d \in Strings /\ Len(d) = Len(<<s[1]>>) + Len(Tail(s))
        /\ \A k \in 1..Len(<<s[1]>>) : d[k] = <<s[1]>>[k]
        /\ \A k \in 1..Len(Tail(s)) : d[Len(<<s[1]>>) + k] = Tail(s)[k]
    BY <1>1, <2>1, Joined
  <2>3. 1 \in 1..Len(<<s[1]>>)
    BY <2>1
  <2> HIDE DEF d
  <2> QED BY <1>1, <1>2, <2>1, <2>2, <2>3
<1>4. s = d
  <2> HIDE DEF d
  <2>1. ASSUME NEW k \in 1..Len(s) PROVE s[k] = d[k]
    <3>1. CASE k = 1
      BY <1>3, <3>1
    <3>2. CASE k # 1
      <4>1. k - 1 \in 1..Len(Tail(s)) /\ 1 + (k - 1) = k /\ (k - 1) + 1 = k
        BY <1>1, <1>2, <3>2
      <4>2. d[1 + (k - 1)] = Tail(s)[k - 1] /\ Tail(s)[k - 1] = s[(k - 1) + 1]
        BY <1>1, <1>3, <4>1
      <4> QED BY <4>1, <4>2
    <3> QED BY <3>1, <3>2
  <2> QED BY <1>3, <2>1, SameString
<1> QED BY <1>1, <1>2, <1>4

LEMMA Part ==
  ASSUME NEW s \in Strings, NEW i \in Nat \ {0}, NEW j \in Nat, j <= Len(s), i <= j + 1
  PROVE  /\ SubSeq(s, i, j) \in Strings /\ Len(SubSeq(s, i, j)) = j - i + 1
         /\ \A k \in 1..j - i + 1 : SubSeq(s, i, j)[k] = s[i + k - 1]
<1>1. Len(s) \in Nat /\ \A k \in 1..Len(s) : s[k] \in 0..255
  BY StringLen
<1>2. \A k \in i..j : s[k] \in 0..255
  BY <1>1
<1>3. /\ SubSeq(s, i, j) \in Seq(0..255) /\ Len(SubSeq(s, i, j)) = IF i <= j THEN j - i + 1 ELSE 0
      /\ \A k \in 1..j - i + 1 : SubSeq(s, i, j)[k] = s[i + k - 1]
  <2>1. i \in Int /\ j \in Int
    OBVIOUS
  <2> QED BY <1>2, <2>1, SubSeqProperties
<1> QED BY <1>3 DEF Strings

LEMMA Cuts ==
  ASSUME NEW s \in Strings, NEW t \in Strings
  PROVE  SubSeq(s \o t, 1, Len(s)) = s /\ SubSeq(s \o t, Len(s) + 1, Len(s \o t)) = t
<1> DEFINE d == s \o t
           a == SubSeq(d, 1, Len(s))
           b == SubSeq(d, Len(s) + 1, Len(d))
<1>1. /\ Len(s) \in Nat /\ Len(t) \in Nat /\ d \in Strings /\ Len(d) = Len(s) + Len(t)
      /\ \A k \in 1..Len(s) : d[k] = s[k]
      /\ \A k \in 1..Len(t) : d[Len(s) + k] = t[k]
  BY StringLen, Joined
<1> HIDE DEF d
<1>2. /\ a \in Strings /\ Len(a) = Len(s) - 1 + 1 /\ \A k \in 1..Len(s) - 1 + 1 : a[k] = d[1 + k - 1]
  BY <1>1, Part
<1>3. /\ b \in Strings /\ Len(b) = Len(d) - (Len(s) + 1) + 1
      /\ \A k \in 1..Len(d) - (Len(s) + 1) + 1 : b[k] = d[Len(s) + 1 + k - 1]
  BY <1>1, Part
<1> HIDE DEF a, b
<1>4. a = s
  <2>1. Len(a) = Len(s)
    BY <1>1, <1>2
  <2>2. ASSUME NEW k \in 1..Len(a) PROVE a[k] = s[k]
    <3>1. k \in 1..Len(s) - 1 + 1 /\ k \in 1..Len(s) /\ 1 + k - 1 = k
      BY <1>1, <2>1
    <3> QED BY <1>1, <1>2, <3>1
  <2> QED BY <1>2, <2>1, <2>2, SameString
<1>5. b = t
  <2>1. Len(b) = Len(t)
    BY <1>1, <1>3
  <2>2. ASSUME NEW k \in 1..Len(b) PROVE b[k] = t[k]
    <3>1. /\ k \in 1..Len(d) - (Len(s) + 1) + 1 /\ k \in 1..Len(t)
          /\ Len(s) + 1 + k - 1 = Len(s) + k
      BY <1>1, <2>1
    <3> QED BY <1>1, <1>3, <3>1
  <2> QED BY <1>3, <2>1, <2>2, SameString
<1> QED BY <1>4, <1>5 DEF a, b, d

(* p is w, cut short.                                                      *)
Cut(p, w) == p \in Strings /\ \E r \in Strings : r # <<>> /\ p \o r = w

LEMMA CutFacts ==
  ASSUME NEW w \in Strings, NEW p, Cut(p, w)
  PROVE  /\ p \in Strings /\ Len(p) \in Nat /\ Len(w) \in Nat /\ Len(p) < Len(w)
         /\ \A k \in 1..Len(p) : p[k] = w[k]
<1>1. PICK r \in Strings : r # <<>> /\ p \o r = w
  BY DEF Cut
<1>2. p \in Strings /\ Len(r) > 0 /\ Len(r) \in Nat /\ Len(p) \in Nat
  BY <1>1, StringLen DEF Cut
<1> QED BY <1>1, <1>2, Joined

LEMMA CutShorter ==
  ASSUME NEW w \in Strings, NEW n \in 0..Len(w)
  PROVE  /\ SubSeq(w, 1, n) \in Strings
         /\ n < Len(w) => Cut(SubSeq(w, 1, n), w)
         /\ \E r \in Strings : SubSeq(w, 1, n) \o r = w
<1> DEFINE p == SubSeq(w, 1, n)
           r == SubSeq(w, n + 1, Len(w))
<1>1. Len(w) \in Nat /\ n \in Nat
  BY StringLen
<1>2. p \in Strings /\ Len(p) = n - 1 + 1
  BY <1>1, Part
<1>3. r \in Strings /\ Len(r) = Len(w) - (n + 1) + 1
  BY <1>1, Part
<1>4. p \o r = w
  <2>1. 1 \in 1..Len(w) + 1 /\ n \in 1 - 1..Len(w) /\ Len(w) \in n..Len(w)
    BY <1>1
  <2>2. p \o r = SubSeq(w, 1, Len(w))
    BY <2>1, ConcatAdjacentSubSeq DEF Strings
  <2> QED BY <2>2, SubSeqFull DEF Strings
<1> HIDE DEF p, r
<1>5. n < Len(w) => r # <<>>
  BY <1>1, <1>3, StringLen
<1> QED BY <1>2, <1>3, <1>4, <1>5 DEF Cut, p

(* What is cut from u \o w is cut from u, or has u and is cut from w.      *)
LEMMA CutOfTwo ==
  ASSUME NEW u \in Strings, NEW w \in Strings, NEW p, Cut(p, u \o w)
  PROVE  Cut(p, u) \/ \E q : Cut(q, w) /\ p = u \o q
<1>1. PICK r \in Strings : r # <<>> /\ p \o r = u \o w
  BY DEF Cut
<1>2. /\ p \in Strings /\ Len(p) \in Nat /\ Len(u) \in Nat /\ Len(r) \in Nat /\ Len(w) \in Nat
      /\ Len(r) > 0 /\ Len(p) + Len(r) = Len(u) + Len(w)
  <2>1. p \in Strings
    BY DEF Cut
  <2>2. Len(p \o r) = Len(p) + Len(r) /\ Len(u \o w) = Len(u) + Len(w)
    BY <2>1, Joined
  <2> QED BY <1>1, <2>1, <2>2, StringLen
<1> DEFINE d == u \o w
<1>3. d \in Strings /\ d = p \o r /\ Len(d) = Len(u) + Len(w)
  BY <1>1, Joined
<1>4. /\ SubSeq(d, 1, Len(u)) = u /\ SubSeq(d, Len(u) + 1, Len(d)) = w
      /\ SubSeq(d, 1, Len(p)) = p /\ SubSeq(d, Len(p) + 1, Len(d)) = r
  BY <1>1, <1>2, Cuts
<1> HIDE DEF d
<1>5. CASE Len(p) < Len(u)
  <2> DEFINE m == SubSeq(d, Len(p) + 1, Len(u))
  <2>0. /\ Len(p) + 1 \in Nat \ {0} /\ Len(u) \in Nat /\ Len(u) <= Len(d)
        /\ Len(p) + 1 <= Len(u) + 1
    BY <1>2, <1>3, <1>5
  <2>1. m \in Strings /\ Len(m) = Len(u) - (Len(p) + 1) + 1
    BY <1>3, <2>0, Part
  <2>2. p \o m = u
    <3>1. 1 \in 1..Len(d) + 1 /\ Len(p) \in 1 - 1..Len(d) /\ Len(u) \in Len(p)..Len(d)
      BY <1>2, <1>3, <1>5
    <3> QED BY <1>3, <1>4, <3>1, ConcatAdjacentSubSeq DEF Strings
  <2> HIDE DEF m
  <2>3. m # <<>>
    BY <1>2, <1>5, <2>1, StringLen
  <2> QED BY <1>2, <2>1, <2>2, <2>3 DEF Cut
<1>6. CASE ~(Len(p) < Len(u))
  <2> DEFINE q == SubSeq(d, Len(u) + 1, Len(p))
  <2>0. /\ Len(u) + 1 \in Nat \ {0} /\ Len(p) \in Nat /\ Len(p) <= Len(d)
        /\ Len(u) + 1 <= Len(p) + 1
    BY <1>2, <1>3, <1>6
  <2>1. q \in Strings
    BY <1>3, <2>0, Part
  <2>2. u \o q = p
    <3>1. 1 \in 1..Len(d) + 1 /\ Len(u) \in 1 - 1..Len(d) /\ Len(p) \in Len(u)..Len(d)
      BY <1>2, <1>3, <1>6
    <3> QED BY <1>3, <1>4, <3>1, ConcatAdjacentSubSeq DEF Strings
  <2>3. q \o r = w
    <3>1. Len(u) + 1 \in 1..Len(d) + 1 /\ Len(p) \in (Len(u) + 1) - 1..Len(d)
          /\ Len(d) \in Len(p)..Len(d)
      BY <1>2, <1>3, <1>6
    <3> QED BY <1>3, <1>4, <3>1, ConcatAdjacentSubSeq DEF Strings
  <2> HIDE DEF q
  <2> QED BY <1>1, <2>1, <2>2, <2>3 DEF Cut
<1> QED BY <1>5, <1>6

(* What is not cut short has all of it, and something after it.            *)
LEMMA CutOrWhole ==
  ASSUME NEW w \in Strings, NEW t \in Strings, NEW n \in 0..Len(w \o t)
  PROVE  LET p == SubSeq(w \o t, 1, n) IN
         /\ p \in Strings
         /\ Len(p) < Len(w) => Cut(p, w)
         /\ Len(p) >= Len(w) => \E q \in Strings : p = w \o q
<1> DEFINE d == w \o t
           p == SubSeq(d, 1, n)
<1>1. d \in Strings /\ Len(d) = Len(w) + Len(t) /\ Len(w) \in Nat /\ Len(t) \in Nat
  BY Joined, StringLen
<1>2. p \in Strings /\ Len(p) = n
  <2> HIDE DEF d
  <2>1. n \in Nat /\ n <= Len(d) /\ 1 <= n + 1
    BY <1>1
  <2> QED BY <1>1, <2>1, Part
<1>3. n = Len(d) \/ Cut(p, d)
  <2>1. n \in 0..Len(d)
    OBVIOUS
  <2> HIDE DEF d
  <2>2. n < Len(d) => Cut(SubSeq(d, 1, n), d)
    BY <1>1, <2>1, CutShorter
  <2>3. Len(d) \in Nat
    BY <1>1
  <2> QED BY <2>1, <2>2, <2>3
<1>4. CASE n = Len(d)
  <2>1. p = d
    <3> HIDE DEF d
    <3> QED BY <1>1, <1>4, SubSeqFull DEF Strings
  <2> QED BY <1>1, <1>2, <1>4, <2>1
<1>5. CASE Cut(p, d)
  <2>0. SUFFICES /\ p \in Strings
                 /\ Len(p) < Len(w) => Cut(p, w)
                 /\ Len(p) >= Len(w) => \E q \in Strings : p = w \o q
    OBVIOUS
  <2> HIDE DEF p
  <2>1. Cut(p, w) \/ \E q : Cut(q, t) /\ p = w \o q
    BY <1>5, CutOfTwo
  <2>2. CASE Cut(p, w)
    <3>1. Len(p) < Len(w) /\ Len(p) \in Nat
      BY <2>2, CutFacts
    <3> QED BY <1>1, <1>2, <2>2, <3>1
  <2>3. CASE \E q : Cut(q, t) /\ p = w \o q
    <3>1. PICK q : Cut(q, t) /\ p = w \o q
      BY <2>3
    <3>2. q \in Strings /\ Len(q) \in Nat
      BY <3>1, CutFacts
    <3>3. Len(p) = Len(w) + Len(q)
      BY <3>1, <3>2, Joined
    <3> QED BY <1>1, <1>2, <3>1, <3>2, <3>3
  <2> QED BY <2>1, <2>2, <2>3
<1> QED BY <1>3, <1>4, <1>5

-----------------------------------------------------------------------------
(* Bytes that are looked for.                                              *)

LEMMA IndexIs ==
  ASSUME NEW data \in Strings, NEW b, NEW k \in 1..Len(data), data[k] = b,
         \A j \in 1..Len(data) : j < k => data[j] # b
  PROVE  IndexByte(data, b) = k
<1> DEFINE found == {i \in 1..Len(data) : data[i] = b}
<1>1. k \in found /\ Len(data) \in Nat
  BY StringLen
<1>2. \A i \in found : k <= i
  BY <1>1
<1>3. \A i \in found : i \in Int
  BY <1>1
<1>4. IndexByte(data, b) = IF found # {} THEN Min(found) ELSE 0
  BY DEF IndexByte, SelectInSeq
<1> HIDE DEF found
<1>5. Min(found) \in found /\ \A i \in found : Min(found) <= i
  BY <1>1, <1>2 DEF Min
<1>6. PICK m : m = Min(found)
  OBVIOUS
<1>7. m \in Int /\ k <= m /\ m <= k
  BY <1>1, <1>2, <1>3, <1>5, <1>6
<1> QED BY <1>1, <1>4, <1>6, <1>7

LEMMA IndexNone ==
  ASSUME NEW data \in Strings, NEW b, \A j \in 1..Len(data) : data[j] # b
  PROVE  IndexByte(data, b) = 0
BY DEF IndexByte, SelectInSeq

LEMMA IndexIn ==
  ASSUME NEW data \in Strings, NEW b
  PROVE  /\ IndexByte(data, b) \in 0..Len(data)
         /\ IndexByte(data, b) # 0 => data[IndexByte(data, b)] = b
<1>1. CASE \A j \in 1..Len(data) : data[j] # b
  BY <1>1, IndexNone, StringLen
<1>2. CASE ~ \A j \in 1..Len(data) : data[j] # b
  <2> DEFINE P == {n \in Nat : n \in 1..Len(data) /\ data[n] = b =>
                                 \E k \in 1..Len(data) : /\ data[k] = b
                                                         /\ \A j \in 1..Len(data) : j < k => data[j] # b}
  <2>0. Len(data) \in Nat
    BY StringLen
  <2>1. \A n \in Nat : (\A m \in Nat : m < n => m \in P) => n \in P
    <3> SUFFICES ASSUME NEW n \in Nat, \A m \in Nat : m < n => m \in P,
                        n \in 1..Len(data), data[n] = b
                 PROVE  \E k \in 1..Len(data) : /\ data[k] = b
                                                /\ \A j \in 1..Len(data) : j < k => data[j] # b
      OBVIOUS
    <3>1. CASE \A j \in 1..Len(data) : j < n => data[j] # b
      BY <3>1
    <3>2. CASE \E j \in 1..Len(data) : j < n /\ data[j] = b
      BY <2>0, <3>2
    <3> QED BY <3>1, <3>2
  <2> HIDE DEF P
  <2>2. \A n \in Nat : n \in P
    BY <2>1, Induction
  <2>3. PICK k \in 1..Len(data) : data[k] = b /\ \A j \in 1..Len(data) : j < k => data[j] # b
    BY <1>2, <2>0, <2>2 DEF P
  <2>4. IndexByte(data, b) = k
    BY <2>3, IndexIs
  <2> QED BY <2>0, <2>3, <2>4
<1> QED BY <1>1, <1>2

-----------------------------------------------------------------------------
(* Numbers.                                                                *)

LEMMA FrontLast ==
  ASSUME NEW s \in Strings, s # <<>>
  PROVE  /\ Front(s) \in Strings /\ Len(Front(s)) = Len(s) - 1 /\ Last(s) \in 0..255
         /\ \A k \in 1..Len(s) - 1 : Front(s)[k] = s[k]
<1>1. Len(s) \in Nat /\ Len(s) > 0 /\ \A k \in 1..Len(s) : s[k] \in 0..255
  BY StringLen
<1>2. /\ Front(s) \in Strings /\ Len(Front(s)) = (Len(s) - 1) - 1 + 1
      /\ \A k \in 1..(Len(s) - 1) - 1 + 1 : Front(s)[k] = s[1 + k - 1]
  <2>1. 1 \in Nat \ {0} /\ Len(s) - 1 \in Nat /\ Len(s) - 1 <= Len(s) /\ 1 <= Len(s) - 1 + 1
    BY <1>1
  <2> QED BY <2>1, Part DEF Front
<1> QED BY <1>1, <1>2 DEF Last

LEMMA FrontOfAppend ==
  ASSUME NEW s \in Strings, NEW b \in 0..255
  PROVE  /\ Append(s, b) \in Strings /\ Append(s, b) # <<>>
         /\ Front(Append(s, b)) = s /\ Last(Append(s, b)) = b
         /\ Len(Append(s, b)) = Len(s) + 1 /\ Append(s, b)[Len(s) + 1] = b
         /\ \A k \in 1..Len(s) : Append(s, b)[k] = s[k]
<1> DEFINE a == Append(s, b)
<1>1. /\ a \in Strings /\ a # <<>> /\ Len(a) = Len(s) + 1 /\ a[Len(s) + 1] = b
      /\ \A k \in 1..Len(s) : a[k] = s[k]
  BY AppendProperties DEF Strings
<1> HIDE DEF a
<1>2. Len(s) \in Nat
  BY StringLen
<1>3. Last(a) = b
  BY <1>1 DEF Last
<1>4. /\ Front(a) \in Strings /\ Len(Front(a)) = Len(s) /\ \A k \in 1..Len(s) : Front(a)[k] = a[k]
  <2>1. /\ Front(a) \in Strings /\ Len(Front(a)) = Len(a) - 1
        /\ \A k \in 1..Len(a) - 1 : Front(a)[k] = a[k]
    BY <1>1, FrontLast
  <2>2. Len(a) - 1 = Len(s)
    BY <1>1, <1>2
  <2> QED BY <2>1, <2>2
<1>5. Front(a) = s
  BY <1>1, <1>4, SameString
<1> QED BY <1>1, <1>3, <1>5 DEF a

LEMMA NumberDef ==
  /\ Number \in [Strings -> Int]
  /\ Number = [s \in Strings |->
                 IF s = <<>> THEN 0
                 ELSE 10 * Number[Front(s)] + (Last(s) - Digit(0))]
<1> DEFINE S == Strings
           body == [g \in [S -> Int] |->
                      [s \in S |-> IF s = <<>> THEN 0
                                   ELSE 10 * g[Front(s)] + (Last(s) - Digit(0))]]
           rank == [s \in S |-> Len(s)]
<1>1. body \in [[S -> Int] -> [S -> Int]]
  <2>1. ASSUME NEW g \in [S -> Int], NEW s \in S, s # <<>>
        PROVE  10 * g[Front(s)] + (Last(s) - Digit(0)) \in Int
    <3>1. Front(s) \in Strings /\ Last(s) \in 0..255
      BY <2>1, FrontLast
    <3>2. g[Front(s)] \in Int
      BY <3>1
    <3> QED BY <3>1, <3>2 DEF Digit
  <2> QED BY <2>1
<1>2. rank \in [S -> Nat]
  BY StringLen
<1>3. Looking(S, Int, rank, body)
  <2> SUFFICES ASSUME NEW g \in [S -> Int], NEW h \in [S -> Int], NEW s \in S,
                      \A t \in S : rank[t] < rank[s] => g[t] = h[t]
               PROVE  body[g][s] = body[h][s]
    BY DEF Looking
  <2>1. ASSUME s # <<>> PROVE g[Front(s)] = h[Front(s)]
    <3>1. Front(s) \in S /\ Len(Front(s)) = Len(s) - 1 /\ Len(s) \in Nat
      BY <2>1, FrontLast, StringLen
    <3>2. rank[Front(s)] < rank[s]
      BY <3>1
    <3> QED BY <3>1, <3>2
  <2> QED BY <2>1
<1>4. PICK f \in [S -> Int] : f = body[f]
  <2>1. 0 \in Int
    OBVIOUS
  <2> HIDE DEF body, rank, S
  <2>2. PICK f \in [S -> Int] : Fixed(f, body)
    BY <1>1, <1>2, <1>3, <2>1, FixedPoint
  <2> QED BY <2>2 DEF Fixed
<1>5. f = [s \in S |-> IF s = <<>> THEN 0 ELSE 10 * f[Front(s)] + (Last(s) - Digit(0))]
  BY <1>4
<1>6. Number = [s \in Strings |->
                  IF s = <<>> THEN 0
                  ELSE 10 * Number[Front(s)] + (Last(s) - Digit(0))]
  <2> HIDE DEF body
  <2> QED BY <1>5 DEF Number
<1>7. \A s \in Strings : Number[s] \in Int
  <2> DEFINE P == {n \in Nat : \A s \in Strings : Len(s) = n => Number[s] \in Int}
  <2>1. ASSUME NEW n \in Nat, \A m \in Nat : m < n => m \in P PROVE n \in P
    <3> SUFFICES ASSUME NEW s \in Strings, Len(s) = n PROVE Number[s] \in Int
      OBVIOUS
    <3>1. CASE s = <<>>
      BY <1>6, <3>1
    <3>2. CASE s # <<>>
      <4>0. Front(s) \in Strings /\ Len(Front(s)) = n - 1 /\ n > 0 /\ Last(s) \in 0..255
        BY <3>2, FrontLast, StringLen
      <4>1. n - 1 \in Nat /\ n - 1 < n
        BY <4>0
      <4>4. \A b \in 0..255 : b \in Int
        OBVIOUS
      <4>2. Number[Front(s)] \in Int
        BY <2>1, <4>0, <4>1
      <4>3. Number[s] = 10 * Number[Front(s)] + (Last(s) - Digit(0))
        BY <1>6, <3>2
      <4>5. Last(s) \in Int
        BY <4>0, <4>4
      <4> QED BY <4>2, <4>3, <4>5 DEF Digit
    <3> QED BY <3>1, <3>2
  <2> HIDE DEF P
  <2>2. \A n \in Nat : n \in P
    BY <2>1, Induction
  <2> QED BY <2>2, StringLen DEF P
<1>8. Number \in [Strings -> Int]
  BY <1>6, <1>7
<1> QED BY <1>6, <1>8

LEMMA NumberOf ==
  /\ Number[<<>>] = 0
  /\ \A s \in Strings, b \in 0..255 :
       Number[Append(s, b)] = 10 * Number[s] + (b - Digit(0))
<1>1. <<>> \in Strings
  BY OneByte
<1>2. ASSUME NEW s \in Strings, NEW b \in 0..255
      PROVE  Number[Append(s, b)] = 10 * Number[s] + (b - Digit(0))
  <2>1. /\ Append(s, b) \in Strings /\ Append(s, b) # <<>>
        /\ Front(Append(s, b)) = s /\ Last(Append(s, b)) = b
    BY FrontOfAppend
  <2> DEFINE a == Append(s, b)
  <2> HIDE DEF a
  <2>2. a \in Strings /\ a # <<>> /\ Front(a) = s /\ Last(a) = b
    BY <2>1 DEF a
  <2>3. Number[a] = 10 * Number[Front(a)] + (Last(a) - Digit(0))
    BY <2>2, NumberDef
  <2> QED BY <2>2, <2>3 DEF a
<1> QED BY <1>1, <1>2, NumberDef

(* The size of a string is no negative number.                             *)
LEMMA NumberOfDigits ==
  ASSUME NEW s \in Strings, \A k \in 1..Len(s) : s[k] \in Digits
  PROVE  Number[s] \in Nat
<1> DEFINE P == {n \in Nat : \A t \in Strings : Len(t) = n /\ (\A k \in 1..Len(t) : t[k] \in Digits)
                                                  => Number[t] \in Nat}
<1>1. ASSUME NEW n \in Nat, \A m \in Nat : m < n => m \in P PROVE n \in P
  <2> SUFFICES ASSUME NEW t \in Strings, Len(t) = n, \A k \in 1..Len(t) : t[k] \in Digits
               PROVE  Number[t] \in Nat
    OBVIOUS
  <2>1. CASE t = <<>>
    BY <2>1, NumberOf
  <2>2. CASE t # <<>>
    <3>1. /\ Front(t) \in Strings /\ Len(Front(t)) = n - 1 /\ n > 0
          /\ \A k \in 1..n - 1 : Front(t)[k] = t[k]
      BY <2>2, FrontLast, StringLen
    <3>2. Number[Front(t)] \in Nat
      <4>1. \A k \in 1..Len(Front(t)) : Front(t)[k] \in Digits
        BY <3>1
      <4>2. n - 1 \in Nat /\ n - 1 < n
        BY <3>1
      <4> QED BY <1>1, <3>1, <4>1, <4>2
    <3>3. Last(t) \in Digits
      BY <3>1 DEF Last
    <3>4. Number[t] = 10 * Number[Front(t)] + (Last(t) - Digit(0))
      BY <2>2, NumberDef
    <3> QED BY <3>2, <3>3, <3>4 DEF Digits, Digit
  <2> QED BY <2>1, <2>2
<1> HIDE DEF P
<1>2. \A n \in Nat : n \in P
  BY <1>1, Induction
<1> QED BY <1>2, StringLen DEF P

LEMMA Tenths ==
  ASSUME NEW n \in Nat
  PROVE  /\ n \div 10 \in Nat /\ n % 10 \in 0..9 /\ n = 10 * (n \div 10) + (n % 10)
         /\ n >= 10 => n \div 10 < n /\ n \div 10 > 0
OBVIOUS

LEMMA DecimalDef ==
  /\ Decimal \in [Nat -> Strings]
  /\ Decimal = [n \in Nat |-> IF n < 10 THEN <<Digit(n)>>
                              ELSE Append(Decimal[n \div 10], Digit(n % 10))]
<1> DEFINE body == [g \in [Nat -> Strings] |->
                      [n \in Nat |-> IF n < 10 THEN <<Digit(n)>>
                                     ELSE Append(g[n \div 10], Digit(n % 10))]]
           rank == [n \in Nat |-> n]
<1>1. body \in [[Nat -> Strings] -> [Nat -> Strings]]
  <2>1. ASSUME NEW g \in [Nat -> Strings], NEW n \in Nat
        PROVE  (IF n < 10 THEN <<Digit(n)>> ELSE Append(g[n \div 10], Digit(n % 10))) \in Strings
    <3>1. CASE n < 10
      <4>1. Digit(n) \in 0..255
        BY <3>1 DEF Digit
      <4> QED BY <3>1, <4>1, OneByte
    <3>2. CASE ~(n < 10)
      <4>1. Digit(n % 10) \in 0..255 /\ n \div 10 \in Nat
        BY Tenths DEF Digit
      <4>2. g[n \div 10] \in Strings
        BY <4>1
      <4> QED BY <3>2, <4>1, <4>2, FrontOfAppend
    <3> QED BY <3>1, <3>2
  <2> QED BY <2>1
<1>2. rank \in [Nat -> Nat]
  OBVIOUS
<1>3. Looking(Nat, Strings, rank, body)
  <2> SUFFICES ASSUME NEW g \in [Nat -> Strings], NEW h \in [Nat -> Strings], NEW n \in Nat,
                      \A m \in Nat : rank[m] < rank[n] => g[m] = h[m]
               PROVE  body[g][n] = body[h][n]
    BY DEF Looking
  <2>1. ASSUME ~(n < 10) PROVE g[n \div 10] = h[n \div 10]
    BY <2>1, Tenths
  <2> QED BY <2>1
<1>4. PICK f \in [Nat -> Strings] : f = body[f]
  <2>1. Strings # {}
    BY OneByte
  <2> HIDE DEF body, rank
  <2>2. PICK f \in [Nat -> Strings] : Fixed(f, body)
    BY <1>1, <1>2, <1>3, <2>1, FixedPoint
  <2> QED BY <2>2 DEF Fixed
<1>5. f = [n \in Nat |-> IF n < 10 THEN <<Digit(n)>> ELSE Append(f[n \div 10], Digit(n % 10))]
  BY <1>4
<1>6. Decimal = [n \in Nat |-> IF n < 10 THEN <<Digit(n)>>
                               ELSE Append(Decimal[n \div 10], Digit(n % 10))]
  <2> HIDE DEF body
  <2> QED BY <1>5 DEF Decimal
<1>7. \A n \in Nat : Decimal[n] \in Strings
  <2> DEFINE P == {n \in Nat : Decimal[n] \in Strings}
  <2>1. ASSUME NEW n \in Nat, \A m \in Nat : m < n => m \in P PROVE n \in P
    <3>1. CASE n < 10
      <4>1. Digit(n) \in 0..255
        BY <3>1 DEF Digit
      <4>2. Decimal[n] = <<Digit(n)>>
        BY <1>6, <3>1
      <4> QED BY <4>1, <4>2, OneByte
    <3>2. CASE ~(n < 10)
      <4>1. Digit(n % 10) \in 0..255 /\ n \div 10 \in Nat /\ n \div 10 < n
        BY <3>2, Tenths DEF Digit
      <4>2. Decimal[n \div 10] \in Strings
        BY <2>1, <4>1
      <4>3. Decimal[n] = Append(Decimal[n \div 10], Digit(n % 10))
        BY <1>6, <3>2
      <4> QED BY <4>1, <4>2, <4>3, FrontOfAppend
    <3> QED BY <3>1, <3>2
  <2> HIDE DEF P
  <2>2. \A n \in Nat : n \in P
    BY <2>1, Induction
  <2> QED BY <2>2 DEF P
<1>8. Decimal \in [Nat -> Strings]
  BY <1>6, <1>7
<1> QED BY <1>6, <1>8

(* What is printed is digits, reads as the number again, and has no zero   *)
(* in front.                                                               *)
LEMMA DecimalFacts ==
  ASSUME NEW n \in Nat
  PROVE  /\ Decimal[n] \in Strings /\ Len(Decimal[n]) \in Nat /\ Len(Decimal[n]) > 0
         /\ \A k \in 1..Len(Decimal[n]) : Decimal[n][k] \in Digits
         /\ Number[Decimal[n]] = n
         /\ Decimal[n][1] = Digit(0) => n = 0 /\ Len(Decimal[n]) = 1
<1> DEFINE Good(m) == /\ Decimal[m] \in Strings /\ Len(Decimal[m]) \in Nat /\ Len(Decimal[m]) > 0
                      /\ \A k \in 1..Len(Decimal[m]) : Decimal[m][k] \in Digits
                      /\ Number[Decimal[m]] = m
                      /\ Decimal[m][1] = Digit(0) => m = 0 /\ Len(Decimal[m]) = 1
           P == {m \in Nat : Good(m)}
<1>1. ASSUME NEW m \in Nat, \A l \in Nat : l < m => l \in P PROVE m \in P
  <2>1. CASE m < 10
    <3>1. Digit(m) \in 0..255 /\ Digit(m) \in Digits /\ (Digit(m) = Digit(0) => m = 0)
          /\ m = 10 * 0 + (Digit(m) - Digit(0))
      BY <2>1 DEF Digit, Digits
    <3>2. Decimal[m] = <<Digit(m)>>
      BY <2>1, DecimalDef
    <3>3. <<>> \in Strings /\ Append(<<>>, Digit(m)) = <<Digit(m)>>
      BY OneByte
    <3>4. Number[<<Digit(m)>>] = 10 * 0 + (Digit(m) - Digit(0))
      BY <3>1, <3>3, NumberOf
    <3>5. <<Digit(m)>> \in Strings /\ Len(<<Digit(m)>>) = 1 /\ <<Digit(m)>>[1] = Digit(m)
      BY <3>1, OneByte
    <3>6. Good(m)
      BY <3>1, <3>2, <3>4, <3>5
    <3> QED BY <3>6
  <2>2. CASE ~(m < 10)
    <3> DEFINE l == m \div 10
               d == Digit(m % 10)
    <3>1. l \in Nat /\ l < m /\ l > 0 /\ d \in 0..255 /\ d \in Digits /\ m = 10 * l + (d - Digit(0))
      BY <2>2, Tenths DEF Digit, Digits
    <3>2. Decimal[m] = Append(Decimal[l], d)
      BY <2>2, DecimalDef
    <3> HIDE DEF l, d
    <3>3. Good(l)
      BY <1>1, <3>1
    <3>4. /\ Append(Decimal[l], d) \in Strings
          /\ Len(Append(Decimal[l], d)) = Len(Decimal[l]) + 1
          /\ Append(Decimal[l], d)[Len(Decimal[l]) + 1] = d
          /\ \A k \in 1..Len(Decimal[l]) : Append(Decimal[l], d)[k] = Decimal[l][k]
      BY <3>1, <3>3, FrontOfAppend
    <3>5. Number[Append(Decimal[l], d)] = 10 * Number[Decimal[l]] + (d - Digit(0))
      BY <3>1, <3>3, NumberOf
    <3>6. ASSUME NEW k \in 1..Len(Decimal[m]) PROVE Decimal[m][k] \in Digits
      <4>1. k \in 1..Len(Decimal[l]) \/ k = Len(Decimal[l]) + 1
        BY <3>2, <3>3, <3>4
      <4> QED BY <3>1, <3>2, <3>3, <3>4, <4>1
    <3>7. Decimal[m][1] = Decimal[l][1]
      <4>1. 1 \in 1..Len(Decimal[l])
        BY <3>3
      <4> QED BY <3>2, <3>4, <4>1
    <3>8. Decimal[m] \in Strings /\ Len(Decimal[m]) \in Nat /\ Len(Decimal[m]) > 0
      BY <3>2, <3>3, <3>4
    <3>9. Number[Decimal[m]] = m
      BY <3>1, <3>2, <3>3, <3>5
    <3>10. Decimal[m][1] # Digit(0)
      BY <3>1, <3>3, <3>7
    <3> QED BY <3>6, <3>8, <3>9, <3>10
  <2> QED BY <2>1, <2>2
<1> HIDE DEF P
<1>2. \A m \in Nat : m \in P
  BY <1>1, Induction
<1> QED BY <1>2 DEF P

-----------------------------------------------------------------------------
(* Strings and integers, written and read.                                 *)

LEMMA Outcomes ==
  /\ Fail.ok = FALSE
  /\ \A v, r : /\ Parsed(v, r).ok = TRUE /\ Parsed(v, r).value = v /\ Parsed(v, r).rest = r
               /\ Parsed(v, r) # Fail
BY DEF Fail, Parsed

(* What is parsed is shorter than before, or it failed.                    *)
Shrinks(parsed, data) ==
  \/ parsed = Fail
  \/ \E v : \E r \in Strings : parsed = Parsed(v, r) /\ Len(r) < Len(data)

LEMMA ShrinksOk ==
  ASSUME NEW parsed, NEW data, Shrinks(parsed, data)
  PROVE  /\ parsed = Fail <=> ~parsed.ok
         /\ parsed.ok \in BOOLEAN
         /\ parsed.ok => /\ parsed.rest \in Strings /\ Len(parsed.rest) < Len(data)
                         /\ parsed = Parsed(parsed.value, parsed.rest)
<1>1. CASE parsed = Fail
  BY <1>1, Outcomes
<1>2. CASE \E v : \E r \in Strings : parsed = Parsed(v, r) /\ Len(r) < Len(data)
  <2>1. PICK v, r : r \in Strings /\ parsed = Parsed(v, r) /\ Len(r) < Len(data)
    BY <1>2
  <2>2. parsed.ok = TRUE /\ parsed.value = v /\ parsed.rest = r /\ parsed # Fail
    BY <2>1, Outcomes
  <2> QED BY <2>1, <2>2
<1> QED BY <1>1, <1>2 DEF Shrinks

LEMMA StringShrinks ==
  ASSUME NEW data \in Strings
  PROVE  /\ Shrinks(ParseString(data), data)
         /\ ParseString(data).ok => ParseString(data).value \in Strings
<1> DEFINE colon == IndexByte(data, Colon)
           size == SubSeq(data, 1, colon - 1)
           end == colon + Number[size]
<1>1. CASE colon # 0 /\ AllDigits(size) /\ end <= Len(data)
  <2>1. colon \in 1..Len(data) /\ Len(data) \in Nat
    BY <1>1, IndexIn, StringLen
  <2>2. size \in Strings
    <3> HIDE DEF colon
    <3>1. 1 \in Nat \ {0} /\ colon - 1 \in Nat /\ colon - 1 <= Len(data) /\ 1 <= colon - 1 + 1
      BY <2>1
    <3> QED BY <3>1, Part
  <2>3. Number[size] \in Nat
    <3> HIDE DEF size
    <3>1. \A k \in 1..Len(size) : size[k] \in Digits
      BY <1>1, <2>2, StringLen DEF AllDigits
    <3> QED BY <2>2, <3>1, NumberOfDigits
  <2> HIDE DEF colon, size
  <2>4. end \in 1..Len(data) /\ colon <= end
    BY <1>1, <2>1, <2>3
  <2>5. ParseString(data) = Parsed(SubSeq(data, colon + 1, end), Behind(data, end))
    BY <1>1 DEF ParseString, colon, size
  <2> HIDE DEF end
  <2>6. SubSeq(data, colon + 1, end) \in Strings
    <3>1. /\ colon + 1 \in Nat \ {0} /\ end \in Nat /\ end <= Len(data) /\ colon + 1 <= end + 1
      BY <2>1, <2>4
    <3> QED BY <3>1, Part
  <2>7. Behind(data, end) \in Strings /\ Len(Behind(data, end)) < Len(data)
    <3>1. /\ end + 1 \in Nat \ {0} /\ Len(data) \in Nat /\ Len(data) <= Len(data)
          /\ end + 1 <= Len(data) + 1
      BY <2>1, <2>4
    <3>2. /\ SubSeq(data, end + 1, Len(data)) \in Strings
          /\ Len(SubSeq(data, end + 1, Len(data))) = Len(data) - (end + 1) + 1
      BY <3>1, Part
    <3> QED BY <2>1, <2>4, <3>2 DEF Behind
  <2> QED BY <2>5, <2>6, <2>7, Outcomes DEF Shrinks
<1>2. CASE ~(colon # 0 /\ AllDigits(size) /\ end <= Len(data))
  <2>1. ParseString(data) = Fail
    BY <1>2 DEF ParseString
  <2> QED BY <2>1, Outcomes DEF Shrinks
<1> QED BY <1>1, <1>2

LEMMA IntegerShrinks ==
  ASSUME NEW data \in Strings
  PROVE  Shrinks(ParseInteger(data), data)
<1> DEFINE end == IndexByte(data, E)
           num == SubSeq(data, 2, end - 1)
           fine == /\ Len(data) >= 3
                   /\ data[1] = I
                   /\ end # 0
                   /\ ~(Len(num) > 1 /\ num[1] = Digit(0))
                   /\ num # <<Minus, Digit(0)>>
                   /\ AllDigits(Magnitude(num))
<1>1. CASE fine
  <2>1. end \in 1..Len(data) /\ Len(data) \in Nat
    BY <1>1, IndexIn, StringLen
  <2>2. ParseInteger(data) = Parsed(Value(num), Behind(data, end))
    BY <1>1 DEF ParseInteger
  <2> HIDE DEF end, num
  <2>3. Behind(data, end) \in Strings /\ Len(Behind(data, end)) < Len(data)
    <3>1. /\ end + 1 \in Nat \ {0} /\ Len(data) \in Nat /\ Len(data) <= Len(data)
          /\ end + 1 <= Len(data) + 1
      BY <2>1
    <3>2. /\ SubSeq(data, end + 1, Len(data)) \in Strings
          /\ Len(SubSeq(data, end + 1, Len(data))) = Len(data) - (end + 1) + 1
      BY <3>1, Part
    <3> QED BY <2>1, <3>2 DEF Behind
  <2> QED BY <2>2, <2>3 DEF Shrinks
<1>2. CASE ~fine
  <2>1. ParseInteger(data) = Fail
    BY <1>2 DEF ParseInteger
  <2> QED BY <2>1 DEF Shrinks
<1> QED BY <1>1, <1>2

LEMMA EncodedString ==
  ASSUME NEW s \in Strings
  PROVE  LET n == Len(Decimal[Len(s)])
             w == EncodeString(s)
         IN /\ w \in Strings /\ n \in Nat /\ n > 0 /\ Len(w) = n + 1 + Len(s)
            /\ \A k \in 1..n : w[k] = Decimal[Len(s)][k] /\ w[k] \in Digits
            /\ w[n + 1] = Colon /\ Len(s) \in Nat
            /\ \A k \in 1..Len(s) : w[n + 1 + k] = s[k]
<1> DEFINE a == Decimal[Len(s)]
           n == Len(a)
           b == a \o <<Colon>>
           w == b \o s
<1>1. Len(s) \in Nat /\ a \in Strings /\ n \in Nat /\ n > 0 /\ \A k \in 1..n : a[k] \in Digits
  BY StringLen, DecimalFacts
<1>2. w = EncodeString(s)
  BY DEF EncodeString
<1>3. <<Colon>> \in Strings /\ Len(<<Colon>>) = 1 /\ <<Colon>>[1] = Colon
  BY OneByte DEF Colon
<1> HIDE DEF a
<1>4. /\ b \in Strings /\ Len(b) = n + 1 /\ \A k \in 1..n : b[k] = a[k]
      /\ \A k \in 1..1 : b[n + k] = <<Colon>>[k]
  BY <1>1, <1>3, Joined
<1>5. b[n + 1] = Colon
  BY <1>3, <1>4
<1> HIDE DEF b, n
<1>6. /\ w \in Strings /\ Len(w) = n + 1 + Len(s) /\ \A k \in 1..n + 1 : w[k] = b[k]
      /\ \A k \in 1..Len(s) : w[n + 1 + k] = s[k]
  <2>1. /\ w \in Strings /\ Len(w) = Len(b) + Len(s) /\ \A k \in 1..Len(b) : w[k] = b[k]
        /\ \A k \in 1..Len(s) : w[Len(b) + k] = s[k]
    BY <1>4, Joined
  <2> HIDE DEF w
  <2> QED BY <1>4, <2>1
<1> HIDE DEF w
<1>7. n + 1 \in 1..n + 1 /\ \A k \in 1..n : k \in 1..n + 1
  BY <1>1
<1>8. w[n + 1] = Colon /\ \A k \in 1..n : w[k] = a[k] /\ w[k] \in Digits
  BY <1>1, <1>4, <1>5, <1>6, <1>7 DEF n
<1> QED BY <1>1, <1>2, <1>6, <1>8 DEF n, a

LEMMA NoDigits ==
  /\ \A d \in Digits : d # Colon /\ d # E /\ d # I /\ d # D /\ d # L /\ d # Minus /\ d # Plus
                       /\ d \in 0..255
  /\ Colon \in 0..255 /\ E \in 0..255 /\ I \in 0..255 /\ D \in 0..255 /\ L \in 0..255
  /\ Minus \in 0..255 /\ E # I /\ E # D /\ E # L /\ I # D /\ I # L /\ D # L /\ Minus # E /\ Minus # Plus
BY DEF Digits, Digit, Colon, E, I, D, L, Minus, Plus

LEMMA StringParsed ==
  ASSUME NEW s \in Strings, NEW t \in Strings
  PROVE  ParseString(EncodeString(s) \o t) = Parsed(s, t)
<1> DEFINE a == Decimal[Len(s)]
           n == Len(a)
           w == EncodeString(s)
           d == w \o t
<1>1. /\ w \in Strings /\ n \in Nat /\ n > 0 /\ Len(w) = n + 1 + Len(s)
      /\ \A k \in 1..n : w[k] = a[k] /\ w[k] \in Digits
      /\ w[n + 1] = Colon /\ Len(s) \in Nat
      /\ \A k \in 1..Len(s) : w[n + 1 + k] = s[k]
  BY EncodedString
<1>2. a \in Strings /\ Number[a] = Len(s)
  BY <1>1, DecimalFacts
<1> HIDE DEF a, n, w
<1>3. /\ d \in Strings /\ Len(d) = Len(w) + Len(t) /\ Len(t) \in Nat
      /\ \A k \in 1..Len(w) : d[k] = w[k]
  BY <1>1, Joined, StringLen
<1> HIDE DEF d
<1>4. IndexByte(d, Colon) = n + 1
  <2>1. n + 1 \in 1..Len(d) /\ n + 1 \in 1..Len(w)
    BY <1>1, <1>3
  <2>2. d[n + 1] = Colon
    BY <1>1, <1>3, <2>1
  <2>3. ASSUME NEW j \in 1..Len(d), j < n + 1 PROVE d[j] # Colon
    <3>1. j \in 1..Len(w) /\ j \in 1..n
      BY <1>1, <1>3, <2>3
    <3> QED BY <1>1, <1>3, <3>1, NoDigits
  <2> QED BY <1>3, <2>1, <2>2, <2>3, IndexIs
<1>5. SubSeq(d, 1, n) = a
  <2>1. /\ SubSeq(d, 1, n) \in Strings /\ Len(SubSeq(d, 1, n)) = n - 1 + 1
        /\ \A k \in 1..n - 1 + 1 : SubSeq(d, 1, n)[k] = d[1 + k - 1]
    BY <1>1, <1>3, Part
  <2>2. Len(SubSeq(d, 1, n)) = Len(a)
    BY <1>1, <2>1 DEF n
  <2>3. ASSUME NEW k \in 1..Len(SubSeq(d, 1, n)) PROVE SubSeq(d, 1, n)[k] = a[k]
    <3>1. k \in 1..n /\ k \in 1..n - 1 + 1 /\ 1 + k - 1 = k /\ k \in 1..Len(w)
      BY <1>1, <2>1
    <3> QED BY <1>1, <1>3, <2>1, <3>1
  <2> QED BY <1>2, <2>1, <2>2, <2>3, SameString
<1>6. SubSeq(d, n + 2, n + 1 + Len(s)) = s
  <2> DEFINE x == SubSeq(d, n + 2, n + 1 + Len(s))
  <2>1. /\ n + 2 \in Nat \ {0} /\ n + 1 + Len(s) \in Nat /\ n + 1 + Len(s) <= Len(d)
        /\ n + 2 <= (n + 1 + Len(s)) + 1
    BY <1>1, <1>3
  <2>2. /\ x \in Strings /\ Len(x) = (n + 1 + Len(s)) - (n + 2) + 1
        /\ \A k \in 1..(n + 1 + Len(s)) - (n + 2) + 1 : x[k] = d[n + 2 + k - 1]
    BY <1>3, <2>1, Part
  <2> HIDE DEF x
  <2>3. Len(x) = Len(s)
    BY <1>1, <2>2
  <2>4. ASSUME NEW k \in 1..Len(x) PROVE x[k] = s[k]
    <3>1. /\ k \in 1..Len(s) /\ k \in 1..(n + 1 + Len(s)) - (n + 2) + 1
          /\ n + 2 + k - 1 = n + 1 + k /\ n + 1 + k \in 1..Len(w)
      BY <1>1, <2>3
    <3> QED BY <1>1, <1>3, <2>2, <3>1
  <2>5. x = s
    BY <2>2, <2>3, <2>4, SameString
  <2> QED BY <2>5 DEF x
<1>7. Behind(d, n + 1 + Len(s)) = t
  <2>1. SubSeq(d, Len(w) + 1, Len(d)) = t
    BY <1>1, Cuts DEF d
  <2> QED BY <1>1, <2>1 DEF Behind
<1>8. AllDigits(a)
  <2>1. a # <<>> /\ DOMAIN a = 1..n
    BY <1>1, <1>2, StringLen DEF n
  <2>2. \A k \in 1..n : a[k] \in Digits
    BY <1>1
  <2> QED BY <2>1, <2>2 DEF AllDigits
<1>9. n + 1 + Len(s) <= Len(d) /\ n + 1 # 0 /\ n + 1 - 1 = n /\ n + 1 + 1 = n + 2
  BY <1>1, <1>3
<1> DEFINE colon == IndexByte(d, Colon)
           size == SubSeq(d, 1, colon - 1)
           end == colon + Number[size]
<1>10. colon = n + 1 /\ size = a /\ end = n + 1 + Len(s) /\ colon + 1 = n + 2
  <2>1. colon = n + 1
    BY <1>4
  <2> HIDE DEF colon
  <2>2. colon - 1 = n
    BY <1>1, <2>1
  <2>3. size = a
    BY <1>5, <2>2
  <2> HIDE DEF size
  <2> QED BY <1>2, <1>9, <2>1, <2>3
<1>11. ParseString(d) = IF colon # 0 /\ AllDigits(size) /\ end <= Len(d)
                        THEN Parsed(SubSeq(d, colon + 1, end), Behind(d, end)) ELSE Fail
  BY DEF ParseString
<1> HIDE DEF colon, size, end
<1>12. ParseString(d) = Parsed(s, t)
  BY <1>6, <1>7, <1>8, <1>9, <1>10, <1>11
<1> QED BY <1>12 DEF d, w

LEMMA StringCut ==
  ASSUME NEW s \in Strings, NEW p, Cut(p, EncodeString(s))
  PROVE  ParseString(p) = Fail
<1> DEFINE a == Decimal[Len(s)]
           n == Len(a)
           w == EncodeString(s)
           colon == IndexByte(p, Colon)
           size == SubSeq(p, 1, colon - 1)
           end == colon + Number[size]
<1>1. /\ w \in Strings /\ n \in Nat /\ n > 0 /\ Len(w) = n + 1 + Len(s)
      /\ \A k \in 1..n : w[k] = a[k] /\ w[k] \in Digits
      /\ w[n + 1] = Colon /\ Len(s) \in Nat
  BY EncodedString
<1>2. a \in Strings /\ Number[a] = Len(s)
  BY <1>1, DecimalFacts
<1>3. p \in Strings /\ Len(p) \in Nat /\ Len(p) < Len(w) /\ \A k \in 1..Len(p) : p[k] = w[k]
  BY <1>1, CutFacts
<1>4. ParseString(p) = IF colon # 0 /\ AllDigits(size) /\ end <= Len(p)
                       THEN Parsed(SubSeq(p, colon + 1, end), Behind(p, end)) ELSE Fail
  BY DEF ParseString
<1> HIDE DEF a, n, w
<1>5. CASE Len(p) <= n
  <2>1. ASSUME NEW j \in 1..Len(p) PROVE p[j] # Colon
    <3>1. j \in 1..n
      BY <1>1, <1>3, <1>5
    <3> QED BY <1>1, <1>3, <3>1, NoDigits
  <2>2. colon = 0
    BY <1>3, <2>1, IndexNone
  <2> HIDE DEF colon
  <2> QED BY <1>4, <2>2
<1>6. CASE ~(Len(p) <= n)
  <2>1. colon = n + 1
    <3>1. n + 1 \in 1..Len(p)
      BY <1>1, <1>3, <1>6
    <3>2. p[n + 1] = Colon
      BY <1>1, <1>3, <3>1
    <3>3. ASSUME NEW j \in 1..Len(p), j < n + 1 PROVE p[j] # Colon
      <4>1. j \in 1..n
        BY <1>1, <3>3
      <4> QED BY <1>1, <1>3, <4>1, NoDigits
    <3> QED BY <1>3, <3>1, <3>2, <3>3, IndexIs
  <2>2. size = a
    <3> DEFINE x == SubSeq(p, 1, n)
    <3>1. /\ x \in Strings /\ Len(x) = n - 1 + 1
          /\ \A k \in 1..n - 1 + 1 : x[k] = p[1 + k - 1]
      <4>1. 1 \in Nat \ {0} /\ n \in Nat /\ n <= Len(p) /\ 1 <= n + 1
        BY <1>1, <1>3, <1>6
      <4> QED BY <1>3, <4>1, Part
    <3> HIDE DEF x
    <3>2. Len(x) = Len(a)
      BY <1>1, <3>1 DEF n
    <3>3. ASSUME NEW k \in 1..Len(x) PROVE x[k] = a[k]
      <4>1. k \in 1..n /\ k \in 1..n - 1 + 1 /\ 1 + k - 1 = k /\ k \in 1..Len(p)
        BY <1>1, <1>3, <1>6, <3>1
      <4> QED BY <1>1, <1>3, <3>1, <4>1
    <3>4. x = a
      BY <1>2, <3>1, <3>2, <3>3, SameString
    <3>5. colon - 1 = n
      BY <1>1, <2>1
    <3> QED BY <3>4, <3>5 DEF x
  <2> HIDE DEF colon, size
  <2>3. ~(end <= Len(p))
    BY <1>1, <1>2, <1>3, <2>1, <2>2
  <2> HIDE DEF end
  <2> QED BY <1>4, <2>3
<1> QED BY <1>5, <1>6

(* The digits of an integer, with a sign or without.                       *)
Printed(n) == IF n < 0 THEN <<Minus>> \o Decimal[-n] ELSE Decimal[n]

LEMMA PrintedFacts ==
  ASSUME NEW n \in Int
  PROVE  LET num == Printed(n) IN
         /\ num \in Strings /\ Len(num) \in Nat /\ Len(num) > 0
         /\ \A k \in 1..Len(num) : num[k] # E
         /\ ~(Len(num) > 1 /\ num[1] = Digit(0))
         /\ num # <<Minus, Digit(0)>>
         /\ AllDigits(Magnitude(num))
         /\ Value(num) = n
<1> DEFINE num == Printed(n)
<1>1. CASE n < 0
  <2> DEFINE a == Decimal[-n]
  <2>1. /\ -n \in Nat /\ -n # 0 /\ -(-n) = n
    BY <1>1
  <2>2. /\ a \in Strings /\ Len(a) \in Nat /\ Len(a) > 0 /\ \A k \in 1..Len(a) : a[k] \in Digits
        /\ Number[a] = -n /\ (a[1] = Digit(0) => -n = 0)
    BY <2>1, DecimalFacts
  <2>3. num = <<Minus>> \o a
    BY <1>1 DEF Printed
  <2> HIDE DEF a, num
  <2>4. /\ num \in Strings /\ num # <<>> /\ Len(num) = Len(a) + 1 /\ num[1] = Minus /\ Tail(num) = a
    BY <2>2, <2>3, NoDigits, FirstByteOf
  <2>5. \A k \in 1..Len(a) : num[1 + k] = a[k]
    <3>1. <<Minus>> \in Strings /\ Len(<<Minus>>) = 1
      BY NoDigits, OneByte
    <3> QED BY <2>2, <2>3, <3>1, Joined
  <2>6. Magnitude(num) = a /\ Value(num) = n
    <3>1. Magnitude(num) = a
      BY <2>4 DEF Magnitude, Signed
    <3> QED BY <2>1, <2>2, <2>4, <3>1 DEF Value
  <2>7. ASSUME NEW k \in 1..Len(num) PROVE num[k] # E
    <3>1. CASE k = 1
      BY <2>4, <3>1, NoDigits
    <3>2. CASE k # 1
      <4>1. k - 1 \in 1..Len(a) /\ 1 + (k - 1) = k
        BY <2>2, <2>4, <3>2
      <4>2. num[1 + (k - 1)] = a[k - 1]
        BY <2>5, <4>1
      <4>3. num[k] \in Digits
        BY <2>2, <4>1, <4>2
      <4> QED BY <4>3, NoDigits
    <3> QED BY <3>1, <3>2
  <2>8. num[1] # Digit(0)
    BY <2>4 DEF Minus, Digit
  <2>9. num # <<Minus, Digit(0)>>
    <3> SUFFICES ASSUME num = <<Minus, Digit(0)>> PROVE FALSE
      OBVIOUS
    <3>1. Tail(num) = <<Digit(0)>>
      OBVIOUS
    <3>2. a[1] = Digit(0)
      BY <2>4, <3>1
    <3> QED BY <2>1, <2>2, <3>2
  <2>10. AllDigits(a)
    BY <2>2, StringLen DEF AllDigits
  <2> QED BY <2>2, <2>4, <2>6, <2>7, <2>8, <2>9, <2>10 DEF num
<1>2. CASE ~(n < 0)
  <2>1. n \in Nat
    BY <1>2
  <2>2. num = Decimal[n]
    BY <1>2 DEF Printed
  <2> HIDE DEF num
  <2>3. /\ num \in Strings /\ Len(num) \in Nat /\ Len(num) > 0 /\ \A k \in 1..Len(num) : num[k] \in Digits
        /\ Number[num] = n /\ (num[1] = Digit(0) => Len(num) = 1)
    BY <2>1, <2>2, DecimalFacts
  <2>4. num[1] \in Digits /\ num[1] # Minus /\ num[1] # Plus
    <3>1. 1 \in 1..Len(num)
      BY <2>3
    <3> QED BY <2>3, <3>1, NoDigits
  <2>5. Magnitude(num) = num
    BY <2>4 DEF Magnitude, Signed
  <2>6. Value(num) = n
    BY <2>3, <2>4, <2>5 DEF Value
  <2>7. num # <<Minus, Digit(0)>>
    BY <2>4
  <2>8. AllDigits(num)
    BY <2>3, StringLen DEF AllDigits
  <2>9. \A k \in 1..Len(num) : num[k] # E
    BY <2>3, NoDigits
  <2>10. ~(Len(num) > 1 /\ num[1] = Digit(0))
    BY <2>3
  <2> QED BY <2>3, <2>5, <2>6, <2>7, <2>8, <2>9, <2>10 DEF num
<1> QED BY <1>1, <1>2

LEMMA EncodedInteger ==
  ASSUME NEW n \in Int
  PROVE  LET num == Printed(n)
             w == EncodeInteger(n)
         IN /\ w \in Strings /\ Len(w) = Len(num) + 2 /\ w[1] = I /\ w[Len(num) + 2] = E
            /\ \A k \in 1..Len(num) : w[1 + k] = num[k]
<1> DEFINE num == Printed(n)
           a == <<I>> \o num
           w == a \o <<E>>
<1>1. num \in Strings /\ Len(num) \in Nat
  BY PrintedFacts
<1>2. w = EncodeInteger(n)
  BY DEF EncodeInteger, Printed
<1> HIDE DEF num
<1>3. /\ <<I>> \in Strings /\ Len(<<I>>) = 1 /\ <<I>>[1] = I
      /\ <<E>> \in Strings /\ Len(<<E>>) = 1 /\ <<E>>[1] = E
  BY NoDigits, OneByte
<1>4. a \in Strings /\ Len(a) = Len(num) + 1 /\ a[1] = I
  BY <1>1, NoDigits, FirstByteOf
<1>5. \A k \in 1..Len(num) : a[1 + k] = num[k]
  <2>1. \A k \in 1..Len(num) : a[Len(<<I>>) + k] = num[k]
    BY <1>1, <1>3, Joined
  <2> HIDE DEF a
  <2> QED BY <1>3, <2>1
<1> HIDE DEF a
<1>6. /\ w \in Strings /\ Len(w) = Len(a) + 1 /\ \A k \in 1..Len(a) : w[k] = a[k]
      /\ w[Len(a) + 1] = E
  <2>1. /\ w \in Strings /\ Len(w) = Len(a) + Len(<<E>>)
        /\ \A k \in 1..Len(a) : w[k] = a[k]
        /\ \A k \in 1..Len(<<E>>) : w[Len(a) + k] = <<E>>[k]
    BY <1>3, <1>4, Joined
  <2>2. 1 \in 1..Len(<<E>>)
    BY <1>3
  <2> HIDE DEF w
  <2> QED BY <1>3, <2>1, <2>2
<1> HIDE DEF w
<1>7. /\ Len(a) + 1 = Len(num) + 2 /\ 1 \in 1..Len(a)
      /\ \A k \in 1..Len(num) : 1 + k \in 1..Len(a)
  BY <1>1, <1>4
<1> QED BY <1>2, <1>4, <1>5, <1>6, <1>7 DEF num

LEMMA IntegerParsed ==
  ASSUME NEW n \in Int, NEW t \in Strings
  PROVE  ParseInteger(EncodeInteger(n) \o t) = Parsed(n, t)
<1> DEFINE num == Printed(n)
           w == EncodeInteger(n)
           d == w \o t
<1>1. /\ num \in Strings /\ Len(num) \in Nat /\ Len(num) > 0
      /\ \A k \in 1..Len(num) : num[k] # E
      /\ ~(Len(num) > 1 /\ num[1] = Digit(0))
      /\ num # <<Minus, Digit(0)>>
      /\ AllDigits(Magnitude(num))
      /\ Value(num) = n
  BY PrintedFacts
<1>2. /\ w \in Strings /\ Len(w) = Len(num) + 2 /\ w[1] = I /\ w[Len(num) + 2] = E
      /\ \A k \in 1..Len(num) : w[1 + k] = num[k]
  BY EncodedInteger
<1> HIDE DEF num, w
<1>3. /\ d \in Strings /\ Len(d) = Len(w) + Len(t) /\ Len(t) \in Nat
      /\ \A k \in 1..Len(w) : d[k] = w[k]
  BY <1>2, Joined, StringLen
<1>4. Behind(d, Len(num) + 2) = t
  <2>1. SubSeq(d, Len(w) + 1, Len(d)) = t
    BY <1>2, Cuts
  <2> HIDE DEF d
  <2> QED BY <1>2, <2>1 DEF Behind
<1> HIDE DEF d
<1>5. Len(d) >= 3 /\ d[1] = I /\ 1 \in 1..Len(w) /\ Len(num) + 2 \in 1..Len(w)
      /\ Len(num) + 2 \in 1..Len(d) /\ d[Len(num) + 2] = E
  BY <1>1, <1>2, <1>3
<1>6. \A k \in 1..Len(num) : d[1 + k] = num[k]
  <2> TAKE k \in 1..Len(num)
  <2>1. 1 + k \in 1..Len(w)
    BY <1>1, <1>2
  <2> QED BY <1>2, <1>3, <2>1
<1>7. IndexByte(d, E) = Len(num) + 2
  <2>1. ASSUME NEW j \in 1..Len(d), j < Len(num) + 2 PROVE d[j] # E
    <3>1. CASE j = 1
      BY <1>5, <3>1, NoDigits
    <3>2. CASE j # 1
      <4>1. j - 1 \in 1..Len(num) /\ 1 + (j - 1) = j
        BY <1>1, <2>1, <3>2
      <4>2. d[1 + (j - 1)] = num[j - 1] /\ num[j - 1] # E
        BY <1>1, <1>6, <4>1
      <4> QED BY <4>1, <4>2
    <3> QED BY <3>1, <3>2
  <2> QED BY <1>3, <1>5, <2>1, IndexIs
<1>8. SubSeq(d, 2, Len(num) + 1) = num
  <2> DEFINE x == SubSeq(d, 2, Len(num) + 1)
  <2>1. /\ 2 \in Nat \ {0} /\ Len(num) + 1 \in Nat /\ Len(num) + 1 <= Len(d)
        /\ 2 <= (Len(num) + 1) + 1
    BY <1>1, <1>2, <1>3
  <2>2. /\ x \in Strings /\ Len(x) = (Len(num) + 1) - 2 + 1
        /\ \A k \in 1..(Len(num) + 1) - 2 + 1 : x[k] = d[2 + k - 1]
    BY <1>3, <2>1, Part
  <2> HIDE DEF x
  <2>3. Len(x) = Len(num)
    BY <1>1, <2>2
  <2>4. ASSUME NEW k \in 1..Len(x) PROVE x[k] = num[k]
    <3>1. k \in 1..Len(num) /\ k \in 1..(Len(num) + 1) - 2 + 1 /\ 2 + k - 1 = 1 + k
      BY <1>1, <2>3
    <3> QED BY <1>6, <2>2, <3>1
  <2>5. x = num
    BY <1>1, <2>2, <2>3, <2>4, SameString
  <2> QED BY <2>5 DEF x
<1> DEFINE end == IndexByte(d, E)
           middle == SubSeq(d, 2, end - 1)
<1>9. end = Len(num) + 2 /\ end # 0 /\ middle = num
  <2>1. end = Len(num) + 2 /\ end - 1 = Len(num) + 1 /\ end # 0
    BY <1>1, <1>7
  <2> HIDE DEF end
  <2> QED BY <1>8, <2>1
<1>10. ParseInteger(d) =
         IF /\ Len(d) >= 3
            /\ d[1] = I
            /\ end # 0
            /\ ~(Len(middle) > 1 /\ middle[1] = Digit(0))
            /\ middle # <<Minus, Digit(0)>>
            /\ AllDigits(Magnitude(middle))
         THEN Parsed(Value(middle), Behind(d, end)) ELSE Fail
  BY DEF ParseInteger
<1> HIDE DEF end, middle
<1>11. ParseInteger(d) = Parsed(n, t)
  BY <1>1, <1>4, <1>5, <1>9, <1>10
<1> QED BY <1>11 DEF d, w

LEMMA IntegerCut ==
  ASSUME NEW n \in Int, NEW p, Cut(p, EncodeInteger(n))
  PROVE  ParseInteger(p) = Fail
<1> DEFINE num == Printed(n)
           w == EncodeInteger(n)
<1>1. num \in Strings /\ Len(num) \in Nat /\ \A k \in 1..Len(num) : num[k] # E
  BY PrintedFacts
<1>2. /\ w \in Strings /\ Len(w) = Len(num) + 2 /\ w[1] = I
      /\ \A k \in 1..Len(num) : w[1 + k] = num[k]
  BY EncodedInteger
<1>3. p \in Strings /\ Len(p) \in Nat /\ Len(p) < Len(w) /\ \A k \in 1..Len(p) : p[k] = w[k]
  BY <1>2, CutFacts
<1> HIDE DEF num, w
<1>4. ASSUME NEW j \in 1..Len(p) PROVE p[j] # E
  <2>1. CASE j = 1
    BY <1>2, <1>3, <2>1, NoDigits
  <2>2. CASE j # 1
    <3>1. j - 1 \in 1..Len(num) /\ 1 + (j - 1) = j
      BY <1>1, <1>2, <1>3, <2>2
    <3>2. w[1 + (j - 1)] = num[j - 1] /\ num[j - 1] # E
      BY <1>1, <1>2, <3>1
    <3> QED BY <1>3, <3>1, <3>2
  <2> QED BY <2>1, <2>2
<1>5. IndexByte(p, E) = 0
  BY <1>3, <1>4, IndexNone
<1> QED BY <1>5 DEF ParseInteger

-----------------------------------------------------------------------------
(* Strings one behind the other.                                           *)

LEMMA FlatSteps ==
  ASSUME NEW parts \in Seq(Strings), parts # <<>>
  PROVE  \E f \in [1..Len(parts) -> Strings] :
           /\ f[1] = parts[1]
           /\ \A i \in 2..Len(parts) : f[i] = f[i - 1] \o parts[i]
           /\ FlattenSeq(parts) = f[Len(parts)]
<1> DEFINE n == Len(parts)
           S == 1..n
           Steps(f) == f = [i \in S |-> IF i = 1 THEN parts[i] ELSE f[i - 1] \o parts[i]]
           body == [g \in [S -> Strings] |->
                      [i \in S |-> IF i = 1 THEN parts[i] ELSE g[i - 1] \o parts[i]]]
           rank == [i \in S |-> i]
<1>1. n \in Nat /\ n > 0 /\ \A i \in S : parts[i] \in Strings
  BY LenProperties, ElementOfSeq, EmptySeq
<1>2. body \in [[S -> Strings] -> [S -> Strings]]
  <2>1. ASSUME NEW g \in [S -> Strings], NEW i \in S, i # 1 PROVE g[i - 1] \o parts[i] \in Strings
    <3>1. i - 1 \in S
      BY <1>1, <2>1
    <3> QED BY <1>1, <3>1, Joined
  <2> QED BY <1>1, <2>1
<1>3. rank \in [S -> Nat]
  OBVIOUS
<1>4. Looking(S, Strings, rank, body)
  <2> SUFFICES ASSUME NEW g \in [S -> Strings], NEW h \in [S -> Strings], NEW i \in S,
                      \A j \in S : rank[j] < rank[i] => g[j] = h[j]
               PROVE  body[g][i] = body[h][i]
    BY DEF Looking
  <2>1. ASSUME i # 1 PROVE g[i - 1] = h[i - 1]
    <3>1. i - 1 \in S /\ i - 1 < i
      BY <1>1, <2>1
    <3> QED BY <3>1
  <2> QED BY <2>1
<1>5. PICK g \in [S -> Strings] : g = body[g]
  <2>1. Strings # {}
    BY OneByte
  <2> HIDE DEF body, rank, S
  <2>2. PICK g \in [S -> Strings] : Fixed(g, body)
    BY <1>2, <1>3, <1>4, <2>1, FixedPoint
  <2> QED BY <2>2 DEF Fixed
<1>6. Steps(g)
  BY <1>5
<1> DEFINE f == CHOOSE h : Steps(h)
<1>7. Steps(f)
  <2> HIDE DEF Steps
  <2> QED BY <1>6
<1>8. FlattenSeq(parts) = f[n]
  <2>1. Len(parts) # 0
    BY <1>1
  <2> QED BY <2>1 DEF FlattenSeq
<1> HIDE DEF f, body
<1>9. \A i \in S : f[i] \in Strings
  <2> DEFINE P == {i \in Nat : i \in S => f[i] \in Strings}
  <2>1. ASSUME NEW i \in Nat, \A j \in Nat : j < i => j \in P PROVE i \in P
    <3> SUFFICES ASSUME i \in S PROVE f[i] \in Strings
      OBVIOUS
    <3>1. CASE i = 1
      BY <1>1, <1>7, <3>1
    <3>2. CASE i # 1
      <4>1. i - 1 \in S /\ i - 1 \in Nat /\ i - 1 < i
        BY <1>1, <3>2
      <4>2. f[i - 1] \in Strings
        BY <2>1, <4>1
      <4>3. f[i] = f[i - 1] \o parts[i]
        BY <1>7, <3>2
      <4> QED BY <1>1, <4>2, <4>3, Joined
    <3> QED BY <3>1, <3>2
  <2> HIDE DEF P
  <2>2. \A i \in Nat : i \in P
    BY <2>1, Induction
  <2> QED BY <2>2 DEF P
<1>10. f[1] = parts[1] /\ \A i \in 2..n : f[i] = f[i - 1] \o parts[i]
  <2>1. 1 \in S /\ \A i \in 2..n : i \in S /\ i # 1
    BY <1>1
  <2>2. f[1] = parts[1]
    BY <1>7, <2>1
  <2>3. ASSUME NEW i \in 2..n PROVE f[i] = f[i - 1] \o parts[i]
    <3>1. i \in S /\ i # 1
      BY <2>1
    <3> HIDE DEF S
    <3> QED BY <1>7, <3>1
  <2> QED BY <2>2, <2>3
<1>11. f \in [S -> Strings]
  BY <1>7, <1>9
<1> QED BY <1>8, <1>10, <1>11

LEMMA Flat ==
  ASSUME NEW parts \in Seq(Strings)
  PROVE  /\ FlattenSeq(parts) \in Strings
         /\ parts = <<>> => FlattenSeq(parts) = <<>>
         /\ parts # <<>> => /\ parts[1] \in Strings /\ Tail(parts) \in Seq(Strings)
                            /\ FlattenSeq(Tail(parts)) \in Strings
                            /\ FlattenSeq(parts) = parts[1] \o FlattenSeq(Tail(parts))
<1>1. ASSUME parts = <<>> PROVE FlattenSeq(parts) = <<>> /\ FlattenSeq(parts) \in Strings
  BY <1>1, OneByte DEF FlattenSeq
<1>2. ASSUME parts # <<>>
      PROVE  /\ FlattenSeq(parts) \in Strings
             /\ parts[1] \in Strings /\ Tail(parts) \in Seq(Strings)
             /\ FlattenSeq(Tail(parts)) \in Strings
             /\ FlattenSeq(parts) = parts[1] \o FlattenSeq(Tail(parts))
  <2> DEFINE n == Len(parts)
             rest == Tail(parts)
  <2>1. n \in Nat /\ n > 0 /\ \A i \in 1..n : parts[i] \in Strings
    BY <1>2, LenProperties, ElementOfSeq, EmptySeq
  <2>2. /\ rest \in Seq(Strings) /\ Len(rest) = n - 1
        /\ \A i \in 1..Len(rest) : rest[i] = parts[i + 1]
    BY <1>2, HeadTailProperties
  <2>3. PICK f \in [1..n -> Strings] :
           /\ f[1] = parts[1]
           /\ \A i \in 2..n : f[i] = f[i - 1] \o parts[i]
           /\ FlattenSeq(parts) = f[n]
    BY <1>2, FlatSteps
  <2>4. f[n] \in Strings /\ f[1] \in Strings
    BY <2>1, <2>3
  <2> HIDE DEF rest
  <2>5. CASE n = 1
    <3>1. rest = <<>>
      BY <2>2, <2>5, EmptySeq
    <3>2. FlattenSeq(rest) = <<>>
      BY <3>1 DEF FlattenSeq
    <3>3. parts[1] \o <<>> = parts[1] /\ <<>> \in Strings
      BY <2>1, JoinedNothing, OneByte
    <3> QED BY <2>1, <2>2, <2>3, <2>4, <2>5, <3>2, <3>3 DEF rest
  <2>6. CASE n # 1
    <3>1. rest # <<>>
      BY <2>1, <2>2, <2>6
    <3>2. PICK h \in [1..Len(rest) -> Strings] :
             /\ h[1] = rest[1]
             /\ \A i \in 2..Len(rest) : h[i] = h[i - 1] \o rest[i]
             /\ FlattenSeq(rest) = h[Len(rest)]
      BY <2>2, <3>1, FlatSteps
    <3> DEFINE P == {i \in Nat : i \in 1..n - 1 => f[i + 1] = parts[1] \o h[i]}
    <3>3. ASSUME NEW i \in Nat, \A j \in Nat : j < i => j \in P PROVE i \in P
      <4> SUFFICES ASSUME i \in 1..n - 1 PROVE f[i + 1] = parts[1] \o h[i]
        OBVIOUS
      <4>1. /\ i + 1 \in 2..n /\ (i + 1) - 1 = i /\ i \in 1..Len(rest)
        BY <2>1, <2>2
      <4>2. f[i + 1] = f[i] \o parts[i + 1]
        BY <2>3, <4>1
      <4>3. rest[i] = parts[i + 1]
        BY <2>2, <4>1
      <4>4. CASE i = 1
        BY <2>3, <3>2, <4>2, <4>3, <4>4
      <4>5. CASE i # 1
        <5>1. /\ i - 1 \in Nat /\ i - 1 < i /\ i - 1 \in 1..n - 1 /\ (i - 1) + 1 = i
              /\ i \in 2..Len(rest) /\ i - 1 \in 1..Len(rest)
          BY <4>1, <4>5
        <5>2. f[i] = parts[1] \o h[i - 1]
          BY <3>3, <5>1
        <5>3. h[i] = h[i - 1] \o rest[i]
          BY <3>2, <5>1
        <5>4. parts[1] \in Strings /\ h[i - 1] \in Strings /\ rest[i] \in Strings
          BY <2>1, <2>2, <3>2, <4>1, <4>3, <5>1
        <5>5. (parts[1] \o h[i - 1]) \o rest[i] = parts[1] \o (h[i - 1] \o rest[i])
          BY <5>4, JoinedTwice
        <5> QED BY <4>2, <4>3, <5>2, <5>3, <5>5
      <4> QED BY <4>4, <4>5
    <3> HIDE DEF P
    <3>4. n - 1 \in P
      <4>1. n - 1 \in Nat
        BY <2>1
      <4> QED BY <3>3, <4>1, Induction
    <3>5. n - 1 \in 1..n - 1 /\ (n - 1) + 1 = n
      <4> HIDE DEF n
      <4> QED BY <2>1, <2>6
    <3>6. f[n] = parts[1] \o h[n - 1]
      BY <3>4, <3>5 DEF P
    <3>7. h[Len(rest)] \in Strings
      BY <2>2, <3>2, <3>5
    <3> QED BY <2>1, <2>2, <2>3, <2>4, <3>2, <3>6, <3>7 DEF rest
  <2> QED BY <2>5, <2>6
<1> QED BY <1>1, <1>2

-----------------------------------------------------------------------------
(* The parser calls itself on less than it was given, if calls of the      *)
(* parser of one object count less than those of what is left of a list or *)
(* a dictionary.                                                           *)

CallBy(parse, call) ==
  CASE call[1] = "object" -> ObjectBy(parse, call[2])
    [] call[1] = "items" -> ItemsBy(parse, call[2])
    [] OTHER -> PairsBy(parse, call[2])

Measure(call) == 2 * Len(call[2]) + (IF call[1] = "object" THEN 0 ELSE 1)

AgreeBelow(g, h, call) ==
  \A y \in Calls : Measure(y) < Measure(call) => g[y] = h[y] /\ Shrinks(g[y], y[2])

LEMMA TailShorter ==
  ASSUME NEW s \in Strings, s # <<>>
  PROVE  Tail(s) \in Strings /\ Len(Tail(s)) < Len(s)
<1>1. Tail(s) \in Strings /\ Len(Tail(s)) = Len(s) - 1 /\ Len(s) \in Nat
  BY TailOf, StringLen
<1> QED BY <1>1

LEMMA ShrinksMore ==
  ASSUME NEW data \in Strings, NEW less \in Strings, Len(less) <= Len(data), NEW parsed,
         Shrinks(parsed, less)
  PROVE  Shrinks(parsed, data)
<1>1. CASE parsed = Fail
  BY <1>1 DEF Shrinks
<1>2. CASE \E v : \E r \in Strings : parsed = Parsed(v, r) /\ Len(r) < Len(less)
  <2>1. PICK v, r : r \in Strings /\ parsed = Parsed(v, r) /\ Len(r) < Len(less)
    BY <1>2
  <2>2. Len(r) < Len(data)
    BY <2>1, StringLen
  <2> QED BY <2>1, <2>2 DEF Shrinks
<1> QED BY <1>1, <1>2 DEF Shrinks

LEMMA ShrinksTo ==
  ASSUME NEW data \in Strings, NEW v, NEW r \in Strings, Len(r) < Len(data)
  PROVE  Shrinks(Parsed(v, r), data)
BY DEF Shrinks

LEMMA ShrinksAs ==
  ASSUME NEW data \in Strings, NEW type, NEW parsed, Shrinks(parsed, data)
  PROVE  Shrinks(As(type, parsed), data)
<1>1. CASE parsed.ok
  <2>1. parsed.rest \in Strings /\ Len(parsed.rest) < Len(data)
    BY <1>1, ShrinksOk
  <2> QED BY <1>1, <2>1, ShrinksTo DEF As
<1>2. CASE ~parsed.ok
  BY <1>2 DEF As, Shrinks
<1> QED BY <1>1, <1>2

LEMMA Arms ==
  ASSUME NEW parse, NEW data
  PROVE  /\ CallBy(parse, <<"object", data>>) = ObjectBy(parse, data)
         /\ CallBy(parse, <<"items", data>>) = ItemsBy(parse, data)
         /\ CallBy(parse, <<"pairs", data>>) = PairsBy(parse, data)
BY DEF CallBy

LEMMA IsCall ==
  ASSUME NEW data \in Strings
  PROVE  /\ <<"object", data>> \in Calls /\ Measure(<<"object", data>>) = 2 * Len(data)
         /\ <<"items", data>> \in Calls /\ Measure(<<"items", data>>) = 2 * Len(data) + 1
         /\ <<"pairs", data>> \in Calls /\ Measure(<<"pairs", data>>) = 2 * Len(data) + 1
<1>1. Len(data) \in Nat
  BY StringLen
<1> QED BY <1>1 DEF Calls, Measure

LEMMA CallIs ==
  ASSUME NEW c \in Calls
  PROVE  /\ c[2] \in Strings /\ Measure(c) \in Nat
         /\ c = <<"object", c[2]>> \/ c = <<"items", c[2]>> \/ c = <<"pairs", c[2]>>
<1>1. c[2] \in Strings
  BY DEF Calls
<1>2. Len(c[2]) \in Nat
  BY <1>1, StringLen
<1>3. c = <<"object", c[2]>> \/ c = <<"items", c[2]>> \/ c = <<"pairs", c[2]>>
  BY DEF Calls
<1>4. Measure(c) \in Nat
  <2>1. PICK m : m = Len(c[2])
    OBVIOUS
  <2>2. m \in Nat /\ 2 * m \in Nat /\ 2 * m + 1 \in Nat /\ 2 * m + 0 \in Nat
    BY <1>2, <2>1
  <2>3. Measure(c) = 2 * m + 0 \/ Measure(c) = 2 * m + 1
    BY <2>1 DEF Measure
  <2> QED BY <2>2, <2>3
<1> QED BY <1>1, <1>3, <1>4

LEMMA LocalObject ==
  ASSUME NEW g, NEW h, NEW d \in Strings, AgreeBelow(g, h, <<"object", d>>)
  PROVE  ObjectBy(g, d) = ObjectBy(h, d) /\ Shrinks(ObjectBy(g, d), d)
<1>1. CASE d = <<>>
  BY <1>1 DEF ObjectBy, Shrinks
<1>2. CASE d # <<>>
  <2>1. Tail(d) \in Strings /\ Len(Tail(d)) = Len(d) - 1 /\ Len(d) \in Nat /\ Len(d) > 0
    BY <1>2, TailOf, StringLen
  <2>2. ASSUME NEW y \in {<<"items", Tail(d)>>, <<"pairs", Tail(d)>>}
        PROVE  g[y] = h[y] /\ Shrinks(g[y], d)
    <3>1. y \in Calls /\ Measure(y) = 2 * (Len(d) - 1) + 1 /\ y[2] = Tail(d)
      <4>1. y \in Calls /\ Measure(y) = 2 * Len(Tail(d)) + 1
        BY <2>1, IsCall
      <4>2. y[2] = Tail(d)
        OBVIOUS
      <4> QED BY <2>1, <4>1, <4>2
    <3>2. Measure(<<"object", d>>) = 2 * Len(d)
      BY IsCall
    <3>3. 2 * (Len(d) - 1) + 1 < 2 * Len(d)
      BY <2>1
    <3>4. g[y] = h[y] /\ Shrinks(g[y], Tail(d))
      BY <3>1, <3>2, <3>3 DEF AgreeBelow
    <3>5. Len(Tail(d)) <= Len(d)
      BY <2>1
    <3> QED BY <2>1, <3>4, <3>5, ShrinksMore
  <2>3. Shrinks(Fail, d)
    BY DEF Shrinks
  <2>4. ListBy(g, d) = ListBy(h, d) /\ Shrinks(ListBy(g, d), d)
    BY <2>2, <2>3 DEF ListBy
  <2>5. DictBy(g, d) = DictBy(h, d) /\ Shrinks(DictBy(g, d), d)
    BY <2>2, <2>3 DEF DictBy
  <2>6. /\ Shrinks(As("BenInteger", ParseInteger(d)), d) /\ Shrinks(As("BenString", ParseString(d)), d)
        /\ Shrinks(As("BenList", ListBy(g, d)), d) /\ Shrinks(As("BenDict", DictBy(g, d)), d)
    BY <2>4, <2>5, ShrinksAs, IntegerShrinks, StringShrinks
  <2>7. CASE d[1] = I
    BY <1>2, <2>6, <2>7 DEF ObjectBy
  <2>8. CASE d[1] = D
    BY <1>2, <2>5, <2>6, <2>8, NoDigits DEF ObjectBy
  <2>9. CASE d[1] = L
    BY <1>2, <2>4, <2>6, <2>9, NoDigits DEF ObjectBy
  <2>10. CASE d[1] # I /\ d[1] # D /\ d[1] # L
    BY <1>2, <2>6, <2>10 DEF ObjectBy
  <2> QED BY <2>7, <2>8, <2>9, <2>10
<1> QED BY <1>1, <1>2

(* What is parsed behind the object that data begins with.                 *)
LEMMA LocalMore ==
  ASSUME NEW g, NEW h, NEW d \in Strings, NEW e \in Strings, Len(e) <= Len(d),
         NEW kind \in {"items", "pairs"}, AgreeBelow(g, h, <<kind, d>>)
  PROVE  LET obj == g[<<"object", e>>]
             more == g[<<kind, obj.rest>>]
         IN /\ g[<<"object", e>>] = h[<<"object", e>>] /\ Shrinks(obj, d)
            /\ obj.ok => /\ g[<<kind, obj.rest>>] = h[<<kind, obj.rest>>]
                         /\ Shrinks(more, d)
<1> DEFINE obj == g[<<"object", e>>]
           more == g[<<kind, obj.rest>>]
<1>1. /\ Len(d) \in Nat /\ Len(e) \in Nat
      /\ Measure(<<kind, d>>) = 2 * Len(d) + 1 /\ Measure(<<"object", e>>) = 2 * Len(e)
      /\ <<"object", e>> \in Calls
  BY StringLen, IsCall
<1>2. Measure(<<"object", e>>) < Measure(<<kind, d>>)
  BY <1>1
<1>3. g[<<"object", e>>] = h[<<"object", e>>] /\ Shrinks(obj, e)
  BY <1>1, <1>2 DEF AgreeBelow
<1>4. Shrinks(obj, d)
  BY <1>3, ShrinksMore
<1> HIDE DEF obj
<1>5. ASSUME obj.ok
      PROVE  g[<<kind, obj.rest>>] = h[<<kind, obj.rest>>] /\ Shrinks(more, d)
  <2>1. obj.rest \in Strings /\ Len(obj.rest) < Len(d)
    BY <1>4, <1>5, ShrinksOk
  <2>2. /\ <<kind, obj.rest>> \in Calls /\ Measure(<<kind, obj.rest>>) = 2 * Len(obj.rest) + 1
        /\ Len(obj.rest) \in Nat
    BY <2>1, IsCall, StringLen
  <2>3. Measure(<<kind, obj.rest>>) < Measure(<<kind, d>>)
    BY <1>1, <2>1, <2>2
  <2>4. g[<<kind, obj.rest>>] = h[<<kind, obj.rest>>] /\ Shrinks(more, obj.rest)
    BY <2>2, <2>3 DEF AgreeBelow
  <2>5. Len(obj.rest) <= Len(d)
    BY <1>1, <2>1, <2>2
  <2> QED BY <2>1, <2>4, <2>5, ShrinksMore
<1> QED BY <1>3, <1>4, <1>5 DEF obj

LEMMA LocalItems ==
  ASSUME NEW g, NEW h, NEW d \in Strings, AgreeBelow(g, h, <<"items", d>>)
  PROVE  ItemsBy(g, d) = ItemsBy(h, d) /\ Shrinks(ItemsBy(g, d), d)
<1> DEFINE obj == g[<<"object", d>>]
           more == g[<<"items", obj.rest>>]
<1>1. /\ g[<<"object", d>>] = h[<<"object", d>>] /\ Shrinks(obj, d)
      /\ obj.ok => g[<<"items", obj.rest>>] = h[<<"items", obj.rest>>] /\ Shrinks(more, d)
  <2>1. Len(d) <= Len(d) /\ "items" \in {"items", "pairs"}
    BY StringLen
  <2> QED BY <2>1, LocalMore
<1>2. CASE d = <<>>
  BY <1>2 DEF ItemsBy, Shrinks
<1>3. CASE d # <<>> /\ d[1] = E
  <2>1. Tail(d) \in Strings /\ Len(Tail(d)) < Len(d)
    BY <1>3, TailShorter
  <2>2. ItemsBy(g, d) = Parsed(<<>>, Tail(d)) /\ ItemsBy(h, d) = Parsed(<<>>, Tail(d))
    BY <1>3 DEF ItemsBy
  <2> QED BY <2>1, <2>2, ShrinksTo
<1>4. CASE d # <<>> /\ d[1] # E /\ ~obj.ok
  BY <1>1, <1>4 DEF ItemsBy, Shrinks
<1>5. CASE d # <<>> /\ d[1] # E /\ obj.ok
  <2>1. /\ ItemsBy(g, d) = IF more.ok THEN Parsed(<<obj.value>> \o more.value, more.rest) ELSE Fail
        /\ ItemsBy(h, d) = IF more.ok THEN Parsed(<<obj.value>> \o more.value, more.rest) ELSE Fail
    BY <1>1, <1>5 DEF ItemsBy
  <2>2. Shrinks(more, d)
    BY <1>1, <1>5
  <2> HIDE DEF more, obj
  <2>3. CASE more.ok
    BY <2>1, <2>2, <2>3, ShrinksOk, ShrinksTo
  <2>4. CASE ~more.ok
    BY <2>1, <2>4 DEF Shrinks
  <2> QED BY <2>3, <2>4
<1> QED BY <1>2, <1>3, <1>4, <1>5

LEMMA LocalPairs ==
  ASSUME NEW g, NEW h, NEW d \in Strings, AgreeBelow(g, h, <<"pairs", d>>)
  PROVE  PairsBy(g, d) = PairsBy(h, d) /\ Shrinks(PairsBy(g, d), d)
<1> DEFINE key == ParseString(d)
           obj == g[<<"object", key.rest>>]
           more == g[<<"pairs", obj.rest>>]
           pair == IF key.value \in KeysOf(more.value) THEN {} ELSE {<<key.value, obj.value>>}
<1>1. Shrinks(key, d)
  BY StringShrinks
<1>2. CASE d = <<>>
  BY <1>2 DEF PairsBy, Shrinks
<1>3. CASE d # <<>> /\ d[1] = E
  <2>1. Tail(d) \in Strings /\ Len(Tail(d)) < Len(d)
    BY <1>3, TailShorter
  <2>2. PairsBy(g, d) = Parsed({}, Tail(d)) /\ PairsBy(h, d) = Parsed({}, Tail(d))
    BY <1>3 DEF PairsBy
  <2> QED BY <2>1, <2>2, ShrinksTo
<1>4. CASE d # <<>> /\ d[1] # E /\ ~key.ok
  BY <1>4 DEF PairsBy, Shrinks
<1>5. CASE d # <<>> /\ d[1] # E /\ key.ok
  <2> HIDE DEF key
  <2>1. key.rest \in Strings /\ Len(key.rest) <= Len(d)
    BY <1>1, <1>5, ShrinksOk, StringLen
  <2>2. /\ g[<<"object", key.rest>>] = h[<<"object", key.rest>>] /\ Shrinks(obj, d)
        /\ obj.ok => g[<<"pairs", obj.rest>>] = h[<<"pairs", obj.rest>>] /\ Shrinks(more, d)
    <3>1. "pairs" \in {"items", "pairs"}
      OBVIOUS
    <3> QED BY <2>1, <3>1, LocalMore
  <2>3. CASE ~obj.ok
    BY <1>5, <2>2, <2>3 DEF PairsBy, Shrinks, key
  <2>4. CASE obj.ok
    <3>1. PairsBy(g, d) = IF more.ok THEN Parsed(more.value \cup pair, more.rest) ELSE Fail
      BY <1>5, <2>4 DEF PairsBy, key
    <3>2. PairsBy(h, d) = IF more.ok THEN Parsed(more.value \cup pair, more.rest) ELSE Fail
      BY <1>5, <2>2, <2>4 DEF PairsBy, key
    <3>3. Shrinks(more, d)
      BY <2>2, <2>4
    <3> HIDE DEF more, obj, pair
    <3>4. CASE more.ok
      BY <3>1, <3>2, <3>3, <3>4, ShrinksOk, ShrinksTo
    <3>5. CASE ~more.ok
      BY <3>1, <3>2, <3>5 DEF Shrinks
    <3> QED BY <3>4, <3>5
  <2> QED BY <2>3, <2>4
<1> QED BY <1>2, <1>3, <1>4, <1>5

LEMMA Local ==
  ASSUME NEW g, NEW h, NEW c \in Calls, AgreeBelow(g, h, c)
  PROVE  CallBy(g, c) = CallBy(h, c) /\ Shrinks(CallBy(g, c), c[2])
<1>1. PICK d : d = c[2]
  OBVIOUS
<1>2. d \in Strings /\ (c = <<"object", d>> \/ c = <<"items", d>> \/ c = <<"pairs", d>>)
  BY <1>1, CallIs
<1>3. ASSUME c = <<"object", d>> PROVE CallBy(g, c) = CallBy(h, c) /\ Shrinks(CallBy(g, c), d)
  <2>1. AgreeBelow(g, h, <<"object", d>>)
    BY <1>3
  <2>2. ObjectBy(g, d) = ObjectBy(h, d) /\ Shrinks(ObjectBy(g, d), d)
    BY <1>2, <2>1, LocalObject
  <2> QED BY <1>3, <2>2, Arms
<1>4. ASSUME c = <<"items", d>> PROVE CallBy(g, c) = CallBy(h, c) /\ Shrinks(CallBy(g, c), d)
  <2>1. AgreeBelow(g, h, <<"items", d>>)
    BY <1>4
  <2>2. ItemsBy(g, d) = ItemsBy(h, d) /\ Shrinks(ItemsBy(g, d), d)
    BY <1>2, <2>1, LocalItems
  <2> QED BY <1>4, <2>2, Arms
<1>5. ASSUME c = <<"pairs", d>> PROVE CallBy(g, c) = CallBy(h, c) /\ Shrinks(CallBy(g, c), d)
  <2>1. AgreeBelow(g, h, <<"pairs", d>>)
    BY <1>5
  <2>2. PairsBy(g, d) = PairsBy(h, d) /\ Shrinks(PairsBy(g, d), d)
    BY <1>2, <2>1, LocalPairs
  <2> QED BY <1>5, <2>2, Arms
<1> QED BY <1>1, <1>2, <1>3, <1>4, <1>5

(* g is the parser, up to a measure.                                       *)
ParserBelow(g, n) == \A c \in Calls : Measure(c) < n => g[c] = CallBy(g, c)

LEMMA ParserShrinks ==
  ASSUME NEW g, NEW n \in Nat, ParserBelow(g, n)
  PROVE  \A c \in Calls : Measure(c) < n => Shrinks(g[c], c[2])
<1> DEFINE P == {m \in Nat : m < n => \A c \in Calls : Measure(c) = m => Shrinks(g[c], c[2])}
<1>1. ASSUME NEW m \in Nat, \A l \in Nat : l < m => l \in P PROVE m \in P
  <2> SUFFICES ASSUME m < n, NEW c \in Calls, Measure(c) = m PROVE Shrinks(g[c], c[2])
    OBVIOUS
  <2>1. ASSUME NEW y \in Calls, Measure(y) < Measure(c) PROVE g[y] = g[y] /\ Shrinks(g[y], y[2])
    <3>1. Measure(y) \in Nat
      BY CallIs
    <3>2. Measure(y) < m /\ Measure(y) < n
      BY <2>1, <3>1
    <3>3. Measure(y) \in P
      BY <1>1, <3>1, <3>2
    <3> QED BY <3>2, <3>3
  <2>2. AgreeBelow(g, g, c)
    BY <2>1 DEF AgreeBelow
  <2>3. Shrinks(CallBy(g, c), c[2])
    BY <2>2, Local
  <2> QED BY <2>3 DEF ParserBelow
<1> HIDE DEF P
<1>2. \A m \in Nat : m \in P
  BY <1>1, Induction
<1> QED BY <1>2, CallIs DEF P

LEMMA ParserExists ==
  ASSUME NEW n \in Nat
  PROVE  \E g : ParserBelow(g, n)
<1> DEFINE P == {m \in Nat : \E g : ParserBelow(g, m)}
<1>1. ASSUME NEW m \in Nat, \A l \in Nat : l < m => l \in P PROVE m \in P
  <2>1. CASE m = 0
    <3>1. \A c \in Calls : ~(Measure(c) < 0)
      BY CallIs
    <3>2. ParserBelow(<<>>, m)
      BY <2>1, <3>1 DEF ParserBelow
    <3> QED BY <3>2
  <2>2. CASE m # 0
    <3>1. m - 1 \in Nat /\ m - 1 < m
      BY <2>2
    <3>2. PICK g : ParserBelow(g, m - 1)
      BY <1>1, <3>1
    <3>3. PICK h : h = [c \in Calls |-> CallBy(g, c)]
      OBVIOUS
    <3>4. ASSUME NEW c \in Calls, Measure(c) < m PROVE h[c] = CallBy(h, c)
      <4>1. ASSUME NEW y \in Calls, Measure(y) < Measure(c)
            PROVE  g[y] = h[y] /\ Shrinks(g[y], y[2])
        <5>1. Measure(y) \in Nat /\ Measure(c) \in Nat
          BY CallIs
        <5>2. Measure(y) < m - 1
          BY <3>4, <4>1, <5>1
        <5>3. Shrinks(g[y], y[2])
          BY <3>1, <3>2, <5>2, ParserShrinks
        <5> QED BY <3>2, <3>3, <5>2, <5>3 DEF ParserBelow
      <4>2. AgreeBelow(g, h, c)
        BY <4>1 DEF AgreeBelow
      <4>3. CallBy(g, c) = CallBy(h, c)
        BY <4>2, Local
      <4> QED BY <3>3, <4>3
    <3>5. ParserBelow(h, m)
      BY <3>4 DEF ParserBelow
    <3> QED BY <3>5
  <2> QED BY <2>1, <2>2
<1> HIDE DEF P
<1>2. n \in P
  BY <1>1, Induction
<1> QED BY <1>2 DEF P

LEMMA ParserUnique ==
  ASSUME NEW g, NEW h, NEW k \in Nat, NEW l \in Nat, ParserBelow(g, k), ParserBelow(h, l)
  PROVE  \A c \in Calls : Measure(c) < k /\ Measure(c) < l => g[c] = h[c]
<1> DEFINE P == {m \in Nat : m < k /\ m < l => \A c \in Calls : Measure(c) = m => g[c] = h[c]}
<1>1. ASSUME NEW m \in Nat, \A i \in Nat : i < m => i \in P PROVE m \in P
  <2> SUFFICES ASSUME m < k, m < l, NEW c \in Calls, Measure(c) = m PROVE g[c] = h[c]
    OBVIOUS
  <2>1. ASSUME NEW y \in Calls, Measure(y) < Measure(c) PROVE g[y] = h[y] /\ Shrinks(g[y], y[2])
    <3>1. Measure(y) \in Nat
      BY CallIs
    <3>2. Measure(y) < m /\ Measure(y) < k /\ Measure(y) < l
      BY <2>1, <3>1
    <3>3. Measure(y) \in P
      BY <1>1, <3>1, <3>2
    <3>4. Shrinks(g[y], y[2])
      BY <3>2, ParserShrinks
    <3> QED BY <3>2, <3>3, <3>4
  <2>2. AgreeBelow(g, h, c)
    BY <2>1 DEF AgreeBelow
  <2>3. CallBy(g, c) = CallBy(h, c)
    BY <2>2, Local
  <2> QED BY <2>3 DEF ParserBelow
<1> HIDE DEF P
<1>2. \A m \in Nat : m \in P
  BY <1>1, Induction
<1> QED BY <1>2, CallIs DEF P

LEMMA ParsingDef ==
  \A c \in Calls : Parsing[c] = CallBy(Parsing, c) /\ Shrinks(Parsing[c], c[2])
<1> DEFINE F(n) == CHOOSE g : ParserBelow(g, n)
           G == [c \in Calls |-> F(Measure(c) + 1)[c]]
<1>1. \A n \in Nat : ParserBelow(F(n), n)
  BY ParserExists
<1> HIDE DEF F
<1>2. ASSUME NEW c \in Calls PROVE G[c] = CallBy(G, c)
  <2>1. Measure(c) \in Nat /\ Measure(c) + 1 \in Nat /\ Measure(c) < Measure(c) + 1
    BY CallIs
  <2>2. PICK h : h = F(Measure(c) + 1)
    OBVIOUS
  <2>3. ParserBelow(h, Measure(c) + 1)
    BY <1>1, <2>1, <2>2
  <2>4. ASSUME NEW y \in Calls, Measure(y) < Measure(c)
        PROVE  h[y] = G[y] /\ Shrinks(h[y], y[2])
    <3>1. /\ Measure(y) \in Nat /\ Measure(y) + 1 \in Nat /\ Measure(y) < Measure(y) + 1
          /\ Measure(y) < Measure(c) + 1
      <4>1. Measure(y) \in Nat
        BY CallIs
      <4> QED BY <2>1, <2>4, <4>1
    <3>2. PICK i : i = F(Measure(y) + 1)
      OBVIOUS
    <3>3. ParserBelow(i, Measure(y) + 1)
      BY <1>1, <3>1, <3>2
    <3>4. h[y] = i[y]
      BY <2>1, <2>3, <3>1, <3>3, ParserUnique
    <3>5. Shrinks(h[y], y[2])
      BY <2>1, <2>3, <3>1, ParserShrinks
    <3> QED BY <3>2, <3>4, <3>5
  <2>5. AgreeBelow(h, G, c)
    <3> HIDE DEF G
    <3> QED BY <2>4 DEF AgreeBelow
  <2>6. CallBy(h, c) = CallBy(G, c)
    <3> HIDE DEF G
    <3> QED BY <2>5, Local
  <2>7. h[c] = CallBy(h, c)
    BY <2>1, <2>3 DEF ParserBelow
  <2> QED BY <2>2, <2>6, <2>7
<1> DEFINE Is(f) == f = [c \in Calls |-> CallBy(f, c)]
<1>3. Is(G)
  <2>1. G = [c \in Calls |-> G[c]]
    OBVIOUS
  <2> HIDE DEF G
  <2> QED BY <1>2, <2>1
<1>4. Is(CHOOSE f : Is(f))
  <2> HIDE DEF Is, G
  <2> QED BY <1>3
<1>5. Parsing = CHOOSE f : Is(f)
  BY DEF Parsing, CallBy
<1>6. Is(Parsing)
  <2> HIDE DEF Is
  <2> QED BY <1>4, <1>5
<1> HIDE DEF G
<1>7. ASSUME NEW c \in Calls PROVE Parsing[c] = CallBy(Parsing, c) /\ Shrinks(Parsing[c], c[2])
  <2>1. \A y \in Calls : Parsing[y] = CallBy(Parsing, y)
    BY <1>6
  <2>2. PICK n : n = Measure(c) + 1
    OBVIOUS
  <2>3. n \in Nat /\ Measure(c) < n
    BY <2>2, CallIs
  <2>4. ParserBelow(Parsing, n)
    BY <2>1 DEF ParserBelow
  <2> QED BY <2>1, <2>3, <2>4, ParserShrinks
<1> QED BY <1>7

LEMMA Parses ==
  ASSUME NEW d \in Strings
  PROVE  /\ ParseObject(d) = ObjectBy(Parsing, d) /\ Shrinks(ParseObject(d), d)
         /\ Parsing[<<"items", d>>] = ItemsBy(Parsing, d)
         /\ Parsing[<<"pairs", d>>] = PairsBy(Parsing, d)
<1>1. <<"object", d>> \in Calls /\ <<"items", d>> \in Calls /\ <<"pairs", d>> \in Calls
  BY IsCall
<1>2. <<"object", d>>[2] = d
  OBVIOUS
<1>3. Parsing[<<"object", d>>] = CallBy(Parsing, <<"object", d>>) /\ Shrinks(Parsing[<<"object", d>>], d)
  BY <1>1, <1>2, ParsingDef
<1> QED BY <1>1, <1>3, ParsingDef, Arms DEF ParseObject

-----------------------------------------------------------------------------
(* A function applied along a sequence.                                    *)

LEMMA MapSeq ==
  ASSUME NEW S, NEW T, NEW f, \A x \in S : f[x] \in T, NEW s \in Seq(S)
  PROVE  LET map == [k \in DOMAIN s |-> f[s[k]]]
             rest == [k \in DOMAIN Tail(s) |-> f[Tail(s)[k]]]
         IN /\ map \in Seq(T) /\ Len(map) = Len(s)
            /\ s = <<>> => map = <<>>
            /\ s # <<>> => /\ s[1] \in S /\ Tail(s) \in Seq(S) /\ Len(Tail(s)) = Len(s) - 1
                           /\ map # <<>> /\ map[1] = f[s[1]] /\ Tail(map) = rest
                           /\ map = <<f[s[1]]>> \o rest
<1> DEFINE n == Len(s)
           map == [k \in DOMAIN s |-> f[s[k]]]
           rest == [k \in DOMAIN Tail(s) |-> f[Tail(s)[k]]]
<1>1. n \in Nat /\ DOMAIN s = 1..n /\ \A k \in 1..n : s[k] \in S
  BY LenProperties, ElementOfSeq
<1>2. map \in Seq(T) /\ Len(map) = n /\ \A k \in 1..n : map[k] = f[s[k]]
  <2>1. map \in [1..n -> T]
    BY <1>1
  <2> QED BY <1>1, <2>1, IsASeq, LenProperties
<1>3. s = <<>> => map = <<>>
  <2>1. s = <<>> => n = 0
    OBVIOUS
  <2> HIDE DEF map
  <2> QED BY <1>2, <2>1, EmptySeq
<1>4. ASSUME s # <<>>
      PROVE  /\ s[1] \in S /\ Tail(s) \in Seq(S) /\ Len(Tail(s)) = n - 1
             /\ map # <<>> /\ map[1] = f[s[1]] /\ Tail(map) = rest
             /\ map = <<f[s[1]]>> \o rest
  <2>1. n > 0 /\ 1 \in 1..n
    BY <1>1, <1>4, EmptySeq
  <2>2. /\ Tail(s) \in Seq(S) /\ Len(Tail(s)) = n - 1
        /\ \A k \in 1..Len(Tail(s)) : Tail(s)[k] = s[k + 1]
    BY <1>4, HeadTailProperties
  <2>3. DOMAIN Tail(s) = 1..n - 1
    BY <2>2, LenProperties
  <2>4. /\ rest \in Seq(T) /\ Len(rest) = n - 1
        /\ \A k \in 1..n - 1 : rest[k] = f[s[k + 1]]
    <3>1. n - 1 \in Nat /\ \A k \in 1..n - 1 : Tail(s)[k] \in S /\ Tail(s)[k] = s[k + 1]
      BY <1>1, <2>1, <2>2, ElementOfSeq
    <3>2. rest \in [1..n - 1 -> T]
      BY <2>3, <3>1
    <3>3. rest \in Seq(T)
      BY <3>1, <3>2, IsASeq
    <3>4. Len(rest) = n - 1
      BY <3>1, <3>2, <3>3, LenProperties
    <3> QED BY <2>3, <3>1, <3>3, <3>4
  <2>5. map # <<>>
    <3> HIDE DEF map
    <3> QED BY <1>2, <2>1
  <2>6. map[1] = f[s[1]]
    BY <1>2, <2>1
  <2>7. /\ Tail(map) \in Seq(T) /\ Len(Tail(map)) = n - 1
        /\ \A k \in 1..n - 1 : Tail(map)[k] = map[k + 1]
    <3> HIDE DEF map
    <3> QED BY <1>2, <2>5, HeadTailProperties
  <2>8. Tail(map) = rest
    <3> HIDE DEF map, rest
    <3>1. \A k \in 1..n - 1 : k + 1 \in 1..n
      BY <1>1
    <3>2. \A k \in 1..n - 1 : Tail(map)[k] = rest[k]
      BY <1>2, <2>4, <2>7, <3>1
    <3> QED BY <2>4, <2>7, <3>2, SeqEqual
  <2>9. map = <<f[s[1]]>> \o rest
    <3> HIDE DEF map, rest
    <3>1. Head(map) = map[1] /\ map = <<Head(map)>> \o Tail(map)
      BY <1>2, <2>5, HeadTailProperties
    <3> QED BY <2>6, <2>8, <3>1
  <2> QED BY <1>1, <2>1, <2>2, <2>5, <2>6, <2>8, <2>9
<1> QED BY <1>1, <1>2, <1>3, <1>4

-----------------------------------------------------------------------------
(* Lists and dictionaries, from what they hold.                            *)

(* w is read as the object m, whatever comes behind it, and is not read if *)
(* it was cut short.                                                       *)
Good(w, m) ==
  /\ w \in Strings /\ w # <<>> /\ w[1] # E
  /\ \A t \in Strings : ParseObject(w \o t) = Parsed(m, t)
  /\ \A p : Cut(p, w) => ParseObject(p) = Fail

(* The same for what is left of a list or of a dictionary.                 *)
GoodRest(kind, w, m) ==
  /\ w \in Strings
  /\ \A t \in Strings : Parsing[<<kind, w \o t>>] = Parsed(m, t)
  /\ \A p : Cut(p, w) => Parsing[<<kind, p>>] = Fail

LEMMA CutOfOne ==
  ASSUME NEW s \in Strings, Len(s) = 1, NEW p, Cut(p, s)
  PROVE  p = <<>>
<1>1. p \in Strings /\ Len(p) \in Nat /\ Len(p) < 1
  BY CutFacts
<1> QED BY <1>1, StringLen

LEMMA RestEnds ==
  /\ GoodRest("items", <<E>>, <<>>)
  /\ GoodRest("pairs", <<E>>, {})
<1>1. <<E>> \in Strings /\ <<>> \in Strings
  BY NoDigits, OneByte
<1>2. ASSUME NEW t \in Strings
      PROVE  /\ Parsing[<<"items", <<E>> \o t>>] = Parsed(<<>>, t)
             /\ Parsing[<<"pairs", <<E>> \o t>>] = Parsed({}, t)
  <2> DEFINE d == <<E>> \o t
  <2>1. d \in Strings /\ d # <<>> /\ d[1] = E /\ Tail(d) = t
    BY NoDigits, FirstByteOf
  <2> HIDE DEF d
  <2>2. Parsing[<<"items", d>>] = Parsed(<<>>, t) /\ Parsing[<<"pairs", d>>] = Parsed({}, t)
    BY <2>1, Parses DEF ItemsBy, PairsBy
  <2> QED BY <2>2 DEF d
<1>3. ASSUME NEW p, Cut(p, <<E>>)
      PROVE  Parsing[<<"items", p>>] = Fail /\ Parsing[<<"pairs", p>>] = Fail
  <2>1. p = <<>>
    BY <1>3, NoDigits, OneByte, CutOfOne
  <2> QED BY <1>1, <2>1, Parses DEF ItemsBy, PairsBy
<1> QED BY <1>1, <1>2, <1>3 DEF GoodRest

(* The first bytes are those of w.                                         *)
LEMMA SameFirst ==
  ASSUME NEW w \in Strings, w # <<>>, NEW t \in Strings
  PROVE  w \o t \in Strings /\ w \o t # <<>> /\ (w \o t)[1] = w[1]
<1> DEFINE d == w \o t
<1>1. Len(w) \in Nat /\ Len(w) > 0 /\ Len(t) \in Nat
  BY StringLen
<1>2. d \in Strings /\ Len(d) = Len(w) + Len(t) /\ \A k \in 1..Len(w) : d[k] = w[k]
  BY Joined
<1> HIDE DEF d
<1>3. 1 \in 1..Len(w) /\ Len(d) > 0
  BY <1>1, <1>2
<1>4. d # <<>> /\ d[1] = w[1]
  BY <1>2, <1>3, StringLen
<1> QED BY <1>2, <1>4 DEF d

LEMMA CutFirst ==
  ASSUME NEW w \in Strings, NEW p, Cut(p, w), p # <<>>
  PROVE  p \in Strings /\ p[1] = w[1]
<1>1. p \in Strings /\ Len(p) \in Nat /\ \A k \in 1..Len(p) : p[k] = w[k]
  BY CutFacts
<1>2. 1 \in 1..Len(p)
  BY <1>1, StringLen
<1> QED BY <1>1, <1>2

LEMMA ItemsStep ==
  ASSUME NEW w, NEW m, Good(w, m), NEW u, NEW ms, GoodRest("items", u, ms)
  PROVE  GoodRest("items", w \o u, <<m>> \o ms)
<1>1. w \in Strings /\ w # <<>> /\ w[1] # E /\ u \in Strings /\ w \o u \in Strings
  BY Joined DEF Good, GoodRest
<1>2. ASSUME NEW t \in Strings
      PROVE  Parsing[<<"items", (w \o u) \o t>>] = Parsed(<<m>> \o ms, t)
  <2> DEFINE d == w \o (u \o t)
             obj == Parsing[<<"object", d>>]
             more == Parsing[<<"items", obj.rest>>]
  <2>1. (w \o u) \o t = d /\ u \o t \in Strings
    <3>1. (w \o u) \o t = d
      BY <1>1, JoinedTwice
    <3>2. u \o t \in Strings
      BY <1>1, Joined
    <3> QED BY <3>1, <3>2
  <2>2. d \in Strings /\ d # <<>> /\ d[1] # E
    BY <1>1, <2>1, SameFirst
  <2>3. obj = Parsed(m, u \o t)
    BY <2>1 DEF Good, ParseObject
  <2> HIDE DEF d
  <2>4. ItemsBy(Parsing, d) =
          IF obj.ok /\ more.ok THEN Parsed(<<obj.value>> \o more.value, more.rest) ELSE Fail
    BY <2>2 DEF ItemsBy
  <2> HIDE DEF obj
  <2>5. obj.ok /\ obj.value = m /\ obj.rest = u \o t
    BY <2>3, Outcomes
  <2>6. more = Parsed(ms, t)
    BY <2>5 DEF GoodRest
  <2> HIDE DEF more
  <2>7. more.ok /\ more.value = ms /\ more.rest = t
    BY <2>6, Outcomes
  <2>8. Parsing[<<"items", d>>] = Parsed(<<m>> \o ms, t)
    BY <2>2, <2>4, <2>5, <2>7, Parses
  <2> QED BY <2>1, <2>8
<1>3. ASSUME NEW p, Cut(p, w \o u) PROVE Parsing[<<"items", p>>] = Fail
  <2> DEFINE obj == Parsing[<<"object", p>>]
             more == Parsing[<<"items", obj.rest>>]
  <2>1. p \in Strings
    BY <1>3 DEF Cut
  <2>2. CASE p = <<>>
    BY <2>1, <2>2, Parses DEF ItemsBy
  <2>3. CASE p # <<>>
    <3>1. p[1] # E
      BY <1>1, <1>3, <2>3, CutFirst, SameFirst
    <3>2. Parsing[<<"items", p>>] =
            IF obj.ok /\ more.ok THEN Parsed(<<obj.value>> \o more.value, more.rest) ELSE Fail
      BY <2>1, <2>3, <3>1, Parses DEF ItemsBy
    <3> HIDE DEF more
    <3>3. CASE Cut(p, w)
      <4>1. obj = Fail
        BY <3>3 DEF Good, ParseObject
      <4> HIDE DEF obj
      <4> QED BY <3>2, <4>1, Outcomes
    <3>4. CASE \E q : Cut(q, u) /\ p = w \o q
      <4>1. PICK q : Cut(q, u) /\ p = w \o q
        BY <3>4
      <4>2. obj = Parsed(m, q)
        BY <4>1 DEF Good, Cut, ParseObject
      <4> HIDE DEF obj
      <4>3. obj.rest = q
        BY <4>2, Outcomes
      <4>4. more = Fail
        BY <4>1, <4>3 DEF GoodRest, more
      <4> QED BY <3>2, <4>4, Outcomes
    <3> QED BY <1>1, <1>3, <3>3, <3>4, CutOfTwo
  <2> QED BY <2>2, <2>3
<1> QED BY <1>1, <1>2, <1>3 DEF GoodRest

LEMMA ItemsGood ==
  ASSUME NEW V, NEW enc, NEW mean, \A v \in V : Good(enc[v], mean[v]), NEW vs \in Seq(V)
  PROVE  GoodRest("items", FlattenSeq([k \in DOMAIN vs |-> enc[vs[k]]]) \o <<E>>,
                  [k \in DOMAIN vs |-> mean[vs[k]]])
<1> DEFINE Encs(s) == [k \in DOMAIN s |-> enc[s[k]]]
           Means(s) == [k \in DOMAIN s |-> mean[s[k]]]
           P == {n \in Nat : \A s \in Seq(V) : Len(s) = n =>
                               GoodRest("items", FlattenSeq(Encs(s)) \o <<E>>, Means(s))}
           M == {mean[v] : v \in V}
<1>0. <<E>> \in Strings
  BY NoDigits, OneByte
<1>1. ASSUME NEW n \in Nat, \A l \in Nat : l < n => l \in P PROVE n \in P
  <2> SUFFICES ASSUME NEW s \in Seq(V), Len(s) = n
               PROVE  GoodRest("items", FlattenSeq(Encs(s)) \o <<E>>, Means(s))
    OBVIOUS
  <2>1. /\ Encs(s) \in Seq(Strings)
        /\ s = <<>> => Encs(s) = <<>>
        /\ s # <<>> => /\ s[1] \in V /\ Tail(s) \in Seq(V) /\ Len(Tail(s)) = Len(s) - 1
                       /\ Encs(s) # <<>> /\ Encs(s)[1] = enc[s[1]] /\ Tail(Encs(s)) = Encs(Tail(s))
    <3>1. \A v \in V : enc[v] \in Strings
      BY DEF Good
    <3> QED BY <3>1, MapSeq
  <2>2. /\ s = <<>> => Means(s) = <<>>
        /\ s # <<>> => Means(s) = <<mean[s[1]]>> \o Means(Tail(s))
    <3>1. \A v \in V : mean[v] \in M
      OBVIOUS
    <3> QED BY <3>1, MapSeq
  <2> HIDE DEF Encs, Means
  <2>3. CASE s = <<>>
    <3>1. FlattenSeq(Encs(s)) \o <<E>> = <<E>>
      BY <1>0, <2>1, <2>3, Flat, JoinedNothing
    <3> QED BY <2>2, <2>3, <3>1, RestEnds
  <2>4. CASE s # <<>>
    <3> DEFINE rest == FlattenSeq(Encs(Tail(s)))
    <3>1. rest \in Strings /\ enc[s[1]] \in Strings /\ FlattenSeq(Encs(s)) = enc[s[1]] \o rest
      BY <2>1, <2>4, Flat
    <3> HIDE DEF rest
    <3>2. FlattenSeq(Encs(s)) \o <<E>> = enc[s[1]] \o (rest \o <<E>>)
      <4>1. (enc[s[1]] \o rest) \o <<E>> = enc[s[1]] \o (rest \o <<E>>)
        BY <1>0, <3>1, JoinedTwice
      <4> QED BY <3>1, <4>1
    <3>3. GoodRest("items", rest \o <<E>>, Means(Tail(s)))
      <4>1. n - 1 \in Nat /\ n - 1 < n /\ Len(Tail(s)) = n - 1
        <5>1. n > 0
          BY <2>4, EmptySeq
        <5> QED BY <2>1, <2>4, <5>1
      <4>2. n - 1 \in P
        BY <1>1, <4>1
      <4> QED BY <2>1, <2>4, <4>1, <4>2 DEF rest
    <3>4. Good(enc[s[1]], mean[s[1]])
      BY <2>1, <2>4
    <3> QED BY <2>2, <2>4, <3>2, <3>3, <3>4, ItemsStep
  <2> QED BY <2>3, <2>4
<1> HIDE DEF P
<1>2. \A n \in Nat : n \in P
  BY <1>1, Induction
<1>3. Len(vs) \in Nat
  BY LenProperties
<1> QED BY <1>2, <1>3 DEF P

(* A pair, if there is none of its key.                                    *)
NewPair(keys, key, value) == IF key \in keys THEN {} ELSE {<<key, value>>}

LEMMA PairsStep ==
  ASSUME NEW key \in Strings, NEW w, NEW m, Good(w, m), NEW u, NEW dict, GoodRest("pairs", u, dict)
  PROVE  GoodRest("pairs", (EncodeString(key) \o w) \o u,
                  dict \cup NewPair(KeysOf(dict), key, m))
<1> DEFINE e == EncodeString(key)
           new == NewPair(KeysOf(dict), key, m)
<1>1. /\ e \in Strings /\ e # <<>> /\ e[1] # E /\ w \in Strings /\ u \in Strings
      /\ e \o w \in Strings /\ w \o u \in Strings /\ (e \o w) \o u = e \o (w \o u)
  <2>1. e \in Strings /\ Len(e) > 0 /\ e[1] \in Digits
    <3> DEFINE n == Len(Decimal[Len(key)])
    <3>1. /\ e \in Strings /\ n \in Nat /\ n > 0 /\ Len(e) = n + 1 + Len(key) /\ Len(key) \in Nat
          /\ \A k \in 1..n : e[k] \in Digits
      BY EncodedString
    <3> HIDE DEF n, e
    <3>2. 1 \in 1..n /\ Len(e) > 0
      BY <3>1
    <3> QED BY <3>1, <3>2
  <2>2. w \in Strings /\ u \in Strings
    BY DEF Good, GoodRest
  <2> HIDE DEF e
  <2>3. e # <<>> /\ e[1] # E
    BY <2>1, StringLen, NoDigits
  <2>4. (e \o w) \o u = e \o (w \o u)
    BY <2>1, <2>2, JoinedTwice
  <2> QED BY <2>1, <2>2, <2>3, <2>4, Joined
<1>2. ASSUME NEW t \in Strings PROVE ParseString(e \o t) = Parsed(key, t)
  BY StringParsed
<1>3. ASSUME NEW p, Cut(p, e) PROVE ParseString(p) = Fail
  BY <1>3, StringCut
<1> HIDE DEF e
<1>4. ASSUME NEW t \in Strings
      PROVE  Parsing[<<"pairs", ((e \o w) \o u) \o t>>] = Parsed(dict \cup new, t)
  <2> DEFINE d == e \o (w \o (u \o t))
             name == ParseString(d)
             obj == Parsing[<<"object", name.rest>>]
             more == Parsing[<<"pairs", obj.rest>>]
             pair == NewPair(KeysOf(more.value), name.value, obj.value)
  <2>1. ((e \o w) \o u) \o t = d /\ u \o t \in Strings /\ w \o (u \o t) \in Strings
    <3>1. (e \o (w \o u)) \o t = e \o ((w \o u) \o t) /\ (w \o u) \o t = w \o (u \o t)
      <4>1. (e \o (w \o u)) \o t = e \o ((w \o u) \o t)
        <5>1. PICK x \in Strings : x = w \o u
          BY <1>1
        <5>2. e \in Strings
          BY <1>1
        <5>3. (e \o x) \o t = e \o (x \o t)
          BY <5>2, JoinedTwice
        <5> QED BY <5>1, <5>3
      <4>2. (w \o u) \o t = w \o (u \o t)
        BY <1>1, JoinedTwice
      <4> QED BY <4>1, <4>2
    <3>2. u \o t \in Strings
      BY <1>1, Joined
    <3>3. w \o (u \o t) \in Strings
      BY <1>1, <3>2, Joined
    <3> QED BY <1>1, <3>1, <3>2, <3>3
  <2>2. d \in Strings /\ d # <<>> /\ d[1] # E
    BY <1>1, <2>1, SameFirst
  <2>3. name = Parsed(key, w \o (u \o t))
    BY <1>2, <2>1
  <2> HIDE DEF d
  <2>4. PairsBy(Parsing, d) =
          IF name.ok /\ obj.ok /\ more.ok THEN Parsed(more.value \cup pair, more.rest) ELSE Fail
    BY <2>2 DEF PairsBy, NewPair
  <2> HIDE DEF name
  <2>5. name.ok /\ name.value = key /\ name.rest = w \o (u \o t)
    BY <2>3, Outcomes
  <2>6. obj = Parsed(m, u \o t)
    BY <2>1, <2>5 DEF Good, ParseObject
  <2> HIDE DEF obj
  <2>7. obj.ok /\ obj.value = m /\ obj.rest = u \o t
    BY <2>6, Outcomes
  <2>8. more = Parsed(dict, t)
    BY <2>7 DEF GoodRest
  <2> HIDE DEF more
  <2>9. more.ok /\ more.value = dict /\ more.rest = t
    BY <2>8, Outcomes
  <2>10. Parsing[<<"pairs", d>>] = Parsed(dict \cup new, t)
    BY <2>2, <2>4, <2>5, <2>7, <2>9, Parses
  <2> QED BY <2>1, <2>10
<1>5. ASSUME NEW p, Cut(p, (e \o w) \o u) PROVE Parsing[<<"pairs", p>>] = Fail
  <2> DEFINE name == ParseString(p)
             obj == Parsing[<<"object", name.rest>>]
             more == Parsing[<<"pairs", obj.rest>>]
             pair == NewPair(KeysOf(more.value), name.value, obj.value)
  <2>1. p \in Strings /\ Cut(p, e \o (w \o u))
    BY <1>1, <1>5 DEF Cut
  <2>2. CASE p = <<>>
    BY <2>1, <2>2, Parses DEF PairsBy
  <2>3. CASE p # <<>>
    <3>1. p[1] # E
      <4>1. e \o (w \o u) \in Strings /\ (e \o (w \o u))[1] = e[1]
        BY <1>1, SameFirst
      <4>2. p[1] = (e \o (w \o u))[1]
        BY <2>1, <2>3, <4>1, CutFirst
      <4> QED BY <1>1, <4>1, <4>2
    <3>2. Parsing[<<"pairs", p>>] =
            IF name.ok /\ obj.ok /\ more.ok THEN Parsed(more.value \cup pair, more.rest) ELSE Fail
      BY <2>1, <2>3, <3>1, Parses DEF PairsBy, NewPair
    <3>3. CASE Cut(p, e)
      <4>1. name = Fail
        BY <1>3, <3>3
      <4> HIDE DEF name
      <4>2. ~name.ok
        BY <4>1, Outcomes
      <4> QED BY <3>2, <4>2
    <3>4. CASE \E q : Cut(q, w \o u) /\ p = e \o q
      <4>1. PICK q : Cut(q, w \o u) /\ p = e \o q
        BY <3>4
      <4>2. name.rest = q
        <5>1. name = Parsed(key, q)
          BY <1>2, <4>1 DEF Cut
        <5> HIDE DEF name
        <5> QED BY <5>1, Outcomes
      <4> HIDE DEF name
      <4>3. CASE Cut(q, w)
        <5>1. obj = Fail
          BY <4>2, <4>3 DEF Good, ParseObject
        <5> HIDE DEF obj
        <5>2. ~obj.ok
          BY <5>1, Outcomes
        <5> QED BY <3>2, <5>2
      <4>4. CASE \E r : Cut(r, u) /\ q = w \o r
        <5>1. PICK r : Cut(r, u) /\ q = w \o r
          BY <4>4
        <5>2. obj = Parsed(m, r)
          BY <4>2, <5>1 DEF Good, Cut, ParseObject
        <5> HIDE DEF obj
        <5>3. obj.rest = r
          BY <5>2, Outcomes
        <5>4. more = Fail
          BY <5>1, <5>3 DEF GoodRest
        <5> HIDE DEF more
        <5>5. ~more.ok
          BY <5>4, Outcomes
        <5> QED BY <3>2, <5>5
      <4>5. Cut(q, w) \/ \E r : Cut(r, u) /\ q = w \o r
        <5>1. w \in Strings /\ u \in Strings
          BY <1>1
        <5> QED BY <4>1, <5>1, CutOfTwo
      <4> QED BY <4>3, <4>4, <4>5
    <3>5. Cut(p, e) \/ \E q : Cut(q, w \o u) /\ p = e \o q
      BY <1>1, <2>1, CutOfTwo
    <3> QED BY <3>3, <3>4, <3>5
  <2> QED BY <2>2, <2>3
<1>6. (e \o w) \o u \in Strings
  BY <1>1, Joined
<1> QED BY <1>4, <1>5, <1>6 DEF GoodRest, e

LEMMA PairsLen ==
  ASSUME NEW V, NEW pairs \in Seq(Strings \X V)
  PROVE  /\ Len(pairs) \in Nat /\ DOMAIN pairs = 1..Len(pairs)
         /\ pairs # <<>> => Len(pairs) > 0
         /\ pairs = <<>> => Len(pairs) = 0
         /\ \A k \in 1..Len(pairs) : /\ pairs[k] = <<pairs[k][1], pairs[k][2]>>
                                     /\ pairs[k][1] \in Strings /\ pairs[k][2] \in V
<1>1. Len(pairs) \in Nat /\ DOMAIN pairs = 1..Len(pairs)
  BY LenProperties
<1>2. ASSUME NEW k \in 1..Len(pairs)
      PROVE  /\ pairs[k] = <<pairs[k][1], pairs[k][2]>>
             /\ pairs[k][1] \in Strings /\ pairs[k][2] \in V
  <2>1. pairs[k] \in Strings \X V
    BY ElementOfSeq
  <2> QED BY <2>1
<1>3. pairs # <<>> => Len(pairs) > 0
  BY <1>1, EmptySeq
<1>4. pairs = <<>> => Len(pairs) = 0
  OBVIOUS
<1> QED BY <1>1, <1>2, <1>3, <1>4

LEMMA LastPairsNone ==
  ASSUME NEW mean
  PROVE  LastPairs(<<>>, mean) = {} /\ Keys(<<>>) = {}
BY DEF LastPairs, Keys

LEMMA LastPairsStep ==
  ASSUME NEW S, NEW mean, NEW pairs \in Seq(S), pairs # <<>>
  PROVE  /\ LastPairs(pairs, mean) =
              LastPairs(Tail(pairs), mean)
                \cup NewPair(Keys(Tail(pairs)), pairs[1][1], mean[pairs[1][2]])
         /\ Keys(pairs) = Keys(Tail(pairs)) \cup {pairs[1][1]}
<1> DEFINE n == Len(pairs)
           rest == Tail(pairs)
           key == pairs[1][1]
           pair == <<key, mean[pairs[1][2]]>>
<1>1. n \in Nat /\ n > 0 /\ DOMAIN pairs = 1..n
  BY LenProperties, EmptySeq
<1>2. /\ rest \in Seq(S) /\ Len(rest) = n - 1
      /\ \A k \in 1..Len(rest) : rest[k] = pairs[k + 1]
  BY HeadTailProperties
<1>3. DOMAIN rest = 1..n - 1 /\ \A k \in 1..n - 1 : rest[k] = pairs[k + 1]
  BY <1>2, LenProperties
<1> HIDE DEF rest, n
<1>4. \A k \in 1..n : k = 1 \/ (k - 1 \in 1..n - 1 /\ (k - 1) + 1 = k)
  BY <1>1
<1>5. \A k \in 1..n - 1 : k + 1 \in 1..n /\ k + 1 # 1
  BY <1>1
<1>6. 1 \in 1..n
  BY <1>1
<1>7. ASSUME NEW k \in 1..n - 1 PROVE LastOfKey(pairs, k + 1) <=> LastOfKey(rest, k)
  <2>1. ASSUME LastOfKey(pairs, k + 1), NEW j \in 1..n - 1, rest[j][1] = rest[k][1]
        PROVE  j <= k
    <3>1. pairs[j + 1][1] = pairs[k + 1][1] /\ j + 1 \in 1..n
      BY <1>3, <1>5, <2>1
    <3>2. j + 1 <= k + 1
      BY <1>1, <2>1, <3>1 DEF LastOfKey
    <3> QED BY <1>1, <3>2
  <2>2. ASSUME LastOfKey(rest, k), NEW j \in 1..n, pairs[j][1] = pairs[k + 1][1]
        PROVE  j <= k + 1
    <3>1. CASE j = 1
      BY <1>1, <3>1
    <3>2. CASE j # 1
      <4>1. j - 1 \in 1..n - 1 /\ (j - 1) + 1 = j
        BY <1>4, <3>2
      <4>2. rest[j - 1] = pairs[j] /\ rest[k] = pairs[k + 1]
        BY <1>3, <4>1
      <4>3. j - 1 <= k
        BY <1>3, <2>2, <4>1, <4>2 DEF LastOfKey
      <4> QED BY <1>1, <4>1, <4>3
    <3> QED BY <3>1, <3>2
  <2>3. LastOfKey(pairs, k + 1) => LastOfKey(rest, k)
    BY <1>3, <2>1 DEF LastOfKey
  <2>4. LastOfKey(rest, k) => LastOfKey(pairs, k + 1)
    BY <1>1, <2>2 DEF LastOfKey
  <2> QED BY <2>3, <2>4
<1>8. LastOfKey(pairs, 1) <=> key \notin Keys(rest)
  <2>1. ASSUME LastOfKey(pairs, 1), key \in Keys(rest) PROVE FALSE
    <3>1. PICK k \in 1..n - 1 : rest[k][1] = key
      BY <1>3, <2>1 DEF Keys
    <3>2. k + 1 \in 1..n /\ pairs[k + 1][1] = pairs[1][1]
      BY <1>3, <1>5, <3>1
    <3>3. k + 1 <= 1
      BY <1>1, <2>1, <3>2 DEF LastOfKey
    <3> QED BY <1>1, <3>3
  <2>2. ASSUME key \notin Keys(rest), NEW j \in 1..n, pairs[j][1] = pairs[1][1] PROVE j <= 1
    <3>1. CASE j = 1
      BY <3>1
    <3>2. CASE j # 1
      <4>1. j - 1 \in 1..n - 1 /\ (j - 1) + 1 = j
        BY <1>4, <3>2
      <4>2. rest[j - 1][1] = key
        BY <1>3, <2>2, <4>1
      <4>3. key \in Keys(rest)
        BY <1>3, <4>1, <4>2 DEF Keys
      <4> QED BY <2>2, <4>3
    <3> QED BY <3>1, <3>2
  <2>3. key \notin Keys(rest) => LastOfKey(pairs, 1)
    BY <1>1, <2>2 DEF LastOfKey
  <2> QED BY <2>1, <2>3
<1>9. Keys(pairs) = Keys(rest) \cup {key}
  <2>1. ASSUME NEW x \in Keys(pairs) PROVE x \in Keys(rest) \cup {key}
    <3>1. PICK k \in 1..n : x = pairs[k][1]
      BY <1>1 DEF Keys
    <3>2. CASE k = 1
      BY <3>1, <3>2
    <3>3. CASE k # 1
      <4>1. k - 1 \in 1..n - 1 /\ rest[k - 1][1] = x
        BY <1>3, <1>4, <3>1, <3>3
      <4> QED BY <1>3, <4>1 DEF Keys
    <3> QED BY <3>2, <3>3
  <2>2. ASSUME NEW x \in Keys(rest) \cup {key} PROVE x \in Keys(pairs)
    <3>1. CASE x = key
      BY <1>1, <1>6, <3>1 DEF Keys
    <3>2. CASE x \in Keys(rest)
      <4>1. PICK k \in 1..n - 1 : x = rest[k][1]
        BY <1>3, <3>2 DEF Keys
      <4>2. k + 1 \in 1..n /\ x = pairs[k + 1][1]
        BY <1>3, <1>5, <4>1
      <4> QED BY <1>1, <4>2 DEF Keys
    <3> QED BY <2>2, <3>1, <3>2
  <2> QED BY <2>1, <2>2
<1>10. LastPairs(pairs, mean) =
         LastPairs(rest, mean) \cup (IF key \in Keys(rest) THEN {} ELSE {pair})
  <2>1. ASSUME NEW x \in LastPairs(pairs, mean)
        PROVE  x \in LastPairs(rest, mean) \/ (key \notin Keys(rest) /\ x = pair)
    <3>1. PICK k \in 1..n : LastOfKey(pairs, k) /\ x = <<pairs[k][1], mean[pairs[k][2]]>>
      BY <1>1 DEF LastPairs
    <3>2. CASE k = 1
      BY <1>8, <3>1, <3>2
    <3>3. CASE k # 1
      <4>1. k - 1 \in 1..n - 1 /\ rest[k - 1] = pairs[k] /\ LastOfKey(rest, k - 1)
        BY <1>3, <1>4, <1>7, <3>1, <3>3
      <4>2. x = <<rest[k - 1][1], mean[rest[k - 1][2]]>>
        BY <3>1, <4>1
      <4> QED BY <1>3, <4>1, <4>2 DEF LastPairs
    <3> QED BY <3>2, <3>3
  <2>2. ASSUME NEW x \in LastPairs(rest, mean) PROVE x \in LastPairs(pairs, mean)
    <3>1. PICK k \in 1..n - 1 : LastOfKey(rest, k) /\ x = <<rest[k][1], mean[rest[k][2]]>>
      BY <1>3 DEF LastPairs
    <3>2. k + 1 \in 1..n /\ LastOfKey(pairs, k + 1) /\ rest[k] = pairs[k + 1]
      BY <1>3, <1>5, <1>7, <3>1
    <3>3. x = <<pairs[k + 1][1], mean[pairs[k + 1][2]]>>
      BY <3>1, <3>2
    <3> QED BY <1>1, <3>2, <3>3 DEF LastPairs
  <2>3. ASSUME key \notin Keys(rest) PROVE pair \in LastPairs(pairs, mean)
    BY <1>1, <1>6, <1>8, <2>3 DEF LastPairs
  <2> QED BY <2>1, <2>2, <2>3
<1> QED BY <1>9, <1>10 DEF rest, NewPair

LEMMA KeysOfMore ==
  ASSUME NEW dict, NEW key, NEW value
  PROVE  KeysOf(dict \cup NewPair(KeysOf(dict), key, value)) = KeysOf(dict) \cup {key}
<1> DEFINE more == dict \cup NewPair(KeysOf(dict), key, value)
<1>1. ASSUME NEW x \in KeysOf(more) PROVE x \in KeysOf(dict) \cup {key}
  <2>1. PICK pair \in more : x = pair[1]
    BY DEF KeysOf
  <2>2. pair \in dict \/ pair = <<key, value>>
    BY DEF NewPair
  <2>3. <<key, value>>[1] = key
    OBVIOUS
  <2>4. pair \in dict => x \in KeysOf(dict)
    BY <2>1 DEF KeysOf
  <2> QED BY <2>1, <2>2, <2>3, <2>4
<1>2. ASSUME NEW x \in KeysOf(dict) PROVE x \in KeysOf(more)
  BY DEF KeysOf
<1>3. key \in KeysOf(more)
  <2>1. CASE key \in KeysOf(dict)
    BY <1>2, <2>1
  <2>2. CASE key \notin KeysOf(dict)
    <3>1. <<key, value>> \in more /\ <<key, value>>[1] = key
      BY <2>2 DEF NewPair
    <3> HIDE DEF more
    <3> QED BY <3>1 DEF KeysOf
  <2> QED BY <2>1, <2>2
<1> QED BY <1>1, <1>2, <1>3

LEMMA PairsGood ==
  ASSUME NEW V, NEW enc, NEW mean, \A v \in V : Good(enc[v], mean[v]),
         NEW pairs \in Seq(Strings \X V)
  PROVE  /\ GoodRest("pairs",
                     FlattenSeq([k \in DOMAIN pairs |-> EncodeString(pairs[k][1]) \o enc[pairs[k][2]]])
                       \o <<E>>,
                     LastPairs(pairs, mean))
         /\ KeysOf(LastPairs(pairs, mean)) = Keys(pairs)
<1> DEFINE S == Strings \X V
           write == [p \in S |-> EncodeString(p[1]) \o enc[p[2]]]
           Encs(s) == [k \in DOMAIN s |-> write[s[k]]]
           P == {n \in Nat : \A s \in Seq(S) : Len(s) = n =>
                   /\ GoodRest("pairs", FlattenSeq(Encs(s)) \o <<E>>, LastPairs(s, mean))
                   /\ KeysOf(LastPairs(s, mean)) = Keys(s)}
<1>0. <<E>> \in Strings
  BY NoDigits, OneByte
<1>1. ASSUME NEW p \in S
      PROVE  /\ p[1] \in Strings /\ p[2] \in V /\ write[p] \in Strings
             /\ write[p] = EncodeString(p[1]) \o enc[p[2]]
  <2>1. p[1] \in Strings /\ p[2] \in V /\ write[p] = EncodeString(p[1]) \o enc[p[2]]
    OBVIOUS
  <2>2. EncodeString(p[1]) \in Strings /\ enc[p[2]] \in Strings
    BY <2>1, EncodedString DEF Good
  <2> QED BY <2>1, <2>2, Joined
<1>2. ASSUME NEW n \in Nat, \A l \in Nat : l < n => l \in P PROVE n \in P
  <2> SUFFICES ASSUME NEW s \in Seq(S), Len(s) = n
               PROVE  /\ GoodRest("pairs", FlattenSeq(Encs(s)) \o <<E>>, LastPairs(s, mean))
                      /\ KeysOf(LastPairs(s, mean)) = Keys(s)
    OBVIOUS
  <2>1. /\ Encs(s) \in Seq(Strings)
        /\ s = <<>> => Encs(s) = <<>>
        /\ s # <<>> => /\ s[1] \in S /\ Tail(s) \in Seq(S) /\ Len(Tail(s)) = Len(s) - 1
                       /\ Encs(s) # <<>> /\ Encs(s)[1] = write[s[1]] /\ Tail(Encs(s)) = Encs(Tail(s))
    <3>1. \A p \in S : write[p] \in Strings
      BY <1>1
    <3> HIDE DEF write
    <3> QED BY <3>1, MapSeq
  <2> HIDE DEF Encs, write
  <2>2. CASE s = <<>>
    <3>1. FlattenSeq(Encs(s)) \o <<E>> = <<E>>
      BY <1>0, <2>1, <2>2, Flat, JoinedNothing
    <3> QED BY <2>2, <3>1, RestEnds, LastPairsNone DEF KeysOf
  <2>3. CASE s # <<>>
    <3> DEFINE rest == FlattenSeq(Encs(Tail(s)))
               key == s[1][1]
               v == s[1][2]
    <3>1. rest \in Strings /\ write[s[1]] \in Strings /\ FlattenSeq(Encs(s)) = write[s[1]] \o rest
      BY <2>1, <2>3, Flat
    <3>2. FlattenSeq(Encs(s)) \o <<E>> = write[s[1]] \o (rest \o <<E>>)
      <4> HIDE DEF rest
      <4>1. (write[s[1]] \o rest) \o <<E>> = write[s[1]] \o (rest \o <<E>>)
        BY <1>0, <3>1, JoinedTwice
      <4> QED BY <3>1, <4>1
    <3>3. /\ GoodRest("pairs", rest \o <<E>>, LastPairs(Tail(s), mean))
          /\ KeysOf(LastPairs(Tail(s), mean)) = Keys(Tail(s))
      <4>1. n - 1 \in Nat /\ n - 1 < n /\ Len(Tail(s)) = n - 1
        <5>1. n > 0
          BY <2>3, EmptySeq
        <5> QED BY <2>1, <2>3, <5>1
      <4>2. n - 1 \in P
        BY <1>2, <4>1
      <4> QED BY <2>1, <2>3, <4>1, <4>2
    <3>4. /\ key \in Strings /\ v \in V /\ Good(enc[v], mean[v])
          /\ write[s[1]] = EncodeString(key) \o enc[v]
      BY <1>1, <2>1, <2>3
    <3>5. /\ LastPairs(s, mean) = LastPairs(Tail(s), mean) \cup NewPair(Keys(Tail(s)), key, mean[v])
          /\ Keys(s) = Keys(Tail(s)) \cup {key}
      <4>1. LastPairs(s, mean) =
              LastPairs(Tail(s), mean) \cup NewPair(Keys(Tail(s)), s[1][1], mean[s[1][2]])
        <5>1. s \in Seq(S)
          OBVIOUS
        <5> HIDE DEF S, P, rest, key, v
        <5> QED BY <2>3, <5>1, LastPairsStep
      <4>2. Keys(s) = Keys(Tail(s)) \cup {key}
        BY <2>3, LastPairsStep
      <4> QED BY <4>1, <4>2
    <3> HIDE DEF rest, key, v
    <3>6. GoodRest("pairs", (EncodeString(key) \o enc[v]) \o (rest \o <<E>>), LastPairs(s, mean))
      <4>1. GoodRest("pairs", (EncodeString(key) \o enc[v]) \o (rest \o <<E>>),
                     LastPairs(Tail(s), mean)
                       \cup NewPair(KeysOf(LastPairs(Tail(s), mean)), key, mean[v]))
        BY <3>3, <3>4, PairsStep
      <4> QED BY <3>3, <3>5, <4>1
    <3>7. KeysOf(LastPairs(s, mean)) = Keys(s)
      <4>1. PICK dict : dict = LastPairs(Tail(s), mean)
        OBVIOUS
      <4>2. KeysOf(dict \cup NewPair(KeysOf(dict), key, mean[v])) = KeysOf(dict) \cup {key}
        BY KeysOfMore
      <4> QED BY <3>3, <3>5, <4>1, <4>2
    <3> QED BY <3>2, <3>4, <3>6, <3>7
  <2> QED BY <2>2, <2>3
<1> HIDE DEF P
<1>3. \A n \in Nat : n \in P
  BY <1>2, Induction
<1>4. Len(pairs) \in Nat
  BY LenProperties
<1>5. /\ GoodRest("pairs", FlattenSeq(Encs(pairs)) \o <<E>>, LastPairs(pairs, mean))
      /\ KeysOf(LastPairs(pairs, mean)) = Keys(pairs)
  BY <1>3, <1>4 DEF P
<1>6. Encs(pairs) = [k \in DOMAIN pairs |-> EncodeString(pairs[k][1]) \o enc[pairs[k][2]]]
  <2>1. \A k \in DOMAIN pairs : pairs[k] \in S
    BY PairsLen, ElementOfSeq
  <2>2. \A k \in DOMAIN pairs : write[pairs[k]] = EncodeString(pairs[k][1]) \o enc[pairs[k][2]]
    BY <1>1, <2>1
  <2> HIDE DEF write
  <2> QED BY <2>2
<1> QED BY <1>5, <1>6

LEMMA EncodedFirst ==
  /\ \A s \in Strings : /\ EncodeString(s) \in Strings /\ EncodeString(s) # <<>>
                        /\ EncodeString(s)[1] \in Digits
  /\ \A n \in Int : /\ EncodeInteger(n) \in Strings /\ EncodeInteger(n) # <<>>
                    /\ EncodeInteger(n)[1] = I
<1>1. ASSUME NEW s \in Strings
      PROVE  /\ EncodeString(s) \in Strings /\ EncodeString(s) # <<>>
             /\ EncodeString(s)[1] \in Digits
  <2> DEFINE n == Len(Decimal[Len(s)])
             e == EncodeString(s)
  <2>1. /\ e \in Strings /\ n \in Nat /\ n > 0 /\ Len(e) = n + 1 + Len(s) /\ Len(s) \in Nat
        /\ \A k \in 1..n : e[k] \in Digits
    BY EncodedString
  <2> HIDE DEF n, e
  <2>2. 1 \in 1..n /\ Len(e) > 0
    BY <2>1
  <2>3. e # <<>> /\ e[1] \in Digits
    BY <2>1, <2>2, StringLen
  <2> QED BY <2>1, <2>3 DEF e
<1>2. ASSUME NEW n \in Int
      PROVE  /\ EncodeInteger(n) \in Strings /\ EncodeInteger(n) # <<>>
             /\ EncodeInteger(n)[1] = I
  <2>1. Len(Printed(n)) \in Nat
    BY PrintedFacts
  <2>2. /\ EncodeInteger(n) \in Strings /\ Len(EncodeInteger(n)) = Len(Printed(n)) + 2
        /\ EncodeInteger(n)[1] = I
    BY EncodedInteger
  <2> QED BY <2>1, <2>2, StringLen
<1> QED BY <1>1, <1>2

(* The four kinds of object.                                               *)
LEMMA ScalarsGood ==
  /\ \A s \in Strings : Good(EncodeString(s), String(s))
  /\ \A n \in Int : Good(EncodeInteger(n), Integer(n))
<1>0. /\ As("BenString", Fail) = Fail /\ As("BenInteger", Fail) = Fail
      /\ \A v, t : /\ As("BenString", Parsed(v, t)) = Parsed(String(v), t)
                   /\ As("BenInteger", Parsed(v, t)) = Parsed(Integer(v), t)
  BY Outcomes DEF As, String, Integer
<1>1. ASSUME NEW s \in Strings PROVE Good(EncodeString(s), String(s))
  <2> DEFINE e == EncodeString(s)
  <2>1. e \in Strings /\ e # <<>> /\ e[1] # E /\ e[1] # I /\ e[1] # D /\ e[1] # L
    BY EncodedFirst, NoDigits
  <2>2. ASSUME NEW t \in Strings PROVE ParseObject(e \o t) = Parsed(String(s), t)
    <3> DEFINE d == e \o t
    <3>1. ParseString(d) = Parsed(s, t)
      BY StringParsed
    <3> HIDE DEF e
    <3>2. d \in Strings /\ d # <<>> /\ d[1] = e[1]
      BY <2>1, SameFirst
    <3> HIDE DEF d
    <3>3. ParseObject(d) = As("BenString", ParseString(d))
      BY <2>1, <3>2, Parses DEF ObjectBy
    <3>4. ParseObject(d) = Parsed(String(s), t)
      BY <1>0, <3>1, <3>3
    <3> QED BY <3>4 DEF d
  <2>3. ASSUME NEW p, Cut(p, e) PROVE ParseObject(p) = Fail
    <3>1. ParseString(p) = Fail
      BY <2>3, StringCut
    <3> HIDE DEF e
    <3>2. p \in Strings
      BY <2>3 DEF Cut
    <3>3. CASE p = <<>>
      BY <3>2, <3>3, Parses DEF ObjectBy
    <3>4. CASE p # <<>>
      <4>1. p[1] = e[1]
        BY <2>1, <2>3, <3>4, CutFirst
      <4>2. ParseObject(p) = As("BenString", ParseString(p))
        BY <2>1, <3>2, <3>4, <4>1, Parses DEF ObjectBy
      <4> QED BY <1>0, <3>1, <4>2
    <3> QED BY <3>3, <3>4
  <2> HIDE DEF e
  <2>4. Good(e, String(s))
    BY <2>1, <2>2, <2>3 DEF Good
  <2> QED BY <2>4 DEF e
<1>2. ASSUME NEW n \in Int PROVE Good(EncodeInteger(n), Integer(n))
  <2> DEFINE e == EncodeInteger(n)
  <2>1. e \in Strings /\ e # <<>> /\ e[1] # E /\ e[1] = I
    BY EncodedFirst, NoDigits
  <2>2. ASSUME NEW t \in Strings PROVE ParseObject(e \o t) = Parsed(Integer(n), t)
    <3> DEFINE d == e \o t
    <3>1. ParseInteger(d) = Parsed(n, t)
      BY IntegerParsed
    <3> HIDE DEF e
    <3>2. d \in Strings /\ d # <<>> /\ d[1] = e[1]
      BY <2>1, SameFirst
    <3> HIDE DEF d
    <3>3. ParseObject(d) = As("BenInteger", ParseInteger(d))
      BY <2>1, <3>2, Parses, NoDigits DEF ObjectBy
    <3>4. ParseObject(d) = Parsed(Integer(n), t)
      BY <1>0, <3>1, <3>3
    <3> QED BY <3>4 DEF d
  <2>3. ASSUME NEW p, Cut(p, e) PROVE ParseObject(p) = Fail
    <3>1. ParseInteger(p) = Fail
      BY <2>3, IntegerCut
    <3> HIDE DEF e
    <3>2. p \in Strings
      BY <2>3 DEF Cut
    <3>3. CASE p = <<>>
      BY <3>2, <3>3, Parses DEF ObjectBy
    <3>4. CASE p # <<>>
      <4>1. p[1] = I
        BY <2>1, <2>3, <3>4, CutFirst
      <4>2. ParseObject(p) = As("BenInteger", ParseInteger(p))
        BY <3>2, <3>4, <4>1, Parses, NoDigits DEF ObjectBy
      <4> QED BY <1>0, <3>1, <4>2
    <3> QED BY <3>3, <3>4
  <2> HIDE DEF e
  <2>4. Good(e, Integer(n))
    BY <2>1, <2>2, <2>3 DEF Good
  <2> QED BY <2>4 DEF e
<1> QED BY <1>1, <1>2

LEMMA RestNotNothing ==
  ASSUME NEW kind \in {"items", "pairs"}, NEW u, NEW m, GoodRest(kind, u, m)
  PROVE  u # <<>>
<1> SUFFICES ASSUME u = <<>> PROVE FALSE
  OBVIOUS
<1>1. <<>> \in Strings /\ u \o <<>> = <<>>
  BY OneByte, JoinedNothing
<1>2. Parsing[<<kind, <<>>>>] = Parsed(m, <<>>)
  BY <1>1 DEF GoodRest
<1>3. Parsing[<<kind, <<>>>>] = Fail
  BY <1>1, Parses DEF ItemsBy, PairsBy
<1> QED BY <1>2, <1>3, Outcomes

LEMMA AsFacts ==
  /\ As("BenList", Fail) = Fail /\ As("BenDict", Fail) = Fail
  /\ \A v, t : /\ As("BenList", Parsed(v, t)) = Parsed(List(v), t)
               /\ As("BenDict", Parsed(v, t)) = Parsed(Dict(v), t)
BY Outcomes DEF As, List, Dict

(* What begins with l or d.                                                *)
LEMMA Unwrapped ==
  ASSUME NEW x \in Strings, x # <<>>
  PROVE  /\ ListBy(Parsing, <<L>> \o x) = Parsing[<<"items", x>>]
         /\ DictBy(Parsing, <<D>> \o x) = Parsing[<<"pairs", x>>]
<1> DEFINE l == <<L>> \o x
           d == <<D>> \o x
<1>1. /\ l \in Strings /\ Len(l) = Len(x) + 1 /\ l[1] = L /\ Tail(l) = x
      /\ d \in Strings /\ Len(d) = Len(x) + 1 /\ d[1] = D /\ Tail(d) = x
  BY NoDigits, FirstByteOf
<1> HIDE DEF l, d
<1>2. Len(x) \in Nat /\ Len(x) > 0
  BY StringLen
<1>3. ~(Len(l) < 2) /\ ~(Len(d) < 2)
  BY <1>1, <1>2
<1>4. ListBy(Parsing, l) = Parsing[<<"items", x>>] /\ DictBy(Parsing, d) = Parsing[<<"pairs", x>>]
  BY <1>1, <1>3 DEF ListBy, DictBy
<1> QED BY <1>4 DEF l, d

LEMMA CutUnwrapped ==
  ASSUME NEW s \in Strings, Len(s) = 1, NEW u \in Strings, NEW p, Cut(p, s \o u)
  PROVE  p = <<>> \/ p = s \o <<>> \/ \E q : Cut(q, u) /\ q # <<>> /\ p = s \o q
<1>1. Cut(p, s) \/ \E q : Cut(q, u) /\ p = s \o q
  BY CutOfTwo
<1>2. Cut(p, s) => p = <<>>
  BY CutOfOne
<1> QED BY <1>1, <1>2

LEMMA TooShort ==
  /\ \A parse : ListBy(parse, <<>>) = Fail /\ DictBy(parse, <<>>) = Fail
  /\ \A parse : \A b \in 0..255 :
       ListBy(parse, <<b>> \o <<>>) = Fail /\ DictBy(parse, <<b>> \o <<>>) = Fail
<1>1. \A b \in 0..255 : Len(<<b>> \o <<>>) = 1
  BY OneByte, JoinedNothing
<1>2. Len(<<>>) = 0
  OBVIOUS
<1> QED BY <1>1, <1>2 DEF ListBy, DictBy

LEMMA KindsGood ==
  /\ \A u, ms : GoodRest("items", u, ms) => Good(<<L>> \o u, List(ms))
  /\ \A u, dict : GoodRest("pairs", u, dict) =>
       /\ Good(<<D>> \o u, Dict(dict))
       /\ \A t \in Strings : ParseDict((<<D>> \o u) \o t) = Parsed(dict, t)
       /\ \A p : Cut(p, <<D>> \o u) => ParseDict(p) = Fail
<1>1. ASSUME NEW u, NEW ms, GoodRest("items", u, ms) PROVE Good(<<L>> \o u, List(ms))
  <2> DEFINE w == <<L>> \o u
  <2>1. u \in Strings /\ u # <<>>
    BY <1>1, RestNotNothing DEF GoodRest
  <2>2. w \in Strings /\ w # <<>> /\ w[1] = L
    BY <2>1, NoDigits, FirstByteOf
  <2>3. ASSUME NEW p, p \in Strings, p # <<>>, p[1] = L
        PROVE  ParseObject(p) = As("BenList", ListBy(Parsing, p))
    BY <2>3, Parses, NoDigits DEF ObjectBy
  <2>4. ASSUME NEW t \in Strings PROVE ParseObject(w \o t) = Parsed(List(ms), t)
    <3>1. w \o t = <<L>> \o (u \o t)
      <4>1. <<L>> \in Strings
        BY NoDigits, OneByte
      <4> QED BY <2>1, <4>1, JoinedTwice
    <3>2. u \o t \in Strings /\ u \o t # <<>>
      BY <2>1, SameFirst
    <3>3. w \o t \in Strings /\ w \o t # <<>> /\ (w \o t)[1] = L
      BY <2>2, SameFirst
    <3>4. ListBy(Parsing, w \o t) = Parsed(ms, t)
      BY <1>1, <3>1, <3>2, Unwrapped DEF GoodRest
    <3> QED BY <2>3, <3>3, <3>4, AsFacts
  <2>5. ASSUME NEW p, Cut(p, w) PROVE ParseObject(p) = Fail
    <3>1. p \in Strings
      BY <2>5 DEF Cut
    <3>2. CASE p = <<>>
      BY <3>1, <3>2, Parses DEF ObjectBy
    <3>3. CASE p # <<>>
      <4>1. ParseObject(p) = As("BenList", ListBy(Parsing, p))
        BY <2>2, <2>3, <2>5, <3>1, <3>3, CutFirst
      <4>2. ListBy(Parsing, p) = Fail
        <5>1. p = <<L>> \o <<>> \/ \E q : Cut(q, u) /\ q # <<>> /\ p = <<L>> \o q
          <6>1. PICK s \in Strings : s = <<L>>
            BY NoDigits, OneByte
          <6>2. Cut(p, s \o u) /\ Len(s) = 1
            BY <2>5, <6>1
          <6>3. p = <<>> \/ p = s \o <<>> \/ \E q : Cut(q, u) /\ q # <<>> /\ p = s \o q
            BY <2>1, <6>2, CutUnwrapped
          <6> QED BY <3>3, <6>1, <6>3
        <5>2. CASE p = <<L>> \o <<>>
          BY <5>2, NoDigits, TooShort
        <5>3. CASE \E q : Cut(q, u) /\ q # <<>> /\ p = <<L>> \o q
          BY <1>1, <5>3, Unwrapped DEF GoodRest, Cut
        <5> QED BY <5>1, <5>2, <5>3
      <4> QED BY <4>1, <4>2, AsFacts
    <3> QED BY <3>2, <3>3
  <2> HIDE DEF w
  <2>6. Good(w, List(ms))
    BY <2>2, <2>4, <2>5, NoDigits DEF Good
  <2> QED BY <2>6 DEF w
<1>2. ASSUME NEW u, NEW dict, GoodRest("pairs", u, dict)
      PROVE  /\ Good(<<D>> \o u, Dict(dict))
             /\ \A t \in Strings : ParseDict((<<D>> \o u) \o t) = Parsed(dict, t)
             /\ \A p : Cut(p, <<D>> \o u) => ParseDict(p) = Fail
  <2> DEFINE w == <<D>> \o u
  <2>1. u \in Strings /\ u # <<>>
    BY <1>2, RestNotNothing DEF GoodRest
  <2>2. w \in Strings /\ w # <<>> /\ w[1] = D
    BY <2>1, NoDigits, FirstByteOf
  <2>3. ASSUME NEW p, p \in Strings, p # <<>>, p[1] = D
        PROVE  ParseObject(p) = As("BenDict", DictBy(Parsing, p))
    BY <2>3, Parses, NoDigits DEF ObjectBy
  <2>4. ASSUME NEW t \in Strings
        PROVE  ParseObject(w \o t) = Parsed(Dict(dict), t) /\ DictBy(Parsing, w \o t) = Parsed(dict, t)
    <3>1. w \o t = <<D>> \o (u \o t)
      <4>1. <<D>> \in Strings
        BY NoDigits, OneByte
      <4> QED BY <2>1, <4>1, JoinedTwice
    <3>2. u \o t \in Strings /\ u \o t # <<>>
      BY <2>1, SameFirst
    <3>3. w \o t \in Strings /\ w \o t # <<>> /\ (w \o t)[1] = D
      BY <2>2, SameFirst
    <3>4. DictBy(Parsing, w \o t) = Parsed(dict, t)
      BY <1>2, <3>1, <3>2, Unwrapped DEF GoodRest
    <3> QED BY <2>3, <3>3, <3>4, AsFacts
  <2>5. ASSUME NEW p, Cut(p, w) PROVE DictBy(Parsing, p) = Fail /\ ParseObject(p) = Fail
    <3>1. p \in Strings
      BY <2>5 DEF Cut
    <3>2. CASE p = <<>>
      BY <3>1, <3>2, Parses, TooShort DEF ObjectBy
    <3>3. CASE p # <<>>
      <4>1. ParseObject(p) = As("BenDict", DictBy(Parsing, p))
        BY <2>2, <2>3, <2>5, <3>1, <3>3, CutFirst
      <4>2. DictBy(Parsing, p) = Fail
        <5>1. p = <<D>> \o <<>> \/ \E q : Cut(q, u) /\ q # <<>> /\ p = <<D>> \o q
          <6>1. PICK s \in Strings : s = <<D>>
            BY NoDigits, OneByte
          <6>2. Cut(p, s \o u) /\ Len(s) = 1
            BY <2>5, <6>1
          <6>3. p = <<>> \/ p = s \o <<>> \/ \E q : Cut(q, u) /\ q # <<>> /\ p = s \o q
            BY <2>1, <6>2, CutUnwrapped
          <6> QED BY <3>3, <6>1, <6>3
        <5>2. CASE p = <<D>> \o <<>>
          BY <5>2, NoDigits, TooShort
        <5>3. CASE \E q : Cut(q, u) /\ q # <<>> /\ p = <<D>> \o q
          BY <1>2, <5>3, Unwrapped DEF GoodRest, Cut
        <5> QED BY <5>1, <5>2, <5>3
      <4> QED BY <4>1, <4>2, AsFacts
    <3> QED BY <3>2, <3>3
  <2> HIDE DEF w
  <2>6. Good(w, Dict(dict))
    BY <2>2, <2>4, <2>5, NoDigits DEF Good
  <2> QED BY <2>4, <2>5, <2>6 DEF w, ParseDict
<1> QED BY <1>1, <1>2

-----------------------------------------------------------------------------
(* Values and objects, level by level.                                     *)

Level(form, S) ==
  S \cup ({"BenList"} \X Seq(S))
    \cup ({"BenDict"} \X (IF form = "pairs" THEN Seq(Strings \X S) ELSE SUBSET (Strings \X S)))

Levels(form, f, n) == f[0] = Scalars /\ \A m \in Nat : m < n => f[m + 1] = Level(form, f[m])

LEMMA LevelsExist ==
  ASSUME NEW form
  PROVE  \E f : f = [n \in Nat |-> IF n = 0 THEN Scalars ELSE Level(form, f[n - 1])]
<1>1. \A n \in Nat : \E f : Levels(form, f, n)
  <2> DEFINE P == {n \in Nat : \E f : Levels(form, f, n)}
  <2>1. ASSUME NEW n \in Nat, \A l \in Nat : l < n => l \in P PROVE n \in P
    <3>1. CASE n = 0
      <4>1. PICK f : f = [m \in Nat |-> Scalars]
        OBVIOUS
      <4>2. f[0] = Scalars /\ \A m \in Nat : ~(m < n)
        BY <3>1, <4>1
      <4> QED BY <4>2 DEF Levels
    <3>2. CASE n # 0
      <4>1. n - 1 \in Nat /\ n - 1 < n
        BY <3>2
      <4>2. PICK f : Levels(form, f, n - 1)
        BY <2>1, <4>1
      <4>3. PICK g : g = [m \in Nat |-> IF m = n THEN Level(form, f[n - 1]) ELSE f[m]]
        OBVIOUS
      <4>4. g[0] = Scalars
        BY <3>2, <4>2, <4>3 DEF Levels
      <4>5. ASSUME NEW m \in Nat, m < n PROVE g[m + 1] = Level(form, g[m])
        <5>1. m + 1 \in Nat /\ m # n /\ g[m] = f[m]
          BY <4>3, <4>5
        <5>2. CASE m + 1 = n
          <6>1. m = n - 1
            BY <5>2
          <6> QED BY <4>3, <5>1, <5>2, <6>1
        <5>3. CASE m + 1 # n
          <6>1. m < n - 1
            BY <4>5, <5>3
          <6> QED BY <4>2, <4>3, <5>1, <5>3, <6>1 DEF Levels
        <5> QED BY <5>2, <5>3
      <4>6. Levels(form, g, n)
        BY <4>4, <4>5 DEF Levels
      <4> QED BY <4>6
    <3> QED BY <3>1, <3>2
  <2> HIDE DEF P
  <2>2. \A n \in Nat : n \in P
    BY <2>1, Induction
  <2> QED BY <2>2 DEF P
<1>2. ASSUME NEW f, NEW g, NEW k \in Nat, NEW l \in Nat, Levels(form, f, k), Levels(form, g, l)
      PROVE  \A n \in Nat : n <= k /\ n <= l => f[n] = g[n]
  <2> DEFINE P == {n \in Nat : n <= k /\ n <= l => f[n] = g[n]}
  <2>1. ASSUME NEW n \in Nat, \A m \in Nat : m < n => m \in P PROVE n \in P
    <3> SUFFICES ASSUME n <= k, n <= l PROVE f[n] = g[n]
      OBVIOUS
    <3>1. CASE n = 0
      BY <1>2, <3>1 DEF Levels
    <3>2. CASE n # 0
      <4>1. n - 1 \in Nat /\ n - 1 < n /\ n - 1 < k /\ n - 1 < l /\ n - 1 <= k /\ n - 1 <= l
            /\ (n - 1) + 1 = n
        BY <3>2
      <4>2. f[n - 1] = g[n - 1]
        BY <2>1, <4>1
      <4>3. f[(n - 1) + 1] = Level(form, f[n - 1]) /\ g[(n - 1) + 1] = Level(form, g[n - 1])
        BY <1>2, <4>1 DEF Levels
      <4> QED BY <4>1, <4>2, <4>3
    <3> QED BY <3>1, <3>2
  <2> HIDE DEF P
  <2>2. \A n \in Nat : n \in P
    BY <2>1, Induction
  <2> QED BY <2>2 DEF P
<1> DEFINE F(n) == CHOOSE f : Levels(form, f, n)
           G == [n \in Nat |-> F(n)[n]]
<1>3. \A n \in Nat : Levels(form, F(n), n)
  BY <1>1
<1> HIDE DEF F
<1>4. ASSUME NEW n \in Nat PROVE G[n] = IF n = 0 THEN Scalars ELSE Level(form, G[n - 1])
  <2>1. CASE n = 0
    BY <1>3, <2>1 DEF Levels
  <2>2. CASE n # 0
    <3>1. n - 1 \in Nat /\ n - 1 < n /\ n - 1 <= n /\ n - 1 <= n - 1 /\ (n - 1) + 1 = n
      BY <2>2
    <3>2. Levels(form, F(n), n) /\ Levels(form, F(n - 1), n - 1)
      BY <1>3, <3>1
    <3>3. F(n)[n - 1] = F(n - 1)[n - 1]
      BY <1>2, <3>1, <3>2
    <3>4. F(n)[(n - 1) + 1] = Level(form, F(n)[n - 1])
      BY <3>1, <3>2 DEF Levels
    <3>5. G[n] = F(n)[n] /\ G[n - 1] = F(n - 1)[n - 1]
      BY <3>1
    <3> HIDE DEF G
    <3> QED BY <2>2, <3>1, <3>3, <3>4, <3>5
  <2> QED BY <2>1, <2>2
<1>5. G = [n \in Nat |-> G[n]]
  OBVIOUS
<1> HIDE DEF G
<1>6. G = [n \in Nat |-> IF n = 0 THEN Scalars ELSE Level(form, G[n - 1])]
  BY <1>4, <1>5
<1> QED BY <1>6

LEMMA ValuesDef ==
  /\ Values[0] = Scalars /\ Objects[0] = Scalars
  /\ \A n \in Nat : n # 0 => /\ Values[n] = Level("pairs", Values[n - 1])
                             /\ Objects[n] = Level("sets", Objects[n - 1])
<1> DEFINE Is(form, f) == f = [n \in Nat |-> IF n = 0 THEN Scalars ELSE Level(form, f[n - 1])]
<1>1. \A form : \E f : Is(form, f)
  BY LevelsExist
<1>2. Values = CHOOSE f : Is("pairs", f)
  BY DEF Values, Level
<1>3. Objects = CHOOSE f : Is("sets", f)
  BY DEF Objects, Level
<1>4. Is("pairs", Values) /\ Is("sets", Objects)
  <2> HIDE DEF Is
  <2> QED BY <1>1, <1>2, <1>3
<1>5. Values = [n \in Nat |-> IF n = 0 THEN Scalars ELSE Level("pairs", Values[n - 1])]
  BY <1>4
<1>6. Objects = [n \in Nat |-> IF n = 0 THEN Scalars ELSE Level("sets", Objects[n - 1])]
  BY <1>4
<1> QED BY <1>5, <1>6

LEMMA InLevel ==
  ASSUME NEW S, NEW x
  PROVE  /\ x \in Level("pairs", S) <=> \/ x \in S
                                       \/ x \in {"BenList"} \X Seq(S)
                                       \/ x \in {"BenDict"} \X Seq(Strings \X S)
         /\ x \in Level("sets", S) <=> \/ x \in S
                                      \/ x \in {"BenList"} \X Seq(S)
                                      \/ x \in {"BenDict"} \X SUBSET (Strings \X S)
<1>1. Level("sets", S) = S \cup ({"BenList"} \X Seq(S)) \cup ({"BenDict"} \X SUBSET (Strings \X S))
  <2>1. "sets" # "pairs"
    OBVIOUS
  <2> QED BY <2>1, Zenon DEF Level
<1>2. Level("pairs", S) = S \cup ({"BenList"} \X Seq(S)) \cup ({"BenDict"} \X Seq(Strings \X S))
  BY DEF Level
<1> QED BY <1>1, <1>2

(* What a value of level n is, and an object.                              *)
LEMMA ValueCases ==
  ASSUME NEW n \in Nat, NEW v \in Values[n]
  PROVE  \/ v[1] = "BenString" /\ v[2] \in Strings /\ v = String(v[2])
         \/ v[1] = "BenInteger" /\ v[2] \in Int /\ v = Integer(v[2])
         \/ v[1] = "BenList" /\ v = List(v[2]) /\ n # 0 /\ v[2] \in Seq(Values[n - 1])
         \/ v[1] = "BenDict" /\ v = Dict(v[2]) /\ n # 0 /\ v[2] \in Seq(Strings \X Values[n - 1])
<1> DEFINE Kind(m, u) ==
             \/ u[1] = "BenString" /\ u[2] \in Strings /\ u = String(u[2])
             \/ u[1] = "BenInteger" /\ u[2] \in Int /\ u = Integer(u[2])
             \/ u[1] = "BenList" /\ u = List(u[2]) /\ m # 0 /\ u[2] \in Seq(Values[m - 1])
             \/ u[1] = "BenDict" /\ u = Dict(u[2]) /\ m # 0 /\ u[2] \in Seq(Strings \X Values[m - 1])
           P == {m \in Nat : \A u \in Values[m] : Kind(m, u)}
<1>1. ASSUME NEW m \in Nat, \A l \in Nat : l < m => l \in P PROVE m \in P
  <2> SUFFICES ASSUME NEW u \in Values[m] PROVE Kind(m, u)
    OBVIOUS
  <2>1. CASE u \in Scalars
    BY <2>1 DEF Scalars, String, Integer
  <2>2. CASE m # 0 /\ u \in {"BenList"} \X Seq(Values[m - 1])
    BY <2>2 DEF List
  <2>3. CASE m # 0 /\ u \in {"BenDict"} \X Seq(Strings \X Values[m - 1])
    BY <2>3 DEF Dict
  <2>4. CASE m # 0 /\ u \in Values[m - 1]
    <3>1. m - 1 \in Nat /\ m - 1 < m
      BY <2>4
    <3>2. Kind(m - 1, u)
      BY <1>1, <2>4, <3>1
    <3>3. CASE m - 1 = 0
      BY <3>2, <3>3
    <3>4. CASE m - 1 # 0
      <4>1. (m - 1) - 1 \in Nat /\ Values[m - 1] = Level("pairs", Values[(m - 1) - 1])
        BY <3>1, <3>4, ValuesDef
      <4>2. PICK A, B : A = Values[(m - 1) - 1] /\ B = Values[m - 1]
        OBVIOUS
      <4>3. A \subseteq B
        BY <4>1, <4>2 DEF Level
      <4>4. Seq(A) \subseteq Seq(B) /\ Seq(Strings \X A) \subseteq Seq(Strings \X B)
        <5>1. Strings \X A \subseteq Strings \X B
          BY <4>3
        <5> QED BY <4>3, <5>1, SeqMonotonic
      <4> QED BY <2>4, <3>2, <4>2, <4>4
    <3> QED BY <3>3, <3>4
  <2>5. m = 0 => u \in Scalars
    BY ValuesDef
  <2>6. m # 0 => \/ u \in Values[m - 1]
                 \/ u \in {"BenList"} \X Seq(Values[m - 1])
                 \/ u \in {"BenDict"} \X Seq(Strings \X Values[m - 1])
    BY ValuesDef DEF Level
  <2> HIDE DEF Kind
  <2> QED BY <2>1, <2>2, <2>3, <2>4, <2>5, <2>6
<1> HIDE DEF P
<1>2. n \in P
  BY <1>1, Induction
<1> QED BY <1>2 DEF P

LEMMA LevelsGrow ==
  ASSUME NEW n \in Nat
  PROVE  \A m \in Nat : m <= n => Values[m] \subseteq Values[n] /\ Objects[m] \subseteq Objects[n]
<1> DEFINE P == {k \in Nat : \A m \in Nat : m <= k =>
                   Values[m] \subseteq Values[k] /\ Objects[m] \subseteq Objects[k]}
<1>1. ASSUME NEW k \in Nat, \A l \in Nat : l < k => l \in P PROVE k \in P
  <2> SUFFICES ASSUME NEW m \in Nat, m <= k
               PROVE  Values[m] \subseteq Values[k] /\ Objects[m] \subseteq Objects[k]
    OBVIOUS
  <2>1. CASE m = k
    BY <2>1
  <2>2. CASE m # k
    <3>1. k # 0 /\ k - 1 \in Nat /\ k - 1 < k /\ m <= k - 1
      BY <2>2
    <3>2. Values[m] \subseteq Values[k - 1] /\ Objects[m] \subseteq Objects[k - 1]
      BY <1>1, <3>1
    <3>3. Values[k - 1] \subseteq Values[k] /\ Objects[k - 1] \subseteq Objects[k]
      <4>1. /\ Values[k] = Level("pairs", Values[k - 1])
            /\ Objects[k] = Level("sets", Objects[k - 1])
        BY <3>1, ValuesDef
      <4>2. \A S : S \subseteq Level("pairs", S) /\ S \subseteq Level("sets", S)
        BY InLevel
      <4> QED BY <4>1, <4>2
    <3> QED BY <3>2, <3>3
  <2> QED BY <2>1, <2>2
<1> HIDE DEF P
<1>2. n \in P
  BY <1>1, Induction
<1> QED BY <1>2 DEF P

LEMMA ObjectCases ==
  ASSUME NEW n \in Nat, NEW o \in Objects[n]
  PROVE  \/ o[1] = "BenString" /\ o[2] \in Strings /\ o = String(o[2])
         \/ o[1] = "BenInteger" /\ o[2] \in Int /\ o = Integer(o[2])
         \/ o[1] = "BenList" /\ o = List(o[2]) /\ n # 0 /\ o[2] \in Seq(Objects[n - 1])
         \/ o[1] = "BenDict" /\ o = Dict(o[2]) /\ n # 0 /\ o[2] \in SUBSET (Strings \X Objects[n - 1])
<1> DEFINE Kind(m, u) ==
             \/ u[1] = "BenString" /\ u[2] \in Strings /\ u = String(u[2])
             \/ u[1] = "BenInteger" /\ u[2] \in Int /\ u = Integer(u[2])
             \/ u[1] = "BenList" /\ u = List(u[2]) /\ m # 0 /\ u[2] \in Seq(Objects[m - 1])
             \/ u[1] = "BenDict" /\ u = Dict(u[2]) /\ m # 0 /\ u[2] \in SUBSET (Strings \X Objects[m - 1])
           P == {m \in Nat : \A u \in Objects[m] : Kind(m, u)}
<1>1. ASSUME NEW m \in Nat, \A l \in Nat : l < m => l \in P PROVE m \in P
  <2> SUFFICES ASSUME NEW u \in Objects[m] PROVE Kind(m, u)
    OBVIOUS
  <2>1. CASE u \in Scalars
    BY <2>1 DEF Scalars, String, Integer
  <2>2. CASE m # 0 /\ u \in {"BenList"} \X Seq(Objects[m - 1])
    BY <2>2 DEF List
  <2>3. CASE m # 0 /\ u \in {"BenDict"} \X SUBSET (Strings \X Objects[m - 1])
    BY <2>3 DEF Dict
  <2>4. CASE m # 0 /\ u \in Objects[m - 1]
    <3>1. m - 1 \in Nat /\ m - 1 < m
      BY <2>4
    <3>2. Kind(m - 1, u)
      BY <1>1, <2>4, <3>1
    <3>3. CASE m - 1 = 0
      BY <3>2, <3>3
    <3>4. CASE m - 1 # 0
      <4>1. (m - 1) - 1 \in Nat /\ Objects[m - 1] = Level("sets", Objects[(m - 1) - 1])
        BY <3>1, <3>4, ValuesDef
      <4>2. PICK A, B : A = Objects[(m - 1) - 1] /\ B = Objects[m - 1]
        OBVIOUS
      <4>3. A \subseteq B
        BY <4>1, <4>2 DEF Level
      <4>4. Seq(A) \subseteq Seq(B) /\ SUBSET (Strings \X A) \subseteq SUBSET (Strings \X B)
        <5>1. Strings \X A \subseteq Strings \X B
          BY <4>3
        <5>2. Seq(A) \subseteq Seq(B)
          BY <4>3, SeqMonotonic
        <5> QED BY <5>1, <5>2
      <4> QED BY <2>4, <3>2, <4>2, <4>4
    <3> QED BY <3>3, <3>4
  <2>5. m = 0 => u \in Scalars
    BY ValuesDef
  <2>6. m # 0 => \/ u \in Objects[m - 1]
                 \/ u \in {"BenList"} \X Seq(Objects[m - 1])
                 \/ u \in {"BenDict"} \X SUBSET (Strings \X Objects[m - 1])
    <3> SUFFICES ASSUME m # 0 PROVE u \in Objects[m - 1] \/ u \in {"BenList"} \X Seq(Objects[m - 1])
                                      \/ u \in {"BenDict"} \X SUBSET (Strings \X Objects[m - 1])
      OBVIOUS
    <3>1. PICK S : S = Objects[m - 1]
      OBVIOUS
    <3>2. u \in Level("sets", S)
      BY <3>1, ValuesDef
    <3>3. u \in S \/ u \in {"BenList"} \X Seq(S) \/ u \in {"BenDict"} \X SUBSET (Strings \X S)
      BY <3>2, InLevel
    <3> QED BY <3>1, <3>3
  <2> HIDE DEF Kind
  <2> QED BY <2>1, <2>2, <2>3, <2>4, <2>5, <2>6
<1> HIDE DEF P
<1>2. n \in P
  BY <1>1, Induction
<1> QED BY <1>2 DEF P

-----------------------------------------------------------------------------
(* What is defined along the levels of values.                             *)

EncodeBy(f, v) ==
  CASE v[1] = "BenString" -> EncodeString(v[2])
    [] v[1] = "BenInteger" -> EncodeInteger(v[2])
    [] v[1] = "BenList" -> <<L>> \o FlattenSeq(Each(f, v[2])) \o <<E>>
    [] OTHER -> <<D>> \o FlattenSeq(EachPair(f, v[2])) \o <<E>>

MeaningBy(f, v) ==
  CASE v[1] \in {"BenString", "BenInteger"} -> v
    [] v[1] = "BenList" -> List(Each(f, v[2]))
    [] OTHER -> Dict(LastPairs(v[2], f))

PlainBy(f, v) ==
  CASE v[1] = "BenList" -> v[2] # <<>> /\ \A k \in DOMAIN v[2] : f[v[2][k]]
    [] v[1] = "BenDict" -> /\ v[2] # <<>>
                           /\ \A k \in DOMAIN v[2] : /\ JsonText(v[2][k][1]) = v[2][k][1]
                                                     /\ f[v[2][k][2]]
    [] OTHER -> TRUE

LEMMA KindsDiffer ==
  /\ "BenString" # "BenInteger" /\ "BenString" # "BenList" /\ "BenString" # "BenDict"
  /\ "BenInteger" # "BenList" /\ "BenInteger" # "BenDict" /\ "BenList" # "BenDict"
OBVIOUS

LEMMA EncodeArms ==
  ASSUME NEW f, NEW v
  PROVE  /\ v[1] = "BenString" => EncodeBy(f, v) = EncodeString(v[2])
         /\ v[1] = "BenInteger" => EncodeBy(f, v) = EncodeInteger(v[2])
         /\ v[1] = "BenList" =>
              EncodeBy(f, v) = <<L>> \o FlattenSeq([k \in DOMAIN v[2] |-> f[v[2][k]]]) \o <<E>>
         /\ v[1] = "BenDict" =>
              EncodeBy(f, v) =
                <<D>> \o FlattenSeq([k \in DOMAIN v[2] |-> EncodeString(v[2][k][1]) \o f[v[2][k][2]]])
                      \o <<E>>
<1>1. v[1] = "BenString" => EncodeBy(f, v) = EncodeString(v[2])
  BY DEF EncodeBy
<1>2. v[1] = "BenInteger" => EncodeBy(f, v) = EncodeInteger(v[2])
  BY KindsDiffer DEF EncodeBy
<1>3. ASSUME v[1] = "BenList"
      PROVE  EncodeBy(f, v) = <<L>> \o FlattenSeq([k \in DOMAIN v[2] |-> f[v[2][k]]]) \o <<E>>
  <2>1. EncodeBy(f, v) = <<L>> \o FlattenSeq(Each(f, v[2])) \o <<E>>
    BY <1>3, KindsDiffer DEF EncodeBy
  <2> QED BY <2>1, Zenon DEF Each
<1>4. ASSUME v[1] = "BenDict"
      PROVE  EncodeBy(f, v) =
               <<D>> \o FlattenSeq([k \in DOMAIN v[2] |-> EncodeString(v[2][k][1]) \o f[v[2][k][2]]])
                     \o <<E>>
  <2>1. EncodeBy(f, v) = <<D>> \o FlattenSeq(EachPair(f, v[2])) \o <<E>>
    BY <1>4, KindsDiffer DEF EncodeBy
  <2> QED BY <2>1, Zenon DEF EachPair
<1> QED BY <1>1, <1>2, <1>3, <1>4

LEMMA MeaningArms ==
  ASSUME NEW f, NEW v
  PROVE  /\ v[1] \in {"BenString", "BenInteger"} => MeaningBy(f, v) = v
         /\ v[1] = "BenList" => MeaningBy(f, v) = List([k \in DOMAIN v[2] |-> f[v[2][k]]])
         /\ v[1] = "BenDict" => MeaningBy(f, v) = Dict(LastPairs(v[2], f))
<1>1. v[1] \in {"BenString", "BenInteger"} => MeaningBy(f, v) = v
  BY DEF MeaningBy
<1>2. ASSUME v[1] = "BenList" PROVE MeaningBy(f, v) = List([k \in DOMAIN v[2] |-> f[v[2][k]]])
  <2>1. MeaningBy(f, v) = List(Each(f, v[2]))
    BY <1>2, KindsDiffer DEF MeaningBy
  <2> QED BY <2>1, Zenon DEF Each
<1>3. ASSUME v[1] = "BenDict" PROVE MeaningBy(f, v) = Dict(LastPairs(v[2], f))
  BY <1>3, KindsDiffer DEF MeaningBy
<1> QED BY <1>1, <1>2, <1>3

LEMMA PlainArms ==
  ASSUME NEW f, NEW v
  PROVE  /\ v[1] \in {"BenString", "BenInteger"} => (PlainBy(f, v) <=> TRUE)
         /\ v[1] = "BenList" => (PlainBy(f, v) <=> v[2] # <<>> /\ \A k \in DOMAIN v[2] : f[v[2][k]])
         /\ v[1] = "BenDict" =>
              (PlainBy(f, v) <=> /\ v[2] # <<>>
                                 /\ \A k \in DOMAIN v[2] : /\ JsonText(v[2][k][1]) = v[2][k][1]
                                                           /\ f[v[2][k][2]])
<1>1. v[1] \in {"BenString", "BenInteger"} => (PlainBy(f, v) <=> TRUE)
  BY KindsDiffer DEF PlainBy
<1>2. ASSUME v[1] = "BenList"
      PROVE  PlainBy(f, v) <=> v[2] # <<>> /\ \A k \in DOMAIN v[2] : f[v[2][k]]
  BY <1>2, KindsDiffer DEF PlainBy
<1>3. ASSUME v[1] = "BenDict"
      PROVE  PlainBy(f, v) <=> /\ v[2] # <<>>
                               /\ \A k \in DOMAIN v[2] : /\ JsonText(v[2][k][1]) = v[2][k][1]
                                                         /\ f[v[2][k][2]]
  BY <1>3, KindsDiffer DEF PlainBy
<1> QED BY <1>1, <1>2, <1>3

By(what, f, v) ==
  IF what = "Encode" THEN EncodeBy(f, v)
  ELSE IF what = "Meaning" THEN MeaningBy(f, v) ELSE PlainBy(f, v)

LEMMA ByLocal ==
  ASSUME NEW what, NEW n \in Nat, NEW v \in Values[n], NEW g, NEW h,
         n # 0 => \A c \in Values[n - 1] : g[c] = h[c]
  PROVE  By(what, g, v) = By(what, h, v)
<1>1. CASE v[1] \in {"BenString", "BenInteger"}
  <2>1. EncodeBy(g, v) = EncodeBy(h, v)
    BY <1>1, EncodeArms
  <2>2. MeaningBy(g, v) = MeaningBy(h, v)
    BY <1>1, MeaningArms
  <2>3. PlainBy(g, v) = PlainBy(h, v)
    BY <1>1, KindsDiffer DEF PlainBy
  <2> QED BY <2>1, <2>2, <2>3 DEF By
<1>2. CASE v[1] = "BenList" /\ n # 0 /\ v[2] \in Seq(Values[n - 1])
  <2>1. \A k \in DOMAIN v[2] : v[2][k] \in Values[n - 1]
    BY <1>2, LenProperties, ElementOfSeq
  <2>2. \A k \in DOMAIN v[2] : g[v[2][k]] = h[v[2][k]]
    BY <1>2, <2>1
  <2>3. [k \in DOMAIN v[2] |-> g[v[2][k]]] = [k \in DOMAIN v[2] |-> h[v[2][k]]]
    BY <2>2
  <2> DEFINE G == [k \in DOMAIN v[2] |-> g[v[2][k]]]
             H == [k \in DOMAIN v[2] |-> h[v[2][k]]]
  <2>4. EncodeBy(g, v) = EncodeBy(h, v)
    <3>1. EncodeBy(g, v) = <<L>> \o FlattenSeq(G) \o <<E>>
      BY <1>2, EncodeArms
    <3>2. EncodeBy(h, v) = <<L>> \o FlattenSeq(H) \o <<E>>
      BY <1>2, EncodeArms
    <3>3. G = H
      BY <2>3
    <3> HIDE DEF G, H
    <3> QED BY <3>1, <3>2, <3>3
  <2>5. MeaningBy(g, v) = MeaningBy(h, v)
    <3>1. MeaningBy(g, v) = List(G)
      BY <1>2, MeaningArms
    <3>2. MeaningBy(h, v) = List(H)
      BY <1>2, MeaningArms
    <3>3. G = H
      BY <2>3
    <3> HIDE DEF G, H
    <3> QED BY <3>1, <3>2, <3>3
  <2>6. PlainBy(g, v) = PlainBy(h, v)
    BY <1>2, <2>2, KindsDiffer DEF PlainBy
  <2> QED BY <2>4, <2>5, <2>6 DEF By
<1>3. CASE v[1] = "BenDict" /\ n # 0 /\ v[2] \in Seq(Strings \X Values[n - 1])
  <2>1. \A k \in DOMAIN v[2] : v[2][k][2] \in Values[n - 1]
    BY <1>3, PairsLen
  <2>2. \A k \in DOMAIN v[2] : g[v[2][k][2]] = h[v[2][k][2]]
    BY <1>3, <2>1
  <2>3. [k \in DOMAIN v[2] |-> EncodeString(v[2][k][1]) \o g[v[2][k][2]]] =
        [k \in DOMAIN v[2] |-> EncodeString(v[2][k][1]) \o h[v[2][k][2]]]
    BY <2>2
  <2> DEFINE G == [k \in DOMAIN v[2] |-> EncodeString(v[2][k][1]) \o g[v[2][k][2]]]
             H == [k \in DOMAIN v[2] |-> EncodeString(v[2][k][1]) \o h[v[2][k][2]]]
  <2>4. EncodeBy(g, v) = EncodeBy(h, v)
    <3>1. EncodeBy(g, v) = <<D>> \o FlattenSeq(G) \o <<E>>
      BY <1>3, EncodeArms
    <3>2. EncodeBy(h, v) = <<D>> \o FlattenSeq(H) \o <<E>>
      BY <1>3, EncodeArms
    <3>3. G = H
      BY <2>3
    <3> HIDE DEF G, H
    <3> QED BY <3>1, <3>2, <3>3
  <2>5. LastPairs(v[2], g) = LastPairs(v[2], h)
    BY <2>2 DEF LastPairs
  <2>6. MeaningBy(g, v) = MeaningBy(h, v)
    <3>1. MeaningBy(g, v) = Dict(LastPairs(v[2], g))
      BY <1>3, MeaningArms
    <3>2. MeaningBy(h, v) = Dict(LastPairs(v[2], h))
      BY <1>3, MeaningArms
    <3> QED BY <2>5, <3>1, <3>2
  <2>7. PlainBy(g, v) = PlainBy(h, v)
    BY <1>3, <2>2, KindsDiffer DEF PlainBy
  <2> QED BY <2>4, <2>6, <2>7 DEF By
<1> QED BY <1>1, <1>2, <1>3, ValueCases

LEMMA ByExists ==
  ASSUME NEW what, NEW n \in Nat
  PROVE  \E f : f = [v \in Values[n] |-> By(what, f, v)]
<1> DEFINE Is(m, f) == f = [v \in Values[m] |-> By(what, f, v)]
           P == {m \in Nat : \E f : Is(m, f)}
<1>1. ASSUME NEW m \in Nat, \A l \in Nat : l < m => l \in P PROVE m \in P
  <2>1. PICK g : m # 0 => Is(m - 1, g)
    <3>1. CASE m = 0
      BY <3>1
    <3>2. CASE m # 0
      <4>1. m - 1 \in Nat /\ m - 1 < m
        BY <3>2
      <4> HIDE DEF Is
      <4> QED BY <1>1, <4>1
    <3> QED BY <3>1, <3>2
  <2>2. PICK h : h = [v \in Values[m] |-> By(what, g, v)]
    OBVIOUS
  <2>3. ASSUME m # 0, NEW c \in Values[m - 1] PROVE g[c] = h[c]
    <3>1. m - 1 \in Nat /\ m - 1 <= m
      BY <2>3
    <3>2. c \in Values[m]
      BY <3>1, LevelsGrow
    <3>3. g[c] = By(what, g, c)
      BY <2>1, <2>3
    <3> QED BY <2>2, <3>2, <3>3
  <2>4. \A v \in Values[m] : By(what, g, v) = By(what, h, v)
    BY <2>3, ByLocal
  <2>5. Is(m, h)
    BY <2>2, <2>4
  <2> HIDE DEF Is
  <2> QED BY <2>5
<1> HIDE DEF P, Is
<1>2. n \in P
  BY <1>1, Induction
<1> QED BY <1>2 DEF P, Is

LEMMA EncodingDef ==
  /\ \A v \in Values[Depth] : Encode[v] = EncodeBy(Encode, v)
  /\ \A v \in Values[Depth] : Meaning[v] = MeaningBy(Meaning, v)
  /\ \A v \in Values[Depth] : Plain[v] = PlainBy(Plain, v)
<1>0. Depth \in Nat
  BY ExchangeAssumption
<1> DEFINE Is(what, f) == f = [v \in Values[Depth] |-> By(what, f, v)]
<1>1. \A what : Is(what, CHOOSE f : Is(what, f))
  <2> SUFFICES ASSUME NEW what PROVE Is(what, CHOOSE f : Is(what, f))
    OBVIOUS
  <2>1. \E f : Is(what, f)
    BY <1>0, ByExists
  <2> HIDE DEF Is
  <2> QED BY <2>1
<1>2. Encode = CHOOSE f : f = [v \in Values[Depth] |-> EncodeBy(f, v)]
  BY DEF Encode, EncodeBy, AllValues
<1>3. Meaning = CHOOSE f : f = [v \in Values[Depth] |-> MeaningBy(f, v)]
  BY DEF Meaning, MeaningBy, AllValues
<1>4. Plain = CHOOSE f : f = [v \in Values[Depth] |-> PlainBy(f, v)]
  BY DEF Plain, PlainBy, AllValues
<1>5. \A f, v : /\ By("Encode", f, v) = EncodeBy(f, v) /\ By("Meaning", f, v) = MeaningBy(f, v)
                /\ By("Plain", f, v) = PlainBy(f, v)
  BY DEF By
<1>6. Encode = CHOOSE f : Is("Encode", f)
  BY <1>2, <1>5
<1>7. Meaning = CHOOSE f : Is("Meaning", f)
  BY <1>3, <1>5
<1>8. Plain = CHOOSE f : Is("Plain", f)
  BY <1>4, <1>5
<1>9. Is("Encode", Encode) /\ Is("Meaning", Meaning) /\ Is("Plain", Plain)
  <2> HIDE DEF Is
  <2> QED BY <1>1, <1>6, <1>7, <1>8
<1>10. \A v \in Values[Depth] : Encode[v] = EncodeBy(Encode, v)
  <2>1. Encode = [v \in Values[Depth] |-> By("Encode", Encode, v)]
    BY <1>9
  <2> QED BY <1>5, <2>1
<1>11. \A v \in Values[Depth] : Meaning[v] = MeaningBy(Meaning, v)
  <2>1. Meaning = [v \in Values[Depth] |-> By("Meaning", Meaning, v)]
    BY <1>9
  <2> QED BY <1>5, <2>1
<1>12. \A v \in Values[Depth] : Plain[v] = PlainBy(Plain, v)
  <2>1. Plain = [v \in Values[Depth] |-> By("Plain", Plain, v)]
    BY <1>9
  <2> QED BY <1>5, <2>1
<1> QED BY <1>10, <1>11, <1>12

(* What is written down for pairs is a string.                             *)
LEMMA PairsWritten ==
  ASSUME NEW V, NEW enc, \A v \in V : enc[v] \in Strings, NEW pairs \in Seq(Strings \X V)
  PROVE  /\ EachPair(enc, pairs) \in Seq(Strings) /\ Len(EachPair(enc, pairs)) = Len(pairs)
         /\ FlattenSeq(EachPair(enc, pairs)) \in Strings
<1> DEFINE parts == EachPair(enc, pairs)
<1>1. ASSUME NEW k \in 1..Len(pairs) PROVE EncodeString(pairs[k][1]) \o enc[pairs[k][2]] \in Strings
  <2>1. EncodeString(pairs[k][1]) \in Strings /\ enc[pairs[k][2]] \in Strings
    BY PairsLen, EncodedFirst
  <2> QED BY <2>1, Joined
<1>2. Len(pairs) \in Nat /\ DOMAIN pairs = 1..Len(pairs)
  BY PairsLen
<1>3. parts \in [1..Len(pairs) -> Strings]
  BY <1>1, <1>2 DEF EachPair
<1> HIDE DEF parts
<1>4. parts \in Seq(Strings) /\ Len(parts) = Len(pairs)
  BY <1>2, <1>3, SeqDef, LenProperties
<1>5. FlattenSeq(parts) \in Strings
  BY <1>4, Flat
<1> QED BY <1>4, <1>5 DEF parts

LEMMA Understood ==
  ASSUME NEW n \in Nat, n <= Depth, NEW v \in Values[n]
  PROVE  Good(Encode[v], Meaning[v])
<1> DEFINE P == {m \in Nat : m <= Depth => \A u \in Values[m] : Good(Encode[u], Meaning[u])}
<1>0. Depth \in Nat
  BY ExchangeAssumption
<1>1. ASSUME NEW m \in Nat, \A l \in Nat : l < m => l \in P PROVE m \in P
  <2> SUFFICES ASSUME m <= Depth, NEW u \in Values[m] PROVE Good(Encode[u], Meaning[u])
    OBVIOUS
  <2>1. u \in Values[Depth]
    BY <1>0, LevelsGrow
  <2>2. Encode[u] = EncodeBy(Encode, u) /\ Meaning[u] = MeaningBy(Meaning, u)
    BY <2>1, EncodingDef
  <2>3. m # 0 => \A c \in Values[m - 1] : Good(Encode[c], Meaning[c])
    <3> SUFFICES ASSUME m # 0 PROVE \A c \in Values[m - 1] : Good(Encode[c], Meaning[c])
      OBVIOUS
    <3>1. m - 1 \in Nat /\ m - 1 < m /\ m - 1 <= Depth
      BY <1>0
    <3>2. m - 1 \in P
      BY <1>1, <3>1
    <3> QED BY <3>1, <3>2
  <2>4. CASE u[1] = "BenString" /\ u[2] \in Strings /\ u = String(u[2])
    <3>1. Encode[u] = EncodeString(u[2]) /\ Meaning[u] = u
      BY <2>2, <2>4, EncodeArms, MeaningArms
    <3>2. Good(EncodeString(u[2]), String(u[2]))
      BY <2>4, ScalarsGood
    <3> QED BY <2>4, <3>1, <3>2
  <2>5. CASE u[1] = "BenInteger" /\ u[2] \in Int /\ u = Integer(u[2])
    <3>1. Encode[u] = EncodeInteger(u[2]) /\ Meaning[u] = u
      BY <2>2, <2>5, EncodeArms, MeaningArms
    <3>2. Good(EncodeInteger(u[2]), Integer(u[2]))
      BY <2>5, ScalarsGood
    <3> QED BY <2>5, <3>1, <3>2
  <2>6. CASE u[1] = "BenList" /\ u = List(u[2]) /\ m # 0 /\ u[2] \in Seq(Values[m - 1])
    <3> DEFINE F == FlattenSeq([k \in DOMAIN u[2] |-> Encode[u[2][k]]])
               ms == [k \in DOMAIN u[2] |-> Meaning[u[2][k]]]
    <3>1. Encode[u] = <<L>> \o F \o <<E>> /\ Meaning[u] = List(ms)
      <4>1. Encode[u] = <<L>> \o F \o <<E>>
        BY <2>2, <2>6, EncodeArms
      <4>2. Meaning[u] = List(ms)
        BY <2>2, <2>6, MeaningArms
      <4> QED BY <4>1, <4>2
    <3>2. GoodRest("items", F \o <<E>>, ms)
      BY <2>3, <2>6, ItemsGood
    <3>3. F \in Strings
      <4>1. \A c \in Values[m - 1] : Encode[c] \in Strings
        BY <2>3, <2>6 DEF Good
      <4>2. [k \in DOMAIN u[2] |-> Encode[u[2][k]]] \in Seq(Strings)
        BY <2>6, <4>1, MapSeq
      <4> QED BY <4>2, Flat
    <3> HIDE DEF F, ms
    <3>4. <<L>> \in Strings /\ <<E>> \in Strings
      BY NoDigits, OneByte
    <3>5. (<<L>> \o F) \o <<E>> = <<L>> \o (F \o <<E>>)
      BY <3>3, <3>4, JoinedTwice
    <3> QED BY <3>1, <3>2, <3>5, KindsGood
  <2>7. CASE u[1] = "BenDict" /\ u = Dict(u[2]) /\ m # 0 /\ u[2] \in Seq(Strings \X Values[m - 1])
    <3> DEFINE F == FlattenSeq([k \in DOMAIN u[2] |-> EncodeString(u[2][k][1]) \o Encode[u[2][k][2]]])
               dict == LastPairs(u[2], Meaning)
    <3>1. Encode[u] = <<D>> \o F \o <<E>> /\ Meaning[u] = Dict(dict)
      <4>1. Encode[u] = <<D>> \o F \o <<E>>
        BY <2>2, <2>7, EncodeArms
      <4>2. Meaning[u] = Dict(dict)
        BY <2>2, <2>7, MeaningArms
      <4> QED BY <4>1, <4>2
    <3>2. GoodRest("pairs", F \o <<E>>, dict)
      BY <2>3, <2>7, PairsGood
    <3>3. F \in Strings
      <4>1. \A c \in Values[m - 1] : Encode[c] \in Strings
        BY <2>3, <2>7 DEF Good
      <4>2. FlattenSeq(EachPair(Encode, u[2])) \in Strings
        BY <2>7, <4>1, PairsWritten
      <4> QED BY <4>2, Zenon DEF EachPair
    <3> HIDE DEF F, dict
    <3>4. <<D>> \in Strings /\ <<E>> \in Strings
      BY NoDigits, OneByte
    <3>5. (<<D>> \o F) \o <<E>> = <<D>> \o (F \o <<E>>)
      BY <3>3, <3>4, JoinedTwice
    <3> QED BY <3>1, <3>2, <3>5, KindsGood
  <2> QED BY <2>4, <2>5, <2>6, <2>7, ValueCases
<1> HIDE DEF P
<1>2. n \in P
  BY <1>1, Induction
<1> QED BY <1>2 DEF P

-----------------------------------------------------------------------------
(* The bytes of the info dictionary.                                       *)

InfoBy(f, data) ==
  LET key == ParseString(data)
      obj == ParseObject(key.rest)
  IN IF data = <<>> \/ data[1] = E \/ ~key.ok \/ ~obj.ok THEN Fail
     ELSE IF key.value = InfoKey THEN Parsed(Consumed(key.rest, obj.rest), <<>>)
     ELSE f[obj.rest]

LEMMA ConsumedIs ==
  ASSUME NEW s \in Strings, NEW t \in Strings, Len(t) < Len(s)
  PROVE  Consumed(s, t) \in Strings
<1> DEFINE n == Len(s) - Len(t)
<1>1. n \in Nat /\ 1 \in Nat \ {0} /\ n <= Len(s) /\ 1 <= n + 1
  BY StringLen
<1>2. Consumed(s, t) = SubSeq(s, 1, n)
  BY DEF Consumed
<1> HIDE DEF n
<1> QED BY <1>1, <1>2, Part

LEMMA InfoLooks ==
  ASSUME NEW d \in Strings
  PROVE  LET key == ParseString(d)
             obj == ParseObject(key.rest)
         IN key.ok /\ obj.ok => /\ obj.rest \in Strings /\ Len(obj.rest) < Len(d)
                                /\ Consumed(key.rest, obj.rest) \in Strings
<1> DEFINE key == ParseString(d)
           obj == ParseObject(key.rest)
<1> SUFFICES ASSUME key.ok, obj.ok
             PROVE  /\ obj.rest \in Strings /\ Len(obj.rest) < Len(d)
                    /\ Consumed(key.rest, obj.rest) \in Strings
  OBVIOUS
<1>1. key.rest \in Strings /\ Len(key.rest) < Len(d)
  BY StringShrinks, ShrinksOk
<1> HIDE DEF key
<1>2. Shrinks(obj, key.rest)
  BY <1>1, Parses
<1> HIDE DEF obj
<1>3. obj.rest \in Strings /\ Len(obj.rest) < Len(key.rest)
  BY <1>2, ShrinksOk
<1>4. Len(d) \in Nat /\ Len(key.rest) \in Nat /\ Len(obj.rest) \in Nat
  BY <1>1, <1>3, StringLen
<1>5. Consumed(key.rest, obj.rest) \in Strings
  BY <1>1, <1>3, ConsumedIs
<1> QED BY <1>1, <1>3, <1>4, <1>5

LEMMA InfoBytesDef ==
  \A d \in Strings : InfoBytes[d] = InfoBy(InfoBytes, d)
<1> DEFINE S == Strings
           R == {Fail} \cup {Parsed(s, <<>>) : s \in Strings}
           body == [g \in [S -> R] |-> [d \in S |-> InfoBy(g, d)]]
           rank == [d \in S |-> Len(d)]
<1>1. body \in [[S -> R] -> [S -> R]]
  <2>1. ASSUME NEW g \in [S -> R], NEW d \in S PROVE InfoBy(g, d) \in R
    <3> DEFINE key == ParseString(d)
               obj == ParseObject(key.rest)
    <3>1. CASE d = <<>> \/ d[1] = E \/ ~key.ok \/ ~obj.ok
      BY <3>1 DEF InfoBy
    <3>2. CASE ~(d = <<>> \/ d[1] = E \/ ~key.ok \/ ~obj.ok)
      <4>1. obj.rest \in Strings /\ Consumed(key.rest, obj.rest) \in Strings
        BY <3>2, InfoLooks
      <4>2. g[obj.rest] \in R
        <5> HIDE DEF R, obj
        <5> QED BY <4>1
      <4>3. InfoBy(g, d) = IF key.value = InfoKey THEN Parsed(Consumed(key.rest, obj.rest), <<>>)
                           ELSE g[obj.rest]
        BY <3>2 DEF InfoBy
      <4> HIDE DEF key, obj
      <4> QED BY <4>1, <4>2, <4>3
    <3> QED BY <3>1, <3>2
  <2> HIDE DEF R
  <2> QED BY <2>1
<1>2. rank \in [S -> Nat]
  BY StringLen
<1>3. Looking(S, R, rank, body)
  <2> SUFFICES ASSUME NEW g \in [S -> R], NEW h \in [S -> R], NEW d \in S,
                      \A t \in S : rank[t] < rank[d] => g[t] = h[t]
               PROVE  body[g][d] = body[h][d]
    BY DEF Looking
  <2> DEFINE key == ParseString(d)
             obj == ParseObject(key.rest)
  <2>1. body[g][d] = InfoBy(g, d) /\ body[h][d] = InfoBy(h, d)
    <3> HIDE DEF R
    <3> QED OBVIOUS
  <2>2. ASSUME key.ok, obj.ok PROVE g[obj.rest] = h[obj.rest]
    <3>1. obj.rest \in S /\ Len(obj.rest) < Len(d)
      BY <2>2, InfoLooks
    <3> HIDE DEF obj, R, body
    <3> QED BY <3>1
  <2>3. InfoBy(g, d) = InfoBy(h, d)
    BY <2>2 DEF InfoBy
  <2> HIDE DEF body
  <2> QED BY <2>1, <2>3
<1>4. PICK f \in [S -> R] : f = body[f]
  <2>1. R # {}
    OBVIOUS
  <2> HIDE DEF body, rank, S, R
  <2>2. PICK f \in [S -> R] : Fixed(f, body)
    BY <1>1, <1>2, <1>3, <2>1, FixedPoint
  <2> QED BY <2>2 DEF Fixed
<1> DEFINE Is(g) == g = [d \in Strings |-> InfoBy(g, d)]
<1>5. Is(f)
  <2> HIDE DEF R
  <2> QED BY <1>4
<1>6. InfoBytes = CHOOSE g : Is(g)
  BY DEF InfoBytes, InfoBy
<1>7. Is(InfoBytes)
  <2> HIDE DEF Is
  <2> QED BY <1>5, <1>6
<1> HIDE DEF R, body
<1> QED BY <1>7

LEMMA InfoStep ==
  ASSUME NEW key \in Strings, NEW w, NEW m, Good(w, m), NEW x \in Strings
  PROVE  /\ EncodeString(key) \o (w \o x) \in Strings
         /\ key = InfoKey => InfoBytes[EncodeString(key) \o (w \o x)] = Parsed(w, <<>>)
         /\ key # InfoKey => InfoBytes[EncodeString(key) \o (w \o x)] = InfoBytes[x]
<1> DEFINE d == EncodeString(key) \o (w \o x)
<1>1. w \in Strings /\ w \o x \in Strings
  BY Joined DEF Good
<1>2. d \in Strings /\ d # <<>> /\ d[1] # E
  <2> DEFINE e == EncodeString(key)
  <2>1. e \in Strings /\ e # <<>> /\ e[1] # E
    BY EncodedFirst, NoDigits
  <2> HIDE DEF e
  <2> QED BY <1>1, <2>1, SameFirst DEF e
<1>3. ParseString(d) = Parsed(key, w \o x)
  BY <1>1, StringParsed
<1>4. ParseObject(w \o x) = Parsed(m, x)
  BY DEF Good
<1>5. Consumed(w \o x, x) = w
  <2>1. Len(w \o x) - Len(x) = Len(w)
    <3>1. Len(w \o x) = Len(w) + Len(x) /\ Len(w) \in Nat /\ Len(x) \in Nat
      BY <1>1, Joined, StringLen
    <3> QED BY <3>1
  <2> QED BY <1>1, <2>1, Cuts DEF Consumed
<1> HIDE DEF d
<1>6. InfoBytes[d] = IF key = InfoKey THEN Parsed(w, <<>>) ELSE InfoBytes[x]
  <2>1. InfoBytes[d] = InfoBy(InfoBytes, d)
    BY <1>2, InfoBytesDef
  <2>2. /\ ParseString(d).ok = TRUE /\ ParseString(d).value = key /\ ParseString(d).rest = w \o x
        /\ ParseObject(ParseString(d).rest).ok = TRUE /\ ParseObject(ParseString(d).rest).rest = x
    <3>1. ParseString(d).ok = TRUE /\ ParseString(d).value = key /\ ParseString(d).rest = w \o x
      <4>1. PICK name, y : name = ParseString(d) /\ y = w \o x
        OBVIOUS
      <4>2. name = Parsed(key, y)
        BY <1>3, <4>1 DEF d
      <4>3. name.ok = TRUE /\ name.value = key /\ name.rest = y
        BY <4>2, Outcomes
      <4> QED BY <4>1, <4>3
    <3>2. ParseObject(w \o x).ok = TRUE /\ ParseObject(w \o x).rest = x
      <4>1. PICK obj : obj = ParseObject(w \o x)
        OBVIOUS
      <4>2. obj.ok = TRUE /\ obj.rest = x
        BY <1>4, <4>1, Outcomes
      <4> QED BY <4>1, <4>2
    <3> QED BY <3>1, <3>2
  <2> QED BY <1>2, <1>5, <2>1, <2>2 DEF InfoBy
<1> QED BY <1>2, <1>6 DEF d

(* Pair k is the first of the name info.                                   *)
FirstOfInfo(pairs, k) ==
  k \in DOMAIN pairs /\ pairs[k][1] = InfoKey /\ \A j \in DOMAIN pairs : pairs[j][1] = InfoKey => k <= j

AllGood(V, enc, mean) == \A v \in V : Good(enc[v], mean[v])

(* Of the pairs' bytes, whatever comes behind, those of pair k are taken.  *)
TakesInfo(enc, pairs, k, x) ==
  InfoBytes[FlattenSeq(EachPair(enc, pairs)) \o x] = Parsed(enc[pairs[k][2]], <<>>)

LEMMA InfoOfPairs ==
  ASSUME NEW V, NEW enc, NEW mean, AllGood(V, enc, mean),
         NEW pairs \in Seq(Strings \X V), NEW k, FirstOfInfo(pairs, k), NEW x \in Strings
  PROVE  TakesInfo(enc, pairs, k, x)
<1> DEFINE S == Strings \X V
           write == [p \in S |-> EncodeString(p[1]) \o enc[p[2]]]
           Encs(s) == [i \in DOMAIN s |-> write[s[i]]]
           P == {n \in Nat : \A s \in Seq(S) : \A i : Len(s) = n /\ FirstOfInfo(s, i) =>
                   InfoBytes[FlattenSeq(Encs(s)) \o x] = Parsed(enc[s[i][2]], <<>>)}
<1>1. ASSUME NEW p \in S
      PROVE  /\ p[1] \in Strings /\ p[2] \in V /\ write[p] \in Strings
             /\ write[p] = EncodeString(p[1]) \o enc[p[2]]
             /\ EncodeString(p[1]) \in Strings /\ enc[p[2]] \in Strings
  <2>1. p[1] \in Strings /\ p[2] \in V /\ write[p] = EncodeString(p[1]) \o enc[p[2]]
    OBVIOUS
  <2>2. EncodeString(p[1]) \in Strings /\ enc[p[2]] \in Strings
    BY <2>1, EncodedString DEF Good, AllGood
  <2> QED BY <2>1, <2>2, Joined
<1>2. ASSUME NEW n \in Nat, \A l \in Nat : l < n => l \in P PROVE n \in P
  <2> SUFFICES ASSUME NEW s \in Seq(S), NEW i, Len(s) = n, FirstOfInfo(s, i)
               PROVE  InfoBytes[FlattenSeq(Encs(s)) \o x] = Parsed(enc[s[i][2]], <<>>)
    OBVIOUS
  <2>1. /\ n \in Nat /\ DOMAIN s = 1..n /\ i \in 1..n /\ n > 0 /\ s # <<>> /\ s[i][1] = InfoKey
        /\ \A j \in 1..n : s[j][1] = InfoKey => i <= j
    <3>1. DOMAIN s = 1..n
      BY LenProperties
    <3> HIDE DEF S
    <3>2. n > 0
      BY <3>1 DEF FirstOfInfo
    <3>3. s # <<>>
      BY <3>2
    <3> QED BY <3>1, <3>2, <3>3 DEF FirstOfInfo
  <2>2. /\ Encs(s) \in Seq(Strings)
        /\ s[1] \in S /\ Tail(s) \in Seq(S) /\ Len(Tail(s)) = n - 1
        /\ Encs(s) # <<>> /\ Encs(s)[1] = write[s[1]] /\ Tail(Encs(s)) = Encs(Tail(s))
    <3>1. \A p \in S : write[p] \in Strings
      BY <1>1
    <3> HIDE DEF write
    <3>2. /\ Encs(s) \in Seq(Strings)
          /\ s # <<>> => /\ s[1] \in S /\ Tail(s) \in Seq(S) /\ Len(Tail(s)) = Len(s) - 1
                         /\ Encs(s) # <<>> /\ Encs(s)[1] = write[s[1]]
                         /\ Tail(Encs(s)) = Encs(Tail(s))
      BY <3>1, MapSeq
    <3> HIDE DEF Encs
    <3> QED BY <2>1, <3>2
  <2>3. \A j \in 1..n - 1 : Tail(s)[j] = s[j + 1]
    <3> HIDE DEF S
    <3> QED BY <2>1, HeadTailProperties
  <2> HIDE DEF Encs, write
  <2> DEFINE rest == FlattenSeq(Encs(Tail(s)))
             key == s[1][1]
             w == enc[s[1][2]]
  <2>4. rest \in Strings /\ FlattenSeq(Encs(s)) = write[s[1]] \o rest
    BY <2>2, Flat
  <2>5. /\ key \in Strings /\ Good(w, mean[s[1][2]]) /\ w \in Strings /\ EncodeString(key) \in Strings
        /\ write[s[1]] = EncodeString(key) \o w
    BY <1>1, <2>2 DEF AllGood
  <2> HIDE DEF rest, key, w
  <2>6. rest \o x \in Strings
    BY <2>4, Joined
  <2>7. FlattenSeq(Encs(s)) \o x = EncodeString(key) \o (w \o (rest \o x))
    <3>1. PICK e \in Strings : e = EncodeString(key)
      BY <2>5
    <3>2. e \o w \in Strings
      BY <2>5, Joined
    <3>3. ((e \o w) \o rest) \o x = (e \o w) \o (rest \o x)
      BY <2>4, <3>2, JoinedTwice
    <3>4. (e \o w) \o (rest \o x) = e \o (w \o (rest \o x))
      BY <2>5, <2>6, JoinedTwice
    <3> QED BY <2>4, <2>5, <3>1, <3>3, <3>4
  <2>8. CASE key = InfoKey
    <3>1. i = 1
      <4>1. 1 \in 1..n /\ s[1][1] = InfoKey
        BY <2>1, <2>8 DEF key
      <4> QED BY <2>1, <4>1
    <3> QED BY <2>5, <2>6, <2>7, <2>8, <3>1, InfoStep DEF w
  <2>9. CASE key # InfoKey
    <3>1. i # 1
      BY <2>1, <2>9 DEF key
    <3>2. i - 1 \in 1..n - 1 /\ n - 1 \in Nat /\ n - 1 < n
      BY <2>1, <3>1
    <3>3. FirstOfInfo(Tail(s), i - 1) /\ Tail(s)[i - 1] = s[i]
      <4>1. DOMAIN Tail(s) = 1..n - 1
        BY <2>2, LenProperties
      <4>2. Tail(s)[i - 1] = s[i]
        BY <2>3, <3>2, <2>1
      <4>3. ASSUME NEW j \in 1..n - 1, Tail(s)[j][1] = InfoKey PROVE i - 1 <= j
        <5>1. j + 1 \in 1..n /\ s[j + 1][1] = InfoKey
          BY <2>1, <2>3, <4>3
        <5>2. i <= j + 1
          BY <2>1, <5>1
        <5> QED BY <2>1, <5>2
      <4> QED BY <2>1, <3>2, <4>1, <4>2, <4>3 DEF FirstOfInfo
    <3>4. InfoBytes[rest \o x] = Parsed(enc[s[i][2]], <<>>)
      <4>1. n - 1 \in P
        BY <1>2, <3>2
      <4>2. \A t \in Seq(S) : \A j : Len(t) = n - 1 /\ FirstOfInfo(t, j) =>
              InfoBytes[FlattenSeq(Encs(t)) \o x] = Parsed(enc[t[j][2]], <<>>)
        BY <4>1
      <4>3. PICK t \in Seq(S) : t = Tail(s)
        BY <2>2
      <4>4. InfoBytes[FlattenSeq(Encs(t)) \o x] = Parsed(enc[t[i - 1][2]], <<>>)
        BY <2>2, <3>3, <4>2, <4>3
      <4> QED BY <3>3, <4>3, <4>4 DEF rest
    <3> QED BY <2>5, <2>6, <2>7, <2>9, <3>4, InfoStep
  <2> QED BY <2>8, <2>9
<1> HIDE DEF P
<1>3. \A n \in Nat : n \in P
  BY <1>2, Induction
<1>4. Len(pairs) \in Nat
  BY LenProperties
<1>5. InfoBytes[FlattenSeq(Encs(pairs)) \o x] = Parsed(enc[pairs[k][2]], <<>>)
  BY <1>3, <1>4 DEF P
<1>6. Encs(pairs) = EachPair(enc, pairs)
  <2>1. \A i \in DOMAIN pairs : pairs[i] \in S
    BY PairsLen, ElementOfSeq
  <2>2. \A i \in DOMAIN pairs : write[pairs[i]] = EncodeString(pairs[i][1]) \o enc[pairs[i][2]]
    BY <1>1, <2>1
  <2> HIDE DEF write
  <2> QED BY <2>2 DEF EachPair
<1> QED BY <1>5, <1>6 DEF TakesInfo

LEMMA LastExists ==
  ASSUME NEW V, NEW pairs \in Seq(Strings \X V), NEW key \in Keys(pairs)
  PROVE  \E k \in DOMAIN pairs : pairs[k][1] = key /\ LastOfKey(pairs, k)
<1> DEFINE Is(k) == k \in DOMAIN pairs /\ pairs[k][1] = key /\ LastOfKey(pairs, k)
<1>1. Len(pairs) \in Nat /\ DOMAIN pairs = 1..Len(pairs)
  BY PairsLen
<1>2. \E k : Is(k)
  <2> DEFINE T == {k \in 1..Len(pairs) : pairs[k][1] = key}
             P == {n \in Nat : Len(pairs) - n \in T => \E k : Is(k)}
  <2>1. ASSUME NEW n \in Nat, \A m \in Nat : m < n => m \in P PROVE n \in P
    <3> SUFFICES ASSUME Len(pairs) - n \in T PROVE \E k : Is(k)
      OBVIOUS
    <3>1. PICK k : k = Len(pairs) - n
      OBVIOUS
    <3>2. k \in DOMAIN pairs /\ pairs[k][1] = key
      BY <1>1, <3>1
    <3>3. CASE LastOfKey(pairs, k)
      BY <3>2, <3>3
    <3>4. CASE ~LastOfKey(pairs, k)
      <4>1. PICK j \in DOMAIN pairs : pairs[j][1] = pairs[k][1] /\ ~(j <= k)
        BY <3>4 DEF LastOfKey
      <4>2. j \in T /\ Len(pairs) - j \in Nat /\ Len(pairs) - j < n /\ Len(pairs) - (Len(pairs) - j) = j
        <5>1. j \in 1..Len(pairs) /\ k \in 1..Len(pairs) /\ pairs[j][1] = key
          BY <1>1, <3>2, <4>1
        <5> QED BY <1>1, <3>1, <4>1, <5>1
      <4>3. Len(pairs) - j \in P
        BY <2>1, <4>2
      <4> HIDE DEF Is, T
      <4> QED BY <4>2, <4>3
    <3> QED BY <3>3, <3>4
  <2>2. PICK k \in DOMAIN pairs : pairs[k][1] = key
    BY DEF Keys
  <2>3. Len(pairs) - k \in Nat /\ Len(pairs) - (Len(pairs) - k) = k /\ k \in T
    BY <1>1, <2>2
  <2> HIDE DEF P, T, Is
  <2>4. Len(pairs) - k \in P
    BY <2>1, <2>3, Induction
  <2> QED BY <2>3, <2>4 DEF P
<1> QED BY <1>2

LEMMA KeysOfLast ==
  ASSUME NEW V, NEW pairs \in Seq(Strings \X V), NEW mean
  PROVE  KeysOf(LastPairs(pairs, mean)) = Keys(pairs)
<1>1. ASSUME NEW key \in Keys(pairs) PROVE key \in KeysOf(LastPairs(pairs, mean))
  <2>1. PICK k \in DOMAIN pairs : pairs[k][1] = key /\ LastOfKey(pairs, k)
    BY LastExists
  <2>2. PICK pair : pair = <<pairs[k][1], mean[pairs[k][2]]>>
    OBVIOUS
  <2>3. pair \in LastPairs(pairs, mean) /\ pair[1] = key
    BY <2>1, <2>2 DEF LastPairs
  <2> QED BY <2>3 DEF KeysOf
<1>2. ASSUME NEW key \in KeysOf(LastPairs(pairs, mean)) PROVE key \in Keys(pairs)
  BY DEF KeysOf, LastPairs, Keys
<1> QED BY <1>1, <1>2

(* A dictionary that is written down, and what comes of it.                *)
LEMMA DictUnderstood ==
  ASSUME NEW v \in Values[Depth], v[1] = "BenDict"
  PROVE  /\ Encode[v] \in Strings
         /\ \A t \in Strings : ParseDict(Encode[v] \o t) = Parsed(Meaning[v][2], t)
         /\ \A p : Cut(p, Encode[v]) => ParseDict(p) = Fail
         /\ Meaning[v] = Dict(LastPairs(v[2], Meaning)) /\ Meaning[v][2] = LastPairs(v[2], Meaning)
         /\ KeysOf(LastPairs(v[2], Meaning)) = Keys(v[2])
         /\ \A k, t : FirstOfInfo(v[2], k) /\ t \in Strings =>
              ExtractInfoDictBytes(Encode[v] \o t) = Parsed(Encode[v[2][k][2]], <<>>)
<1>0. Depth \in Nat
  BY ExchangeAssumption
<1>1. Depth # 0 /\ v[2] \in Seq(Strings \X Values[Depth - 1])
  BY <1>0, ValueCases, KindsDiffer
<1> DEFINE V == Values[Depth - 1]
           F == FlattenSeq(EachPair(Encode, v[2]))
           dict == LastPairs(v[2], Meaning)
           u == F \o <<E>>
           w == <<D>> \o u
<1>10. v[2] \in Seq(Strings \X V)
  BY <1>1
<1>2. \A c \in V : Good(Encode[c], Meaning[c])
  <2>1. Depth - 1 \in Nat /\ Depth - 1 <= Depth
    BY <1>0, <1>1
  <2> QED BY <2>1, Understood
<1>3. Meaning[v] = Dict(dict) /\ Meaning[v][2] = dict
  <2>1. Meaning[v] = Dict(dict)
    BY EncodingDef, MeaningArms
  <2> HIDE DEF dict
  <2> QED BY <2>1 DEF Dict
<1>4. GoodRest("pairs", u, dict) /\ KeysOf(dict) = Keys(v[2])
  <2>1. /\ GoodRest("pairs",
             FlattenSeq([k \in DOMAIN v[2] |-> EncodeString(v[2][k][1]) \o Encode[v[2][k][2]]]) \o <<E>>,
             LastPairs(v[2], Meaning))
        /\ KeysOf(LastPairs(v[2], Meaning)) = Keys(v[2])
    <3> HIDE DEF V
    <3>1. GoodRest("pairs",
             FlattenSeq([k \in DOMAIN v[2] |-> EncodeString(v[2][k][1]) \o Encode[v[2][k][2]]]) \o <<E>>,
             LastPairs(v[2], Meaning))
      BY <1>2, <1>10, PairsGood
    <3>2. KeysOf(LastPairs(v[2], Meaning)) = Keys(v[2])
      BY <1>10, KeysOfLast
    <3> QED BY <3>1, <3>2
  <2> QED BY <2>1, Zenon DEF EachPair
<1>5. F \in Strings
  <2>1. \A c \in V : Encode[c] \in Strings
    BY <1>2 DEF Good
  <2> QED BY <1>1, <2>1, PairsWritten
<1>6. Encode[v] = <<D>> \o F \o <<E>>
  <2>1. Encode[v] = EncodeBy(Encode, v)
    BY EncodingDef
  <2>2. EncodeBy(Encode, v) =
          <<D>> \o FlattenSeq([k \in DOMAIN v[2] |-> EncodeString(v[2][k][1]) \o Encode[v[2][k][2]]])
                \o <<E>>
    BY EncodeArms
  <2> QED BY <2>1, <2>2, Zenon DEF EachPair
<1>7. Encode[v] = w /\ u \in Strings /\ w \in Strings
  <2> HIDE DEF F
  <2>1. <<D>> \in Strings /\ <<E>> \in Strings
    BY NoDigits, OneByte
  <2>2. (<<D>> \o F) \o <<E>> = <<D>> \o (F \o <<E>>)
    BY <1>5, <2>1, JoinedTwice
  <2>3. u \in Strings
    BY <1>5, <2>1, Joined
  <2> QED BY <1>6, <2>1, <2>2, <2>3, Joined
<1>8. ASSUME NEW k, NEW t \in Strings, FirstOfInfo(v[2], k)
      PROVE  ExtractInfoDictBytes(w \o t) = Parsed(Encode[v[2][k][2]], <<>>)
  <2> HIDE DEF F
  <2>1. <<D>> \in Strings /\ <<E>> \in Strings
    BY NoDigits, OneByte
  <2>2. w \o t = <<D>> \o (u \o t) /\ u \o t = F \o (<<E>> \o t)
    <3>1. (F \o <<E>>) \o t = F \o (<<E>> \o t)
      BY <1>5, <2>1, JoinedTwice
    <3> HIDE DEF u
    <3>2. (<<D>> \o u) \o t = <<D>> \o (u \o t)
      BY <1>7, <2>1, JoinedTwice
    <3> QED BY <3>1, <3>2 DEF u
  <2>3. <<E>> \o t \in Strings
    BY <2>1, Joined
  <2>4. InfoBytes[F \o (<<E>> \o t)] = Parsed(Encode[v[2][k][2]], <<>>)
    <3> HIDE DEF V
    <3>1. InfoBytes[FlattenSeq(EachPair(Encode, v[2])) \o (<<E>> \o t)] = Parsed(Encode[v[2][k][2]], <<>>)
      <4>1. AllGood(V, Encode, Meaning)
        BY <1>2 DEF AllGood
      <4>2. PICK x \in Strings : x = <<E>> \o t
        BY <2>3
      <4>3. InfoBytes[FlattenSeq(EachPair(Encode, v[2])) \o x] = Parsed(Encode[v[2][k][2]], <<>>)
        <5>1. TakesInfo(Encode, v[2], k, x)
          BY <1>8, <1>10, <4>1, InfoOfPairs
        <5> QED BY <5>1 DEF TakesInfo
      <4> QED BY <4>2, <4>3
    <3> QED BY <3>1 DEF F
  <2>5. PICK x : x = u \o t
    OBVIOUS
  <2>6. x \in Strings /\ Len(x) > 0 /\ Len(x) \in Nat
    <3>1. u # <<>>
      BY <1>4, RestNotNothing
    <3> HIDE DEF u
    <3>2. u \o t \in Strings /\ u \o t # <<>>
      BY <1>7, <3>1, SameFirst
    <3> QED BY <2>5, <3>2, StringLen
  <2> DEFINE d == <<D>> \o x
  <2>7. d \in Strings /\ Len(d) = Len(x) + 1 /\ d[1] = D /\ Tail(d) = x
    BY <2>6, NoDigits, FirstByteOf
  <2> HIDE DEF d
  <2>8. ExtractInfoDictBytes(d) = InfoBytes[x]
    <3>1. ~(Len(d) < 2)
      BY <2>6, <2>7
    <3> QED BY <2>7, <3>1 DEF ExtractInfoDictBytes
  <2> QED BY <2>2, <2>4, <2>5, <2>8 DEF d
<1> HIDE DEF u, dict
<1>9. /\ \A t \in Strings : ParseDict(w \o t) = Parsed(dict, t)
      /\ \A p : Cut(p, w) => ParseDict(p) = Fail
  BY <1>4, KindsGood
<1> QED BY <1>3, <1>4, <1>7, <1>8, <1>9 DEF dict

(* The value that counts for a key, in a dictionary that is written down   *)
(* as pairs.                                                               *)
IsSaid(pairs, key, k) ==
  /\ k \in DOMAIN pairs /\ pairs[k][1] = key /\ LastOfKey(pairs, k) /\ Said(pairs, key) = pairs[k][2]
  /\ \A j \in DOMAIN pairs : pairs[j][1] = key /\ LastOfKey(pairs, j) => j = k

LEMMA SaidFacts ==
  ASSUME NEW V, NEW pairs \in Seq(Strings \X V), NEW key \in Keys(pairs)
  PROVE  /\ Said(pairs, key) \in V
         /\ \E k : IsSaid(pairs, key, k)
<1> DEFINE Is(k) == k \in DOMAIN pairs /\ pairs[k][1] = key /\ LastOfKey(pairs, k)
<1>1. Len(pairs) \in Nat /\ DOMAIN pairs = 1..Len(pairs)
  BY PairsLen
<1>2. \E k : Is(k)
  BY LastExists
<1>3. ASSUME NEW j, Is(j), NEW k, Is(k) PROVE j = k
  BY <1>1, <1>3 DEF LastOfKey
<1>4. PICK k : Is(k)
  BY <1>2
<1>5. Said(pairs, key) = pairs[k][2]
  <2>1. \A j : Is(j) <=> j = k
    BY <1>3, <1>4
  <2>2. (CHOOSE j \in DOMAIN pairs : pairs[j][1] = key /\ LastOfKey(pairs, j)) = k
    BY <1>3, <1>4
  <2> QED BY <2>2 DEF Said
<1>6. Said(pairs, key) \in V
  BY <1>1, <1>4, <1>5, PairsLen
<1> QED BY <1>3, <1>4, <1>5, <1>6 DEF IsSaid

LEMMA SaidValue ==
  ASSUME NEW V, NEW pairs \in Seq(Strings \X V), NEW mean, NEW key \in Keys(pairs)
  PROVE  ValueOf(LastPairs(pairs, mean), key) = mean[Said(pairs, key)]
<1> DEFINE Is(k) == k \in DOMAIN pairs /\ pairs[k][1] = key /\ LastOfKey(pairs, k)
<1>0. PICK k : IsSaid(pairs, key, k)
  BY SaidFacts
<1>1. /\ k \in DOMAIN pairs /\ pairs[k][1] = key /\ LastOfKey(pairs, k) /\ Said(pairs, key) = pairs[k][2]
      /\ \A j \in DOMAIN pairs : pairs[j][1] = key /\ LastOfKey(pairs, j) => j = k
  BY <1>0 DEF IsSaid
<1>2. ValueOf(LastPairs(pairs, mean), key) = mean[pairs[k][2]]
  <2>1. PICK pair : pair = <<pairs[k][1], mean[pairs[k][2]]>>
    OBVIOUS
  <2>2. pair \in LastPairs(pairs, mean) /\ pair[1] = key
    BY <1>1, <2>1 DEF LastPairs
  <2>3. ASSUME NEW other \in LastPairs(pairs, mean), other[1] = key PROVE other = pair
    <3>1. PICK j \in DOMAIN pairs : LastOfKey(pairs, j) /\ other = <<pairs[j][1], mean[pairs[j][2]]>>
      BY DEF LastPairs
    <3>2. Is(j)
      BY <2>3, <3>1
    <3>3. j = k
      BY <1>1, <3>2
    <3> QED BY <2>1, <3>1, <3>3
  <2>4. (CHOOSE p \in LastPairs(pairs, mean) : p[1] = key) = pair
    <3> DEFINE chosen == CHOOSE p \in LastPairs(pairs, mean) : p[1] = key
    <3>1. chosen \in LastPairs(pairs, mean) /\ chosen[1] = key
      BY <2>2
    <3> HIDE DEF chosen
    <3>2. chosen = pair
      BY <2>3, <3>1
    <3> QED BY <3>2 DEF chosen
  <2>5. ValueOf(LastPairs(pairs, mean), key) = (CHOOSE p \in LastPairs(pairs, mean) : p[1] = key)[2]
    BY DEF ValueOf
  <2>6. pair[2] = mean[pairs[k][2]]
    BY <2>1
  <2> QED BY <2>4, <2>5, <2>6
<1> QED BY <1>1, <1>2

-----------------------------------------------------------------------------
(* A file or an answer, whole or cut short.                                *)

WrittenDown(v, p) == \E tail \in Trailers : \E n \in 0..Len(Encode[v] \o tail) : p = SubSeq(Encode[v] \o tail, 1, n)

LEMMA DictTaken ==
  ASSUME NEW v \in Metainfos \cup Answers, NEW p, WrittenDown(v, p)
  PROVE  /\ v \in Values[Depth] /\ v[1] = "BenDict"
         /\ Len(p) < Len(Encode[v]) => ParseDict(p) = Fail
         /\ Len(p) >= Len(Encode[v]) =>
              \E t \in Strings : p = Encode[v] \o t /\ ParseDict(p) = Parsed(Meaning[v][2], t)
         /\ Len(p) < Len(Encode[v]) \/ Len(p) >= Len(Encode[v])
<1>1. v \in Values[Depth] /\ v[1] = "BenDict" /\ Trailers \subseteq Strings
  BY ExchangeAssumption
<1> DEFINE w == Encode[v]
<1>2. /\ w \in Strings /\ \A t \in Strings : ParseDict(w \o t) = Parsed(Meaning[v][2], t)
      /\ \A q : Cut(q, w) => ParseDict(q) = Fail
  BY <1>1, DictUnderstood
<1>3. PICK tail \in Strings : \E n \in 0..Len(w \o tail) : p = SubSeq(w \o tail, 1, n)
  BY <1>1 DEF WrittenDown
<1> HIDE DEF w
<1>4. /\ p \in Strings /\ Len(p) < Len(w) => Cut(p, w)
      /\ Len(p) >= Len(w) => \E q \in Strings : p = w \o q
  BY <1>2, <1>3, CutOrWhole
<1>5. Len(p) < Len(w) \/ Len(p) >= Len(w)
  <2>1. Len(p) \in Nat /\ Len(w) \in Nat
    BY <1>2, <1>3, <1>4, CutOrWhole, StringLen
  <2> QED BY <2>1
<1>6. Len(p) < Len(w) => ParseDict(p) = Fail
  BY <1>2, <1>3, <1>4, CutOrWhole
<1>7. Len(p) >= Len(w) => \E t \in Strings : p = w \o t /\ ParseDict(p) = Parsed(Meaning[v][2], t)
  BY <1>2, <1>4
<1> QED BY <1>1, <1>5, <1>6, <1>7 DEF w

(* A file that is taken is whole, and its data is what was written; if it  *)
(* says info once, it is taken when it is whole, with that dictionary's    *)
(* bytes.                                                                  *)
LEMMA FileTaken ==
  ASSUME NEW v \in Metainfos, NEW p, WrittenDown(v, p)
  PROVE  LET torrent == ParseTorrentFile(p) IN
         /\ torrent.ok \in BOOLEAN
         /\ torrent.ok => /\ Len(p) >= Len(Encode[v]) /\ torrent.Data = Meaning[v][2]
                          /\ [torrent EXCEPT !.Data = ReloadedDict(@)].ok
                          /\ [torrent EXCEPT !.Data = ReloadedDict(@)].Data = ReloadedDict(Meaning[v][2])
         /\ OneInfo /\ Len(p) >= Len(Encode[v]) =>
              torrent.ok /\ torrent.InfoHash = Encode[v[2][At(v[2], InfoKey)][2]]
<1> DEFINE metainfo == ParseDict(p)
           info == ExtractInfoDictBytes(p)
           torrent == ParseTorrentFile(p)
           mode == IF FilesKey \in KeysOf(ValueOf(metainfo.value, InfoKey)[2])
                   THEN "MultiFileMode" ELSE "SingleFileMode"
           whole == [ok |-> TRUE, Data |-> metainfo.value, TFileMode |-> mode, InfoHash |-> info.value]
           Takes == /\ metainfo.ok /\ info.ok
                    /\ InfoKey \in KeysOf(metainfo.value)
                    /\ ValueOf(metainfo.value, InfoKey)[1] = "BenDict"
<1>1. torrent = IF Takes THEN whole ELSE Fail
  BY DEF ParseTorrentFile
<1>2. /\ v \in Values[Depth] /\ v[1] = "BenDict"
      /\ Len(p) < Len(Encode[v]) => metainfo = Fail
      /\ Len(p) >= Len(Encode[v]) =>
           \E t \in Strings : p = Encode[v] \o t /\ metainfo = Parsed(Meaning[v][2], t)
      /\ Len(p) < Len(Encode[v]) \/ Len(p) >= Len(Encode[v])
  BY DictTaken
<1>3. /\ whole.ok = TRUE /\ whole.Data = metainfo.value /\ whole.InfoHash = info.value
      /\ [whole EXCEPT !.Data = ReloadedDict(@)].ok = TRUE
      /\ [whole EXCEPT !.Data = ReloadedDict(@)].Data = ReloadedDict(metainfo.value)
  <2> HIDE DEF metainfo, info, mode
  <2> QED OBVIOUS
<1> HIDE DEF metainfo, info, torrent, mode, whole
<1>4. torrent.ok \in BOOLEAN /\ (torrent.ok <=> Takes)
  BY <1>1, <1>3, Outcomes
<1>5. ASSUME torrent.ok
      PROVE  /\ Len(p) >= Len(Encode[v]) /\ torrent.Data = Meaning[v][2]
             /\ [torrent EXCEPT !.Data = ReloadedDict(@)].ok
             /\ [torrent EXCEPT !.Data = ReloadedDict(@)].Data = ReloadedDict(Meaning[v][2])
  <2>1. metainfo.ok /\ torrent = whole
    BY <1>1, <1>4, <1>5
  <2>2. Len(p) >= Len(Encode[v])
    BY <1>2, <2>1, Outcomes
  <2>3. metainfo.value = Meaning[v][2]
    BY <1>2, <2>2, Outcomes
  <2> QED BY <1>3, <2>1, <2>2, <2>3
<1>6. ASSUME OneInfo, Len(p) >= Len(Encode[v])
      PROVE  torrent.ok /\ torrent.InfoHash = Encode[v[2][At(v[2], InfoKey)][2]]
  <2>1. PICK t \in Strings : p = Encode[v] \o t /\ metainfo = Parsed(Meaning[v][2], t)
    BY <1>2, <1>6
  <2>2. PICK k \in DOMAIN v[2] : /\ v[2][k][1] = InfoKey /\ v[2][k][2][1] = "BenDict"
                                 /\ \A j \in DOMAIN v[2] : v[2][j][1] = InfoKey => j = k
    BY <1>6 DEF OneInfo
  <2>3. /\ Depth \in Nat /\ Depth # 0 /\ v[2] \in Seq(Strings \X Values[Depth - 1])
        /\ DOMAIN v[2] = 1..Len(v[2]) /\ Len(v[2]) \in Nat
    <3>1. Depth \in Nat
      BY ExchangeAssumption
    <3>2. Depth # 0 /\ v[2] \in Seq(Strings \X Values[Depth - 1])
      BY <1>2, <3>1, ValueCases, KindsDiffer
    <3> QED BY <3>1, <3>2, PairsLen
  <2>4. At(v[2], InfoKey) = k
    BY <2>2 DEF At
  <2>5. FirstOfInfo(v[2], k)
    <3>1. k <= k
      BY <2>3
    <3> QED BY <2>2, <3>1 DEF FirstOfInfo
  <2>6. info = Parsed(Encode[v[2][k][2]], <<>>)
    BY <1>2, <2>1, <2>5, DictUnderstood DEF info
  <2>7. InfoKey \in Keys(v[2]) /\ LastOfKey(v[2], k)
    <3>1. \A j \in DOMAIN v[2] : v[2][j][1] = v[2][k][1] => j <= k
      BY <2>2, <2>3
    <3> QED BY <2>2, <3>1 DEF Keys, LastOfKey
  <2>8. /\ Meaning[v][2] = LastPairs(v[2], Meaning) /\ KeysOf(LastPairs(v[2], Meaning)) = Keys(v[2])
    BY <1>2, DictUnderstood
  <2>9. ValueOf(LastPairs(v[2], Meaning), InfoKey) = Meaning[v[2][k][2]]
    <3>1. Said(v[2], InfoKey) = v[2][k][2]
      <4>1. PICK j : IsSaid(v[2], InfoKey, j)
        BY <2>3, <2>7, SaidFacts
      <4> QED BY <2>2, <4>1 DEF IsSaid
    <3>2. ValueOf(LastPairs(v[2], Meaning), InfoKey) = Meaning[Said(v[2], InfoKey)]
      BY <2>3, <2>7, SaidValue
    <3> QED BY <3>1, <3>2
  <2>10. Meaning[v[2][k][2]][1] = "BenDict"
    <3>1. v[2][k][2] \in Values[Depth - 1]
      BY <2>3, PairsLen
    <3>2. v[2][k][2] \in Values[Depth]
      <4>1. Depth - 1 \in Nat /\ Depth - 1 <= Depth
        BY <2>3
      <4> QED BY <2>3, <3>1, <4>1, LevelsGrow
    <3>3. Meaning[v[2][k][2]] = Dict(LastPairs(v[2][k][2][2], Meaning))
      BY <2>2, <3>2, DictUnderstood
    <3> QED BY <3>3 DEF Dict
  <2>11. metainfo.ok = TRUE /\ metainfo.value = Meaning[v][2] /\ info.ok = TRUE
         /\ info.value = Encode[v[2][k][2]]
    BY <2>1, <2>6, Outcomes
  <2>12. Takes
    BY <2>7, <2>8, <2>9, <2>10, <2>11
  <2> QED BY <1>1, <1>3, <2>4, <2>11, <2>12
<1> QED BY <1>4, <1>5, <1>6 DEF torrent

-----------------------------------------------------------------------------
(* What the client reads, one thing after the other: what it has and what  *)
(* it made of it belong together.                                          *)

AtFile == doing \in {"file", "refused", "stored", "reloaded"}
AtAnswer == doing \in {"answer", "unanswered", "peers"}

Stored == [ParseTorrentFile(bytes) EXCEPT !.Data = ReloadedDict(@)]

FileRight ==
  /\ source \in Metainfos /\ WrittenDown(source, bytes)
  /\ doing = "refused" => ~ParseTorrentFile(bytes).ok
  /\ doing \in {"stored", "reloaded"} => ParseTorrentFile(bytes).ok
  /\ doing = "stored" => result = ParseTorrentFile(bytes)
  /\ doing = "reloaded" => result = Stored

AnswerRight ==
  /\ source \in Answers /\ WrittenDown(source, bytes)
  /\ doing = "unanswered" => ~AnnouncedPeers(bytes).ok
  /\ doing = "peers" => AnnouncedPeers(bytes).ok /\ result = AnnouncedPeers(bytes)

ReadingInv ==
  /\ AtFile \/ AtAnswer \/ doing = "peer"
  /\ AtFile => FileRight
  /\ AtAnswer => AnswerRight

LEMMA ReadingInit == Init => ReadingInv
BY DEF Init, ReadingInv, AtFile, AtAnswer, FileRight, WrittenDown

LEMMA ReadingNext == ReadingInv /\ [Next]_vars => ReadingInv'
<1> SUFFICES ASSUME ReadingInv, [Next]_vars PROVE ReadingInv'
  OBVIOUS
<1>1. CASE ParseFile
  <2>1. AtFile /\ FileRight /\ ParseTorrentFile(bytes)' = ParseTorrentFile(bytes)
    BY <1>1 DEF ParseFile, ReadingInv, AtFile
  <2>3. source' = source /\ bytes' = bytes /\ result' = ParseTorrentFile(bytes')
    BY <1>1 DEF ParseFile
  <2>2. \/ ParseTorrentFile(bytes').ok /\ doing' = "stored"
        \/ ~ParseTorrentFile(bytes').ok /\ doing' = "refused"
    <3>1. doing' = IF result'.ok THEN "stored" ELSE "refused"
      BY <1>1 DEF ParseFile
    <3>2. CASE result'.ok
      BY <2>3, <3>1, <3>2
    <3>3. CASE ~result'.ok
      BY <2>3, <3>1, <3>3
    <3> QED BY <3>2, <3>3
  <2>4. FileRight'
    BY <2>1, <2>2, <2>3 DEF FileRight, WrittenDown
  <2> QED BY <2>2, <2>4 DEF ReadingInv, AtFile, AtAnswer
<1>2. CASE Reload
  <2>1. /\ source' = source /\ bytes' = bytes /\ doing' = "reloaded" /\ doing = "stored" /\ FileRight
        /\ result' = [result EXCEPT !.Data = ReloadedDict(@)]
    BY <1>2 DEF Reload, ReadingInv, AtFile
  <2>2. result' = Stored'
    BY <2>1 DEF FileRight, Stored
  <2>3. FileRight'
    BY <2>1, <2>2 DEF FileRight, WrittenDown
  <2> QED BY <2>1, <2>3 DEF ReadingInv, AtFile, AtAnswer
<1>3. CASE \E v \in Answers : Announce(v)
  BY <1>3 DEF Announce, Written, WrittenDown, ReadingInv, AtFile, AtAnswer, AnswerRight
<1>4. CASE ParseAnswer
  <2>1. AtAnswer /\ AnswerRight
    BY <1>4 DEF ParseAnswer, ReadingInv, AtAnswer
  <2>3. source' = source /\ bytes' = bytes /\ result' = AnnouncedPeers(bytes')
    BY <1>4 DEF ParseAnswer
  <2>2. \/ AnnouncedPeers(bytes').ok /\ doing' = "peers"
        \/ ~AnnouncedPeers(bytes').ok /\ doing' = "unanswered"
    <3>1. doing' = IF result'.ok THEN "peers" ELSE "unanswered"
      BY <1>4 DEF ParseAnswer
    <3>2. CASE result'.ok
      BY <2>3, <3>1, <3>2
    <3>3. CASE ~result'.ok
      BY <2>3, <3>1, <3>3
    <3> QED BY <3>2, <3>3
  <2>4. AnswerRight'
    BY <2>1, <2>2, <2>3 DEF AnswerRight, WrittenDown
  <2> QED BY <2>2, <2>4 DEF ReadingInv, AtFile, AtAnswer
<1>5. CASE Connect
  BY <1>5 DEF Connect, ReadingInv, AtFile, AtAnswer
<1>6. CASE UNCHANGED reading
  BY <1>6 DEF reading, ReadingInv, AtFile, AtAnswer, FileRight, AnswerRight, WrittenDown, Stored
<1>7. UNCHANGED reading \/ ParseFile \/ Reload \/ (\E v \in Answers : Announce(v)) \/ ParseAnswer \/ Connect
  BY DEF Next, Talking, Stopped, vars, reading
<1> QED BY <1>1, <1>2, <1>3, <1>4, <1>5, <1>6, <1>7

(* What is stored of a file, and what is loaded again.                     *)
LEMMA FileFacts ==
  ASSUME ReadingInv, AtFile
  PROVE  /\ source \in Metainfos /\ source \in Values[Depth] /\ source[1] = "BenDict"
         /\ OneInfo /\ doing = "refused" => ~Complete
         /\ doing = "stored" => Complete /\ result.ok /\ result.Data = Meaning[source][2]
         /\ OneInfo /\ doing = "stored" =>
              result.InfoHash = Encode[source[2][At(source[2], InfoKey)][2]]
         /\ doing = "reloaded" => result.ok /\ result.Data = ReloadedDict(Meaning[source][2])
<1>1. source \in Metainfos /\ WrittenDown(source, bytes) /\ FileRight
  BY DEF ReadingInv, FileRight
<1>2. PICK torrent, loaded : torrent = ParseTorrentFile(bytes) /\ loaded = Stored
  OBVIOUS
<1>3. /\ torrent.ok \in BOOLEAN
      /\ torrent.ok => /\ Complete /\ torrent.Data = Meaning[source][2]
                       /\ loaded.ok /\ loaded.Data = ReloadedDict(Meaning[source][2])
      /\ OneInfo /\ Complete => torrent.ok /\ torrent.InfoHash = Encode[source[2][At(source[2], InfoKey)][2]]
  <2>1. torrent.ok \in BOOLEAN
    BY <1>1, <1>2, FileTaken
  <2>2. torrent.ok => /\ Complete /\ torrent.Data = Meaning[source][2]
                      /\ loaded.ok /\ loaded.Data = ReloadedDict(Meaning[source][2])
    BY <1>1, <1>2, FileTaken DEF Complete, Stored
  <2>3. OneInfo /\ Complete => torrent.ok /\ torrent.InfoHash = Encode[source[2][At(source[2], InfoKey)][2]]
    BY <1>1, <1>2, FileTaken DEF Complete
  <2> QED BY <2>1, <2>2, <2>3
<1>4. /\ doing = "refused" => ~torrent.ok
      /\ doing \in {"stored", "reloaded"} => torrent.ok
      /\ doing = "stored" => result = torrent
      /\ doing = "reloaded" => result = loaded
  BY <1>1, <1>2 DEF FileRight
<1>5. source \in Values[Depth] /\ source[1] = "BenDict"
  BY <1>1, ExchangeAssumption
<1> QED BY <1>1, <1>3, <1>4, <1>5

(* The connection of an exchange is one of Wire.                           *)
LEMMA ExchangeStep == [Next]_vars => [WireNext]_wireVars
BY DEF Next, vars, ParseFile, Reload, ParseAnswer, Connect, Announce, Talking, Stopped

LEMMA ReadingInvHolds == Spec => []ReadingInv
BY ReadingInit, ReadingNext, PTL DEF Spec

(* The client is at one of the stages of its reading, holds a parser's     *)
(* result wherever the code goes on to use one (loader.go, tracker.go),    *)
(* and its connection is of Wire's type.                                   *)
THEOREM ExchangeTypes == Spec => []TypeOK
<1>1. Init => WireTypeOK
  BY WireTypeInit DEF Init
<1>2. WireTypeOK /\ [Next]_vars => WireTypeOK'
  BY WireTypeNext, ExchangeStep
<1>3. ReadingInv /\ WireTypeOK => TypeOK
  <2> SUFFICES ASSUME ReadingInv, WireTypeOK PROVE TypeOK
    OBVIOUS
  <2>1. AtFile => (doing \in {"stored", "reloaded"} => result.ok)
    BY FileFacts
  <2> QED BY <2>1 DEF TypeOK, ReadingInv, AtFile, AtAnswer, AnswerRight
<1> QED BY <1>1, <1>2, <1>3, ReadingInvHolds, PTL DEF Spec

(* Whatever the client reads before, its connection to a peer is one that  *)
(* Wire describes, so that Wire's theorems are about it (client.go).       *)
THEOREM ExchangeHasWire == Spec => WireSpec
<1>1. Init => WireInit
  BY DEF Init
<1> QED BY <1>1, ExchangeStep, PTL DEF Spec, WireSpec

(* Any file that says info once, with a dictionary, is taken if and only   *)
(* if it is whole; its data and the bytes its info hash is taken from are  *)
(* the written ones (bencoding.go:197-246, parser.go:16-58).               *)
THEOREM FileIsUnderstood == ASSUME OneInfo PROVE Spec => []FileUnderstood
<1>1. ReadingInv => FileUnderstood
  BY FileFacts DEF FileUnderstood, AtFile
<1> QED BY <1>1, ReadingInvHolds, PTL

-----------------------------------------------------------------------------
(* What is stored and loaded again.                                        *)

ReloadBy(f, object) ==
  CASE object[1] = "BenInteger" -> object
    [] object[1] = "BenString" -> String(ReloadedString(object[2]))
    [] object[1] = "BenList" ->
         IF object[2] = <<>> THEN <<"BenList">> ELSE List(Each(f, object[2]))
    [] OTHER ->
         IF object[2] = {} THEN <<"BenDict">> ELSE Dict(ReloadedDictBy(f, object[2]))

LEMMA ReloadArms ==
  ASSUME NEW f, NEW o
  PROVE  /\ o[1] = "BenInteger" => ReloadBy(f, o) = o
         /\ o[1] = "BenString" => ReloadBy(f, o) = String(ReloadedString(o[2]))
         /\ o[1] = "BenList" =>
              ReloadBy(f, o) = IF o[2] = <<>> THEN <<"BenList">> ELSE List(Each(f, o[2]))
         /\ o[1] = "BenDict" =>
              ReloadBy(f, o) = IF o[2] = {} THEN <<"BenDict">> ELSE Dict(ReloadedDictBy(f, o[2]))
<1>1. o[1] = "BenInteger" => ReloadBy(f, o) = o
  BY DEF ReloadBy
<1>2. o[1] = "BenString" => ReloadBy(f, o) = String(ReloadedString(o[2]))
  BY KindsDiffer DEF ReloadBy
<1>3. ASSUME o[1] = "BenList"
      PROVE  ReloadBy(f, o) = IF o[2] = <<>> THEN <<"BenList">> ELSE List(Each(f, o[2]))
  BY <1>3, KindsDiffer DEF ReloadBy
<1>4. ASSUME o[1] = "BenDict"
      PROVE  ReloadBy(f, o) = IF o[2] = {} THEN <<"BenDict">> ELSE Dict(ReloadedDictBy(f, o[2]))
  BY <1>4, KindsDiffer DEF ReloadBy
<1> QED BY <1>1, <1>2, <1>3, <1>4

LEMMA EachSame ==
  ASSUME NEW S, NEW s \in Seq(S), NEW g, NEW h, \A x \in S : g[x] = h[x]
  PROVE  Each(g, s) = Each(h, s)
<1>1. \A k \in DOMAIN s : s[k] \in S
  BY LenProperties, ElementOfSeq
<1>2. \A k \in DOMAIN s : g[s[k]] = h[s[k]]
  BY <1>1
<1> QED BY <1>2 DEF Each

(* The value that is read of a key is one of the dictionary's.             *)
LEMMA ValueIn ==
  ASSUME NEW S, NEW dict \in SUBSET (Strings \X S), NEW key \in KeysOf(dict)
  PROVE  ValueOf(dict, key) \in S
<1>1. \E pair \in dict : pair[1] = key
  BY DEF KeysOf
<1> DEFINE pair == CHOOSE p \in dict : p[1] = key
<1>2. pair \in dict
  BY <1>1
<1>3. ValueOf(dict, key) = pair[2]
  BY DEF ValueOf
<1> HIDE DEF pair
<1> QED BY <1>2, <1>3

LEMMA ReloadDictSame ==
  ASSUME NEW S, NEW dict \in SUBSET (Strings \X S), NEW g, NEW h, \A x \in S : g[x] = h[x]
  PROVE  ReloadedDictBy(g, dict) = ReloadedDictBy(h, dict)
<1> DEFINE T == {JsonText(key) : key \in KeysOf(dict)}
           Key(text) == CHOOSE key \in KeysOf(dict) : JsonText(key) = text
<1>1. ASSUME NEW text \in T PROVE g[ValueOf(dict, Key(text))] = h[ValueOf(dict, Key(text))]
  <2>1. \E key \in KeysOf(dict) : JsonText(key) = text
    OBVIOUS
  <2>2. Key(text) \in KeysOf(dict)
    BY <2>1
  <2>3. ValueOf(dict, Key(text)) \in S
    <3> HIDE DEF Key
    <3> QED BY <2>2, ValueIn
  <2> HIDE DEF Key
  <2> QED BY <2>3
<1>2. /\ ReloadedDictBy(g, dict) = {<<text, g[ValueOf(dict, Key(text))]>> : text \in T}
      /\ ReloadedDictBy(h, dict) = {<<text, h[ValueOf(dict, Key(text))]>> : text \in T}
  BY DEF ReloadedDictBy
<1> HIDE DEF T, Key
<1> QED BY <1>1, <1>2

LEMMA ReloadLocal ==
  ASSUME NEW n \in Nat, NEW o \in Objects[n], NEW g, NEW h,
         n # 0 => \A c \in Objects[n - 1] : g[c] = h[c]
  PROVE  ReloadBy(g, o) = ReloadBy(h, o)
<1>1. CASE o[1] \in {"BenString", "BenInteger"}
  BY <1>1, ReloadArms
<1>2. CASE o[1] = "BenList" /\ n # 0 /\ o[2] \in Seq(Objects[n - 1])
  <2>1. Each(g, o[2]) = Each(h, o[2])
    BY <1>2, EachSame
  <2> QED BY <1>2, <2>1, ReloadArms
<1>3. CASE o[1] = "BenDict" /\ n # 0 /\ o[2] \in SUBSET (Strings \X Objects[n - 1])
  <2>1. ReloadedDictBy(g, o[2]) = ReloadedDictBy(h, o[2])
    <3>1. PICK S, dict : S = Objects[n - 1] /\ dict = o[2]
      OBVIOUS
    <3>2. dict \in SUBSET (Strings \X S) /\ \A c \in S : g[c] = h[c]
      BY <1>3, <3>1
    <3>3. ReloadedDictBy(g, dict) = ReloadedDictBy(h, dict)
      BY <3>2, ReloadDictSame
    <3> QED BY <3>1, <3>3
  <2> QED BY <1>3, <2>1, ReloadArms
<1> QED BY <1>1, <1>2, <1>3, ObjectCases

LEMMA ReloadExists ==
  ASSUME NEW n \in Nat
  PROVE  \E f : f = [o \in Objects[n] |-> ReloadBy(f, o)]
<1> DEFINE Is(m, f) == f = [o \in Objects[m] |-> ReloadBy(f, o)]
           P == {m \in Nat : \E f : Is(m, f)}
<1>1. ASSUME NEW m \in Nat, \A l \in Nat : l < m => l \in P PROVE m \in P
  <2>1. PICK g : m # 0 => Is(m - 1, g)
    <3>1. CASE m = 0
      BY <3>1
    <3>2. CASE m # 0
      <4>1. m - 1 \in Nat /\ m - 1 < m
        BY <3>2
      <4> HIDE DEF Is
      <4> QED BY <1>1, <4>1
    <3> QED BY <3>1, <3>2
  <2>2. PICK h : h = [o \in Objects[m] |-> ReloadBy(g, o)]
    OBVIOUS
  <2>3. ASSUME m # 0, NEW c \in Objects[m - 1] PROVE g[c] = h[c]
    <3>1. m - 1 \in Nat /\ m - 1 <= m
      BY <2>3
    <3>2. c \in Objects[m]
      BY <3>1, LevelsGrow
    <3>3. g[c] = ReloadBy(g, c)
      BY <2>1, <2>3
    <3> QED BY <2>2, <3>2, <3>3
  <2>4. \A o \in Objects[m] : ReloadBy(g, o) = ReloadBy(h, o)
    BY <2>3, ReloadLocal
  <2>5. Is(m, h)
    BY <2>2, <2>4
  <2> HIDE DEF Is
  <2> QED BY <2>5
<1> HIDE DEF P, Is
<1>2. n \in P
  BY <1>1, Induction
<1> QED BY <1>2 DEF P, Is

LEMMA ReloadedDef ==
  \A o \in Objects[Depth] : Reloaded[o] = ReloadBy(Reloaded, o)
<1> DEFINE Is(f) == f = [o \in Objects[Depth] |-> ReloadBy(f, o)]
<1>1. \E f : Is(f)
  BY ExchangeAssumption, ReloadExists
<1>2. Reloaded = CHOOSE f : Is(f)
  BY DEF Reloaded, ReloadBy, AllObjects
<1>3. Is(Reloaded)
  <2> HIDE DEF Is
  <2> QED BY <1>1, <1>2
<1> QED BY <1>3

LEMMA MeaningIsObject ==
  ASSUME NEW n \in Nat, n <= Depth, NEW v \in Values[n]
  PROVE  Meaning[v] \in Objects[n]
<1> DEFINE P == {m \in Nat : m <= Depth => \A u \in Values[m] : Meaning[u] \in Objects[m]}
<1>0. Depth \in Nat
  BY ExchangeAssumption
<1>1. ASSUME NEW m \in Nat, \A l \in Nat : l < m => l \in P PROVE m \in P
  <2> SUFFICES ASSUME m <= Depth, NEW u \in Values[m] PROVE Meaning[u] \in Objects[m]
    OBVIOUS
  <2>1. Meaning[u] = MeaningBy(Meaning, u)
    <3>1. u \in Values[Depth]
      BY <1>0, LevelsGrow
    <3> QED BY <3>1, EncodingDef
  <2>2. CASE u[1] \in {"BenString", "BenInteger"}
    <3>1. Meaning[u] = u
      BY <2>1, <2>2, MeaningArms
    <3>2. u \in Scalars
      <4>1. \/ u[2] \in Strings /\ u = String(u[2])
            \/ u[2] \in Int /\ u = Integer(u[2])
        BY <2>2, ValueCases, KindsDiffer
      <4>2. \A x : (x \in Strings => String(x) \in Scalars) /\ (x \in Int => Integer(x) \in Scalars)
        BY DEF Scalars, String, Integer
      <4> QED BY <4>1, <4>2
    <3>3. Scalars \subseteq Objects[m]
      <4>1. 0 \in Nat /\ 0 <= m /\ Objects[0] = Scalars
        BY ValuesDef
      <4>2. Objects[0] \subseteq Objects[m]
        BY <4>1, LevelsGrow
      <4> QED BY <4>1, <4>2
    <3> QED BY <3>1, <3>2, <3>3
  <2>3. m # 0 => \A c \in Values[m - 1] : Meaning[c] \in Objects[m - 1]
    <3> SUFFICES ASSUME m # 0 PROVE \A c \in Values[m - 1] : Meaning[c] \in Objects[m - 1]
      OBVIOUS
    <3>1. m - 1 \in Nat /\ m - 1 < m /\ m - 1 <= Depth
      BY <1>0
    <3>2. m - 1 \in P
      BY <1>1, <3>1
    <3> QED BY <3>1, <3>2
  <2>4. CASE u[1] = "BenList" /\ m # 0 /\ u[2] \in Seq(Values[m - 1])
    <3> DEFINE ms == [k \in DOMAIN u[2] |-> Meaning[u[2][k]]]
    <3>1. Meaning[u] = List(ms)
      BY <2>1, <2>4, MeaningArms
    <3>2. ms \in Seq(Objects[m - 1])
      BY <2>3, <2>4, MapSeq
    <3> HIDE DEF ms
    <3>3. List(ms) \in {"BenList"} \X Seq(Objects[m - 1])
      BY <3>2 DEF List
    <3>4. PICK S, x : S = Objects[m - 1] /\ x = List(ms)
      OBVIOUS
    <3>5. x \in Level("sets", S)
      BY <3>3, <3>4, InLevel
    <3>6. Objects[m] = Level("sets", S)
      BY <2>4, <3>4, ValuesDef
    <3> QED BY <3>1, <3>4, <3>5, <3>6
  <2>5. CASE u[1] = "BenDict" /\ m # 0 /\ u[2] \in Seq(Strings \X Values[m - 1])
    <3> DEFINE dict == LastPairs(u[2], Meaning)
    <3>1. Meaning[u] = Dict(dict)
      BY <2>1, <2>5, MeaningArms
    <3>2. dict \in SUBSET (Strings \X Objects[m - 1])
      <4>1. \A k \in DOMAIN u[2] : u[2][k][1] \in Strings /\ u[2][k][2] \in Values[m - 1]
        BY <2>5, PairsLen
      <4>2. \A k \in DOMAIN u[2] : Meaning[u[2][k][2]] \in Objects[m - 1]
        BY <2>3, <2>5, <4>1
      <4> QED BY <4>1, <4>2 DEF LastPairs
    <3> HIDE DEF dict
    <3>3. Dict(dict) \in {"BenDict"} \X SUBSET (Strings \X Objects[m - 1])
      BY <3>2 DEF Dict
    <3>4. PICK S, x : S = Objects[m - 1] /\ x = Dict(dict)
      OBVIOUS
    <3>5. x \in Level("sets", S)
      BY <3>3, <3>4, InLevel
    <3>6. Objects[m] = Level("sets", S)
      BY <2>5, <3>4, ValuesDef
    <3> QED BY <3>1, <3>4, <3>5, <3>6
  <2> QED BY <2>2, <2>4, <2>5, ValueCases
<1> HIDE DEF P
<1>2. n \in P
  BY <1>1, Induction
<1> QED BY <1>2 DEF P

(* Of a dictionary whose keys are text and whose values come back, all     *)
(* comes back.                                                             *)
LEMMA PairsReloaded ==
  ASSUME NEW V, NEW pairs \in Seq(Strings \X V), NEW mean, NEW reload,
         \A k \in DOMAIN pairs : JsonText(pairs[k][1]) = pairs[k][1],
         \A k \in DOMAIN pairs : reload[mean[pairs[k][2]]] = mean[pairs[k][2]]
  PROVE  ReloadedDictBy(reload, LastPairs(pairs, mean)) = LastPairs(pairs, mean)
<1> DEFINE dict == LastPairs(pairs, mean)
           Key(text) == CHOOSE key \in KeysOf(dict) : JsonText(key) = text
           T == {JsonText(key) : key \in KeysOf(dict)}
<1>1. KeysOf(dict) = Keys(pairs)
  BY KeysOfLast
<1>2. \A key \in KeysOf(dict) : JsonText(key) = key
  BY <1>1 DEF Keys
<1> HIDE DEF dict
<1>3. T = KeysOf(dict)
  BY <1>2
<1>4. ASSUME NEW text \in KeysOf(dict) PROVE Key(text) = text
  <2>1. \E key \in KeysOf(dict) : JsonText(key) = text
    BY <1>2
  <2>2. Key(text) \in KeysOf(dict) /\ JsonText(Key(text)) = text
    BY <2>1
  <2> HIDE DEF Key
  <2> QED BY <1>2, <2>2
<1>5. ReloadedDictBy(reload, dict) = {<<text, reload[ValueOf(dict, Key(text))]>> : text \in T}
  BY DEF ReloadedDictBy
<1> HIDE DEF Key, T
<1>6. ReloadedDictBy(reload, dict) = {<<text, reload[ValueOf(dict, text)]>> : text \in KeysOf(dict)}
  BY <1>3, <1>4, <1>5
<1>7. ASSUME NEW text \in Keys(pairs)
      PROVE  \E k \in DOMAIN pairs : /\ LastOfKey(pairs, k) /\ pairs[k][1] = text
                                     /\ reload[ValueOf(dict, text)] = mean[pairs[k][2]]
  <2>1. PICK k : IsSaid(pairs, text, k)
    BY SaidFacts
  <2>2. /\ k \in DOMAIN pairs /\ pairs[k][1] = text /\ LastOfKey(pairs, k)
        /\ Said(pairs, text) = pairs[k][2]
    BY <2>1 DEF IsSaid
  <2>3. ValueOf(dict, text) = mean[pairs[k][2]]
    <3>1. ValueOf(LastPairs(pairs, mean), text) = mean[Said(pairs, text)]
      BY SaidValue
    <3> QED BY <2>2, <3>1 DEF dict
  <2> QED BY <2>2, <2>3
<1>8. ASSUME NEW pair \in ReloadedDictBy(reload, dict) PROVE pair \in LastPairs(pairs, mean)
  <2>1. PICK text \in KeysOf(dict) : pair = <<text, reload[ValueOf(dict, text)]>>
    BY <1>6
  <2>2. PICK k \in DOMAIN pairs : /\ LastOfKey(pairs, k) /\ pairs[k][1] = text
                                  /\ reload[ValueOf(dict, text)] = mean[pairs[k][2]]
    BY <1>1, <1>7
  <2>3. pair = <<pairs[k][1], mean[pairs[k][2]]>>
    BY <2>1, <2>2
  <2> QED BY <2>2, <2>3 DEF LastPairs
<1>9. ASSUME NEW pair \in LastPairs(pairs, mean) PROVE pair \in ReloadedDictBy(reload, dict)
  <2>1. PICK k \in DOMAIN pairs : LastOfKey(pairs, k) /\ pair = <<pairs[k][1], mean[pairs[k][2]]>>
    BY DEF LastPairs
  <2>2. PICK text : text = pairs[k][1]
    OBVIOUS
  <2>3. text \in Keys(pairs)
    BY <2>2 DEF Keys
  <2>4. PICK j : IsSaid(pairs, text, j)
    BY <2>3, SaidFacts
  <2>5. j = k /\ Said(pairs, text) = pairs[k][2]
    BY <2>1, <2>2, <2>4 DEF IsSaid
  <2>6. ValueOf(dict, text) = mean[pairs[k][2]]
    <3>1. ValueOf(LastPairs(pairs, mean), text) = mean[Said(pairs, text)]
      BY <2>3, SaidValue
    <3> QED BY <2>5, <3>1 DEF dict
  <2>7. pair = <<text, reload[ValueOf(dict, text)]>>
    BY <2>1, <2>2, <2>6
  <2> QED BY <1>1, <1>6, <2>3, <2>7
<1> QED BY <1>8, <1>9 DEF dict

LEMMA PlainReloaded ==
  ASSUME NEW n \in Nat, n <= Depth, NEW v \in Values[n], Plain[v]
  PROVE  /\ Reloaded[Meaning[v]] = Meaning[v]
         /\ v[1] = "BenDict" => ReloadedDict(Meaning[v][2]) = Meaning[v][2]
<1> DEFINE Same(u) == /\ Reloaded[Meaning[u]] = Meaning[u]
                      /\ u[1] = "BenDict" => ReloadedDict(Meaning[u][2]) = Meaning[u][2]
           P == {m \in Nat : m <= Depth => \A u \in Values[m] : Plain[u] => Same(u)}
<1>0. Depth \in Nat
  BY ExchangeAssumption
<1>1. ASSUME NEW m \in Nat, \A l \in Nat : l < m => l \in P PROVE m \in P
  <2> SUFFICES ASSUME m <= Depth, NEW u \in Values[m], Plain[u] PROVE Same(u)
    OBVIOUS
  <2>1. u \in Values[Depth] /\ Meaning[u] \in Objects[Depth]
    <3>1. u \in Values[Depth]
      BY <1>0, LevelsGrow
    <3> QED BY <1>0, <3>1, MeaningIsObject
  <2>2. /\ Meaning[u] = MeaningBy(Meaning, u) /\ PlainBy(Plain, u)
        /\ Reloaded[Meaning[u]] = ReloadBy(Reloaded, Meaning[u])
    BY <2>1, EncodingDef, ReloadedDef
  <2>3. CASE u[1] \in {"BenString", "BenInteger"}
    <3>1. Meaning[u] = u
      BY <2>2, <2>3, MeaningArms
    <3>2. u[1] = "BenString" => u = String(u[2])
      BY ValueCases, KindsDiffer
    <3>3. u[1] = "BenString" => Reloaded[u] = u
      <4>1. u[1] = "BenString" => ReloadBy(Reloaded, u) = String(ReloadedString(u[2]))
        BY ReloadArms
      <4> QED BY <2>2, <3>1, <3>2, <4>1 DEF ReloadedString
    <3>4. u[1] = "BenInteger" => Reloaded[u] = u
      BY <2>2, <3>1, ReloadArms
    <3> QED BY <2>3, <3>1, <3>3, <3>4, KindsDiffer
  <2>4. m # 0 => \A c \in Values[m - 1] : Plain[c] => Reloaded[Meaning[c]] = Meaning[c]
    <3> SUFFICES ASSUME m # 0, NEW c \in Values[m - 1], Plain[c] PROVE Reloaded[Meaning[c]] = Meaning[c]
      OBVIOUS
    <3>1. m - 1 \in Nat /\ m - 1 < m /\ m - 1 <= Depth
      BY <1>0
    <3>2. m - 1 \in P
      BY <1>1, <3>1
    <3> QED BY <3>1, <3>2
  <2>5. CASE u[1] = "BenList" /\ m # 0 /\ u[2] \in Seq(Values[m - 1])
    <3> DEFINE ms == [k \in DOMAIN u[2] |-> Meaning[u[2][k]]]
    <3>1. Meaning[u] = List(ms)
      BY <2>2, <2>5, MeaningArms
    <3>2. u[2] # <<>> /\ \A k \in DOMAIN u[2] : Plain[u[2][k]]
      BY <2>2, <2>5, PlainArms
    <3>3. \A k \in DOMAIN u[2] : u[2][k] \in Values[m - 1]
      BY <2>5, LenProperties, ElementOfSeq
    <3>4. ms # <<>>
      <4>1. Len(u[2]) \in Nat /\ DOMAIN u[2] = 1..Len(u[2]) /\ Len(u[2]) > 0
        BY <2>5, <3>2, LenProperties, EmptySeq
      <4>2. 1 \in DOMAIN u[2]
        BY <4>1
      <4>3. 1 \in DOMAIN ms
        BY <4>2
      <4> HIDE DEF ms
      <4>4. DOMAIN <<>> = {}
        OBVIOUS
      <4> QED BY <4>3, <4>4
    <3>5. Each(Reloaded, ms) = ms
      <4>1. \A k \in DOMAIN u[2] : Reloaded[Meaning[u[2][k]]] = Meaning[u[2][k]]
        BY <2>4, <2>5, <3>2, <3>3
      <4>2. Each(Reloaded, ms) = [k \in DOMAIN u[2] |-> Reloaded[Meaning[u[2][k]]]]
        BY DEF Each
      <4> QED BY <4>1, <4>2
    <3> HIDE DEF ms
    <3>6. List(ms)[1] = "BenList" /\ List(ms)[2] = ms
      BY DEF List
    <3>7. ReloadBy(Reloaded, List(ms)) = List(Each(Reloaded, ms))
      BY <3>4, <3>6, ReloadArms
    <3> QED BY <2>2, <2>5, <3>1, <3>5, <3>7, KindsDiffer
  <2>6. CASE u[1] = "BenDict" /\ m # 0 /\ u[2] \in Seq(Strings \X Values[m - 1])
    <3> DEFINE dict == LastPairs(u[2], Meaning)
    <3>1. Meaning[u] = Dict(dict)
      BY <2>2, <2>6, MeaningArms
    <3>2. u[2] # <<>> /\ \A k \in DOMAIN u[2] : JsonText(u[2][k][1]) = u[2][k][1] /\ Plain[u[2][k][2]]
      BY <2>2, <2>6, PlainArms
    <3>3. /\ Len(u[2]) > 0 /\ DOMAIN u[2] = 1..Len(u[2]) /\ Len(u[2]) \in Nat
          /\ \A k \in DOMAIN u[2] : u[2][k][2] \in Values[m - 1]
      BY <2>6, <3>2, PairsLen
    <3>4. ReloadedDictBy(Reloaded, dict) = dict
      <4>1. \A k \in DOMAIN u[2] : Reloaded[Meaning[u[2][k][2]]] = Meaning[u[2][k][2]]
        BY <2>4, <2>6, <3>2, <3>3
      <4>2. \A k \in DOMAIN u[2] : JsonText(u[2][k][1]) = u[2][k][1]
        BY <3>2
      <4> QED BY <2>6, <4>1, <4>2, PairsReloaded
    <3>5. dict # {}
      <4>1. 1 \in DOMAIN u[2]
        BY <3>3
      <4>2. u[2][1][1] \in Keys(u[2])
        BY <4>1 DEF Keys
      <4>3. KeysOf(dict) = Keys(u[2])
        BY <2>6, KeysOfLast
      <4> HIDE DEF dict
      <4>4. \E pair \in dict : TRUE
        BY <4>2, <4>3 DEF KeysOf
      <4> QED BY <4>4
    <3> HIDE DEF dict
    <3>6. Dict(dict)[1] = "BenDict" /\ Dict(dict)[2] = dict
      BY DEF Dict
    <3>7. ReloadBy(Reloaded, Dict(dict)) = Dict(ReloadedDictBy(Reloaded, dict))
      BY <3>5, <3>6, ReloadArms
    <3>8. Reloaded[Meaning[u]] = Meaning[u]
      BY <2>2, <3>1, <3>4, <3>7
    <3>9. ReloadedDict(Meaning[u][2]) = Meaning[u][2]
      BY <3>1, <3>4, <3>6 DEF ReloadedDict
    <3> QED BY <3>8, <3>9
  <2> HIDE DEF Same
  <2> QED BY <2>3, <2>5, <2>6, ValueCases
<1> HIDE DEF P
<1>2. n \in P
  BY <1>1, Induction
<1> QED BY <1>2 DEF P

(* The copy that a later start loads says what the file said, for every    *)
(* file without an empty list or dictionary whose keys are text            *)
(* (types.go:41-82).                                                       *)
THEOREM ReloadIsSame == Spec => []ReloadedIsSame
<1>1. ReadingInv => ReloadedIsSame
  <2> SUFFICES ASSUME ReadingInv, doing = "reloaded", Plain[source] PROVE result.Data = Meaning[source][2]
    BY DEF ReloadedIsSame
  <2>1. source \in Values[Depth] /\ source[1] = "BenDict" /\ result.Data = ReloadedDict(Meaning[source][2])
    BY FileFacts DEF AtFile
  <2>2. Depth \in Nat /\ Depth <= Depth
    BY ExchangeAssumption
  <2> QED BY <2>1, <2>2, PlainReloaded
<1> QED BY <1>1, ReadingInvHolds, PTL

-----------------------------------------------------------------------------
(* The peers of an answer.                                                 *)

(* What a value means is of the value's kind.                              *)
LEMMA MeaningKind ==
  ASSUME NEW v \in Values[Depth]
  PROVE  /\ v[1] \in {"BenString", "BenInteger"} => Meaning[v] = v
         /\ v[1] = "BenList" => Meaning[v] = List([k \in DOMAIN v[2] |-> Meaning[v[2][k]]])
         /\ Meaning[v][1] = v[1]
<1>1. Meaning[v] = MeaningBy(Meaning, v)
  BY EncodingDef
<1>2. v[1] \in {"BenString", "BenInteger"} => Meaning[v] = v
  BY <1>1, MeaningArms
<1>3. v[1] = "BenList" => Meaning[v] = List([k \in DOMAIN v[2] |-> Meaning[v[2][k]]])
  BY <1>1, MeaningArms
<1>4. v[1] = "BenDict" => Meaning[v] = Dict(LastPairs(v[2], Meaning))
  BY <1>1, MeaningArms
<1>5. v[1] \in {"BenString", "BenInteger", "BenList", "BenDict"}
  BY ExchangeAssumption, ValueCases
<1>6. \A x : List(x)[1] = "BenList" /\ Dict(x)[1] = "BenDict"
  BY DEF List, Dict
<1>7. Meaning[v][1] = v[1]
  <2>1. CASE v[1] \in {"BenString", "BenInteger"}
    BY <1>2, <2>1
  <2>2. CASE v[1] = "BenList"
    <3>1. PICK x : Meaning[v] = List(x)
      BY <1>3, <2>2
    <3> QED BY <1>6, <2>2, <3>1
  <2>3. CASE v[1] = "BenDict"
    BY <1>4, <1>6, <2>3
  <2> QED BY <1>5, <2>1, <2>2, <2>3
<1> QED BY <1>2, <1>3, <1>7

(* A dictionary that is read gives what the written one gives.             *)
LEMMA GivesHas ==
  ASSUME NEW v \in Values[Depth], v[1] = "BenDict", NEW key, NEW type
  PROVE  /\ Gives(v, key, type) <=> Has(Meaning[v][2], key, type)
         /\ key \in Keys(v[2]) => /\ Said(v[2], key) \in Values[Depth]
                                  /\ ValueOf(Meaning[v][2], key) = Meaning[Said(v[2], key)]
<1>0. Depth \in Nat
  BY ExchangeAssumption
<1>1. Depth # 0 /\ v[2] \in Seq(Strings \X Values[Depth - 1])
  BY <1>0, ValueCases, KindsDiffer
<1>2. Meaning[v][2] = LastPairs(v[2], Meaning) /\ KeysOf(LastPairs(v[2], Meaning)) = Keys(v[2])
  BY DictUnderstood
<1>3. ASSUME key \in Keys(v[2])
      PROVE  /\ Said(v[2], key) \in Values[Depth]
             /\ ValueOf(Meaning[v][2], key) = Meaning[Said(v[2], key)]
  <2>1. Said(v[2], key) \in Values[Depth - 1]
    BY <1>1, <1>3, SaidFacts
  <2>2. Depth - 1 \in Nat /\ Depth - 1 <= Depth
    BY <1>0, <1>1
  <2>3. ValueOf(LastPairs(v[2], Meaning), key) = Meaning[Said(v[2], key)]
    BY <1>1, <1>3, SaidValue
  <2> QED BY <1>0, <1>2, <2>1, <2>2, <2>3, LevelsGrow
<1>4. Gives(v, key, type) <=> Has(Meaning[v][2], key, type)
  <2>1. CASE key \in Keys(v[2])
    <3>1. Meaning[Said(v[2], key)][1] = Said(v[2], key)[1]
      BY <1>3, <2>1, MeaningKind
    <3> QED BY <1>2, <1>3, <2>1, <3>1 DEF Gives, Has
  <2>2. CASE key \notin Keys(v[2])
    BY <1>2, <2>2 DEF Gives, Has
  <2> QED BY <2>1, <2>2
<1> QED BY <1>3, <1>4

(* An element of a list names the peer that it was written for.            *)
LEMMA PeerRead ==
  ASSUME NEW v \in Values[Depth]
  PROVE  PeerOf(Meaning[v]) = PeerSaid(v)
<1> DEFINE o == Meaning[v]
<1>1. o[1] = v[1]
  BY MeaningKind
<1>2. CASE v[1] # "BenDict"
  <2>1. ~NamesPeer(o)
    BY <1>1, <1>2 DEF NamesPeer
  <2>2. ~Gives(v, IpKey, "BenString")
    BY <1>2 DEF Gives
  <2> QED BY <2>1, <2>2 DEF PeerOf, PeerSaid
<1>3. CASE v[1] = "BenDict"
  <2>1. /\ Gives(v, IpKey, "BenString") <=> Has(o[2], IpKey, "BenString")
        /\ Gives(v, PortKey, "BenInteger") <=> Has(o[2], PortKey, "BenInteger")
    BY <1>3, GivesHas
  <2>2. ASSUME Gives(v, IpKey, "BenString"), Gives(v, PortKey, "BenInteger")
        PROVE  ValueOf(o[2], IpKey) = Said(v[2], IpKey) /\ ValueOf(o[2], PortKey) = Said(v[2], PortKey)
    <3>1. ValueOf(o[2], IpKey) = Said(v[2], IpKey)
      <4>1. IpKey \in Keys(v[2]) /\ Said(v[2], IpKey)[1] = "BenString"
        BY <2>2 DEF Gives
      <4>2. Said(v[2], IpKey) \in Values[Depth] /\ ValueOf(o[2], IpKey) = Meaning[Said(v[2], IpKey)]
        BY <1>3, <4>1, GivesHas
      <4> QED BY <4>1, <4>2, MeaningKind
    <3>2. ValueOf(o[2], PortKey) = Said(v[2], PortKey)
      <4>1. PortKey \in Keys(v[2]) /\ Said(v[2], PortKey)[1] = "BenInteger"
        BY <2>2 DEF Gives
      <4>2. Said(v[2], PortKey) \in Values[Depth] /\ ValueOf(o[2], PortKey) = Meaning[Said(v[2], PortKey)]
        BY <1>3, <4>1, GivesHas
      <4> QED BY <4>1, <4>2, MeaningKind
    <3> QED BY <3>1, <3>2
  <2>3. NamesPeer(o) <=> Gives(v, IpKey, "BenString") /\ Gives(v, PortKey, "BenInteger")
    BY <1>1, <1>3, <2>1 DEF NamesPeer
  <2> HIDE DEF o
  <2>4. PeerOf(o) = PeerSaid(v)
    BY <2>2, <2>3 DEF PeerOf, PeerSaid
  <2> QED BY <2>4 DEF o
<1> QED BY <1>2, <1>3

LEMMA ListRead ==
  ASSUME NEW S, NEW list \in Seq(S), \A x \in S : PeerOf(Meaning[x]) = PeerSaid(x)
  PROVE  ListedPeers([k \in DOMAIN list |-> Meaning[list[k]]])
           = FlattenSeq([k \in DOMAIN list |-> PeerSaid(list[k])])
<1> DEFINE objects == [k \in DOMAIN list |-> Meaning[list[k]]]
           G == [k \in DOMAIN objects |-> PeerOf(objects[k])]
           H == [k \in DOMAIN list |-> PeerSaid(list[k])]
<1>1. \A k \in DOMAIN list : list[k] \in S
  BY LenProperties, ElementOfSeq
<1>2. DOMAIN objects = DOMAIN list /\ \A k \in DOMAIN list : objects[k] = Meaning[list[k]]
  OBVIOUS
<1>3. \A k \in DOMAIN list : PeerOf(objects[k]) = PeerSaid(list[k])
  BY <1>1, <1>2
<1> HIDE DEF objects
<1>4. G = H
  BY <1>2, <1>3
<1>5. ListedPeers(objects) = FlattenSeq(G)
  BY DEF ListedPeers
<1> HIDE DEF G, H
<1>6. ListedPeers(objects) = FlattenSeq(H)
  BY <1>4, <1>5
<1> QED BY <1>6 DEF objects, H

(* Six bytes for a peer, the port's last two of them.                      *)
LEMMA SixRead ==
  ASSUME NEW peer, NEW six \in Strings, Len(six) = 6, InSixBytes(peer, six)
  PROVE  peer = Peer(Dotted(six), BigEndianPort(six))
<1>1. PICK port : port = peer.PeerPort
  OBVIOUS
<1>2. peer = Peer(Dotted(six), peer.PeerPort)
  BY Zenon DEF InSixBytes
<1>3. peer.PeerPort \in Nat
  BY Zenon DEF InSixBytes
<1>4. SubSeq(six, 5, 6) = <<peer.PeerPort \div 256, peer.PeerPort % 256>>
  BY Zenon DEF InSixBytes
<1>5. peer = Peer(Dotted(six), port)
  BY <1>1, <1>2, Zenon
<1>6. port \in Nat
  BY <1>1, <1>3, Zenon
<1>7. PICK x, y : x = port \div 256 /\ y = port % 256
  OBVIOUS
<1>8. SubSeq(six, 5, 6) = <<x, y>>
  BY <1>1, <1>4, <1>7, Zenon
<1>9. six[5] = x /\ six[6] = y
  <2>1. /\ 5 \in Nat \ {0} /\ 6 \in Nat /\ 6 <= Len(six) /\ 5 <= 6 + 1
        /\ 1 \in 1..6 - 5 + 1 /\ 2 \in 1..6 - 5 + 1 /\ 5 + 1 - 1 = 5 /\ 5 + 2 - 1 = 6
    OBVIOUS
  <2>2. \A k \in 1..6 - 5 + 1 : SubSeq(six, 5, 6)[k] = six[5 + k - 1]
    BY <2>1, Part
  <2>3. SubSeq(six, 5, 6)[1] = six[5] /\ SubSeq(six, 5, 6)[2] = six[6]
    BY <2>1, <2>2
  <2>4. SubSeq(six, 5, 6)[1] = x /\ SubSeq(six, 5, 6)[2] = y
    <3>1. PICK two : two = SubSeq(six, 5, 6)
      OBVIOUS
    <3>2. two = <<x, y>>
      BY <1>8, <3>1, Zenon
    <3>3. two[1] = x /\ two[2] = y
      BY <3>2
    <3> QED BY <3>1, <3>3, Zenon
  <2> QED BY <2>3, <2>4
<1>10. 256 * x + y = port
  BY <1>6, <1>7
<1>11. BigEndianPort(six) = port
  BY <1>9, <1>10 DEF BigEndianPort
<1> QED BY <1>5, <1>11

LEMMA CompactRead ==
  ASSUME NEW T, NEW peers \in Seq(T), NEW s \in Strings, InCompactForm(peers, s)
  PROVE  Len(s) % 6 = 0 /\ CompactPeers(s) = peers
<1>1. /\ Len(peers) \in Nat /\ DOMAIN peers = 1..Len(peers) /\ Len(s) = 6 * Len(peers) /\ Len(s) \in Nat
      /\ peers = [k \in 1..Len(peers) |-> peers[k]]
  <2>1. Len(peers) \in Nat /\ DOMAIN peers = 1..Len(peers) /\ peers \in [1..Len(peers) -> T]
    BY LenProperties
  <2>2. Len(s) = 6 * Len(peers)
    BY DEF InCompactForm
  <2> QED BY <2>1, <2>2, StringLen
<1>2. PICK n \in Nat : n = Len(peers)
  BY <1>1
<1>3. Len(s) % 6 = 0 /\ Len(s) \div 6 = n
  <2>1. (6 * n) % 6 = 0 /\ (6 * n) \div 6 = n
    OBVIOUS
  <2> QED BY <1>1, <1>2, <2>1
<1> DEFINE Six(k) == SubSeq(s, 6 * k - 5, 6 * k)
<1>4. ASSUME NEW k \in 1..n PROVE peers[k] = Peer(Dotted(Six(k)), BigEndianPort(Six(k)))
  <2>1. InSixBytes(peers[k], Six(k))
    BY <1>1, <1>2 DEF InCompactForm
  <2>2. Six(k) \in Strings /\ Len(Six(k)) = 6
    <3> DEFINE i == 6 * k - 5
               j == 6 * k
    <3>1. i \in Nat \ {0} /\ j \in Nat /\ j <= Len(s) /\ i <= j + 1 /\ j - i + 1 = 6
      <4>1. 6 * k - 5 > 0 /\ 6 * k <= 6 * n /\ Len(s) = 6 * n
        BY <1>1, <1>2
      <4> QED BY <4>1
    <3> HIDE DEF i, j
    <3>2. SubSeq(s, i, j) \in Strings /\ Len(SubSeq(s, i, j)) = j - i + 1
      BY <3>1, Part
    <3> QED BY <3>1, <3>2 DEF i, j
  <2> HIDE DEF Six
  <2> QED BY <2>1, <2>2, SixRead
<1>5. CompactPeers(s) = [k \in 1..n |-> Peer(Dotted(Six(k)), BigEndianPort(Six(k)))]
  BY <1>3 DEF CompactPeers
<1> HIDE DEF Six
<1>6. CompactPeers(s) = peers
  BY <1>1, <1>2, <1>4, <1>5
<1> QED BY <1>3, <1>6

LEMMA PeersTaken ==
  ASSUME NEW a \in AnswersMeant
  PROVE  ExtractPeersFromTrackerResponse(Meaning[a.answer][2]) = Parsed(a.peers, <<>>)
<1> DEFINE v == a.answer
           u == Said(v[2], PeersKey)
           dict == Meaning[v][2]
<1>0. Depth \in Nat /\ v \in Values[Depth] /\ v[1] = "BenDict"
  BY ExchangeAssumption DEF Answers
<1>1. /\ \A type : Gives(v, PeersKey, type) <=> Has(dict, PeersKey, type)
      /\ PeersKey \in Keys(v[2])
      /\ u \in Values[Depth] /\ ValueOf(dict, PeersKey) = Meaning[u]
      /\ \/ u[1] = "BenString" /\ InCompactForm(a.peers, u[2])
         \/ u[1] = "BenList" /\ InListForm(a.peers, u[2])
  <2>1. /\ PeersKey \in Keys(v[2])
        /\ \/ u[1] = "BenString" /\ InCompactForm(a.peers, u[2])
           \/ u[1] = "BenList" /\ InListForm(a.peers, u[2])
    BY ExchangeAssumption DEF Gives
  <2>2. \A type : Gives(v, PeersKey, type) <=> Has(dict, PeersKey, type)
    BY <1>0, GivesHas
  <2>3. u \in Values[Depth] /\ ValueOf(dict, PeersKey) = Meaning[u]
    BY <1>0, <2>1, GivesHas
  <2> QED BY <2>1, <2>2, <2>3
<1>2. \A type : Has(dict, PeersKey, type) <=> u[1] = type
  BY <1>0, <1>1 DEF Gives
<1> HIDE DEF dict, u
<1>3. CASE u[1] = "BenString" /\ InCompactForm(a.peers, u[2])
  <2>1. ValueOf(dict, PeersKey)[2] = u[2] /\ u[2] \in Strings
    <3>1. Meaning[u] = u
      BY <1>1, <1>3, MeaningKind
    <3>2. u[2] \in Strings
      BY <1>0, <1>1, <1>3, ValueCases, KindsDiffer
    <3> QED BY <1>1, <3>1, <3>2
  <2>2. Len(u[2]) % 6 = 0 /\ CompactPeers(u[2]) = a.peers
    <3>1. a.peers \in Seq([PeerAddress : Strings, PeerPort : Int])
      BY ExchangeAssumption
    <3>2. PICK T, peers, s : T = [PeerAddress : Strings, PeerPort : Int] /\ peers = a.peers /\ s = u[2]
      OBVIOUS
    <3>3. peers \in Seq(T) /\ s \in Strings /\ InCompactForm(peers, s)
      BY <1>3, <2>1, <3>1, <3>2
    <3>4. Len(s) % 6 = 0 /\ CompactPeers(s) = peers
      BY <3>3, CompactRead
    <3> QED BY <3>2, <3>4
  <2> QED BY <1>2, <1>3, <2>1, <2>2 DEF ExtractPeersFromTrackerResponse, dict
<1>4. CASE u[1] = "BenList" /\ InListForm(a.peers, u[2])
  <2>1. Depth # 0 /\ u[2] \in Seq(Values[Depth - 1])
    BY <1>0, <1>1, <1>4, ValueCases, KindsDiffer
  <2> DEFINE objects == [k \in DOMAIN u[2] |-> Meaning[u[2][k]]]
  <2>2. ValueOf(dict, PeersKey)[2] = objects
    <3>1. Meaning[u] = List(objects)
      BY <1>1, <1>4, MeaningKind
    <3> HIDE DEF objects
    <3> QED BY <1>1, <3>1 DEF List
  <2>3. ListedPeers(objects) = a.peers
    <3>1. \A x \in Values[Depth - 1] : PeerOf(Meaning[x]) = PeerSaid(x)
      <4>1. Depth - 1 \in Nat /\ Depth - 1 <= Depth
        BY <1>0, <2>1
      <4>2. Values[Depth - 1] \subseteq Values[Depth]
        BY <1>0, <4>1, LevelsGrow
      <4> QED BY <4>2, PeerRead
    <3>2. PICK S : S = Values[Depth - 1]
      OBVIOUS
    <3>3. ListedPeers(objects) = FlattenSeq([k \in DOMAIN u[2] |-> PeerSaid(u[2][k])])
      BY <2>1, <3>1, <3>2, ListRead
    <3> QED BY <1>4, <3>3 DEF InListForm
  <2> HIDE DEF objects
  <2>4. ~Has(dict, PeersKey, "BenString") /\ Has(dict, PeersKey, "BenList")
    <3>1. Has(dict, PeersKey, "BenString") <=> u[1] = "BenString"
      BY <1>2
    <3>2. Has(dict, PeersKey, "BenList") <=> u[1] = "BenList"
      BY <1>2
    <3> QED BY <1>4, <3>1, <3>2, KindsDiffer
  <2> QED BY <2>2, <2>3, <2>4 DEF ExtractPeersFromTrackerResponse, dict
<1> QED BY <1>1, <1>3, <1>4

LEMMA WrittenLen ==
  ASSUME NEW v \in Metainfos \cup Answers, NEW p, WrittenDown(v, p)
  PROVE  Len(p) \in Int /\ Len(Encode[v]) \in Int
<1> DEFINE w == Encode[v]
<1>1. w \in Strings
  BY ExchangeAssumption, DictUnderstood
<1>2. PICK tail \in Strings : \E n \in 0..Len(w \o tail) : p = SubSeq(w \o tail, 1, n)
  BY ExchangeAssumption DEF WrittenDown
<1> HIDE DEF w
<1>3. p \in Strings
  BY <1>1, <1>2, CutOrWhole
<1> QED BY <1>1, <1>3, StringLen DEF w

(* An answer is taken if and only if it is whole.                          *)
LEMMA AnswerTaken ==
  ASSUME NEW v \in Answers, NEW p, WrittenDown(v, p)
  PROVE  /\ AnnouncedPeers(p).ok <=> Len(p) >= Len(Encode[v])
         /\ AnnouncedPeers(p).ok => AnnouncedPeers(p).value = PeersMeant(v)
<1> DEFINE announced == AnnouncedPeers(p)
           response == ParseDict(p)
           Short == Len(p) < Len(Encode[v])
           Whole == Len(p) >= Len(Encode[v])
<1>1. /\ Short => response = Fail
      /\ Whole => \E t \in Strings : response = Parsed(Meaning[v][2], t)
      /\ Short \/ Whole
  BY DictTaken
<1>2. PICK a \in AnswersMeant : a.answer = v /\ a.peers = PeersMeant(v)
  <2> DEFINE chosen == CHOOSE a \in AnswersMeant : a.answer = v
  <2>1. chosen \in AnswersMeant /\ chosen.answer = v
    BY DEF Answers
  <2>2. PeersMeant(v) = chosen.peers
    BY DEF PeersMeant
  <2> HIDE DEF chosen
  <2> QED BY <2>1, <2>2
<1>3. announced = IF response.ok THEN ExtractPeersFromTrackerResponse(response.value) ELSE Fail
  BY DEF AnnouncedPeers
<1> HIDE DEF announced, response, Short, Whole
<1>4. CASE Short /\ response = Fail
  <2>1. ~announced.ok
    BY <1>3, <1>4, Outcomes
  <2>2. ~Whole
    <3>1. Len(p) \in Int /\ Len(Encode[v]) \in Int
      BY WrittenLen
    <3> QED BY <1>4, <3>1 DEF Short, Whole
  <2> QED BY <2>1, <2>2 DEF announced, Whole
<1>5. CASE Whole
  <2>1. PICK t \in Strings : response = Parsed(Meaning[v][2], t)
    BY <1>1, <1>5
  <2>2. announced = Parsed(a.peers, <<>>)
    <3>1. announced = ExtractPeersFromTrackerResponse(Meaning[v][2])
      BY <1>3, <2>1, Outcomes
    <3> QED BY <1>2, <3>1, PeersTaken
  <2>3. announced.ok /\ announced.value = a.peers
    BY <2>2, Outcomes
  <2> QED BY <1>2, <1>5, <2>3 DEF announced, Whole
<1> QED BY <1>1, <1>4, <1>5

(* Any tracker's answer is taken if and only if it is whole, and gives the *)
(* peers the tracker meant, in their order and in either form              *)
(* (utils.go:53-125, tracker.go:249).                                      *)
THEOREM PeersAreExact == Spec => []PeersExact
<1>1. ReadingInv => PeersExact
  <2> SUFFICES ASSUME ReadingInv PROVE PeersExact
    OBVIOUS
  <2>1. CASE AtAnswer
    <3>1. AnswerRight
      BY <2>1 DEF ReadingInv
    <3>2. PICK announced : announced = AnnouncedPeers(bytes)
      OBVIOUS
    <3>3. announced.ok <=> Complete
      BY <3>1, <3>2, AnswerTaken DEF AnswerRight, Complete
    <3>4. announced.ok => announced.value = PeersMeant(source)
      BY <3>1, <3>2, AnswerTaken DEF AnswerRight
    <3> QED BY <3>1, <3>2, <3>3, <3>4 DEF AnswerRight, PeersExact
  <2>2. CASE ~AtAnswer
    BY <2>2 DEF AtAnswer, PeersExact
  <2> QED BY <2>1, <2>2
<1> QED BY <1>1, ReadingInvHolds, PTL

=============================================================================
