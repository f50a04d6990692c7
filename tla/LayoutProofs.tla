---------------------------- MODULE LayoutProofs ----------------------------
(***************************************************************************)
(* Theorems about Layout, for every list of files, every length of them,   *)
(* every piece length and every block size.                                *)
(***************************************************************************)
EXTENDS Layout, WellFoundedInduction, SequenceTheorems, TLAPS

-----------------------------------------------------------------------------
(* Induction, with a set in the place of a predicate.                      *)

LEMMA LeastNumber ==
  ASSUME NEW T \in SUBSET Nat, T # {}
  PROVE  \E m \in T : \A k \in T : m <= k
<1>1. PICK m \in T : \A k \in T : ~(<<k, m>> \in OpToRel(<, Nat))
  BY NatLessThanWellFounded, WFMin
<1>2. \A k \in T : ~(k < m)
  BY <1>1 DEF OpToRel
<1> QED BY <1>2

LEMMA Induction ==
  ASSUME NEW N \in Nat, NEW P, 0 \in P, \A n \in 0..N - 1 : n \in P => n + 1 \in P
  PROVE  \A n \in 0..N : n \in P
<1> DEFINE T == {n \in 0..N : n \notin P}
<1> SUFFICES ASSUME T # {} PROVE FALSE
  OBVIOUS
<1>1. T \in SUBSET Nat
  OBVIOUS
<1>2. PICK m \in T : \A k \in T : m <= k
  <2> HIDE DEF T
  <2> QED BY <1>1, LeastNumber
<1>3. m # 0 /\ m - 1 \in 0..N - 1
  BY <1>2
<1>4. m - 1 \in P
  BY <1>2, <1>3
<1> QED BY <1>2, <1>3, <1>4

(* A function defined by recursion from its value one below.               *)
Recursive(f, n, base, step) == f[0] = base /\ \A k \in 1..n : f[k] = step[k][f[k - 1]]

LEMMA Recursion ==
  ASSUME NEW N \in Nat, NEW S, NEW base \in S, NEW step \in [1..N -> [S -> S]]
  PROVE  \E f \in [0..N -> S] : Recursive(f, N, base, step)
<1> DEFINE Upto(n, f) == f[0] = base /\ \A k \in 1..n : f[k] = step[k][f[k - 1]]
           P == {n \in 0..N : \E f \in [0..n -> S] : Upto(n, f)}
<1>1. 0 \in P
  <2> DEFINE f == [k \in 0..0 |-> base]
  <2>1. Upto(0, f)
    OBVIOUS
  <2>2. f \in [0..0 -> S] /\ 0 \in 0..N
    OBVIOUS
  <2> HIDE DEF f, Upto
  <2> QED BY <2>1, <2>2
<1>2. ASSUME NEW n \in 0..N - 1, n \in P PROVE n + 1 \in P
  <2>1. PICK f \in [0..n -> S] : Upto(n, f)
    BY <1>2
  <2> DEFINE g == [k \in 0..n + 1 |-> IF k = n + 1 THEN step[n + 1][f[n]] ELSE f[k]]
  <2>2. n + 1 \in 1..N /\ n \in 0..n /\ f[n] \in S
    OBVIOUS
  <2>3. step[n + 1][f[n]] \in S
    BY <2>2
  <2>4. g \in [0..n + 1 -> S]
    BY <2>3
  <2>5. Upto(n + 1, g)
    <3>1. g[0] = base
      BY <2>1
    <3>2. ASSUME NEW k \in 1..n + 1 PROVE g[k] = step[k][g[k - 1]]
      <4>1. CASE k = n + 1
        BY <4>1
      <4>2. CASE k # n + 1
        BY <2>1, <4>2
      <4> QED BY <4>1, <4>2
    <3> QED BY <3>1, <3>2
  <2>6. n + 1 \in 0..N
    OBVIOUS
  <2> HIDE DEF g, Upto
  <2> QED BY <2>4, <2>5, <2>6
<1>3. N \in P
  <2> HIDE DEF P
  <2>1. \A n \in 0..N - 1 : n \in P => n + 1 \in P
    BY <1>2
  <2>2. \A n \in 0..N : n \in P
    BY <1>1, <2>1, Induction
  <2> QED BY <2>2
<1>4. PICK f \in [0..N -> S] : Upto(N, f)
  BY <1>3
<1> QED BY <1>4 DEF Recursive

-----------------------------------------------------------------------------
(* Arithmetic of the cuts.                                                 *)

LEMMA Products ==
  ASSUME NEW a \in Int, NEW b \in Int, NEW c \in Nat, a <= b
  PROVE  a * c \in Int /\ b * c \in Int /\ a * c <= b * c
<1>1. PICK d \in Nat : b = a + d
  BY b - a \in Nat
<1>2. b * c = a * c + d * c
  BY <1>1
<1>3. d * c \in Nat
  OBVIOUS
<1> QED BY <1>2, <1>3

LEMMA OneMore ==
  ASSUME NEW a \in Int, NEW c \in Int
  PROVE  a * c \in Int /\ (a + 1) * c = a * c + c /\ (a - 1) * c = a * c - c
OBVIOUS

(* The number whose multiples enclose x.                                   *)
LEMMA DivBetween ==
  ASSUME NEW x \in Int, NEW b \in Nat \ {0}
  PROVE  x \div b \in Int /\ (x \div b) * b <= x /\ x < (x \div b) * b + b
OBVIOUS

LEMMA DivOnly ==
  ASSUME NEW x \in Int, NEW b \in Nat \ {0}, NEW k \in Int, k * b <= x, x < k * b + b
  PROVE  x \div b = k
<1> DEFINE q == x \div b
<1>1. q \in Int /\ q * b <= x /\ x < q * b + b
  BY DivBetween
<1> HIDE DEF q
<1>2. ~(q < k)
  <2> SUFFICES ASSUME q < k PROVE FALSE
    OBVIOUS
  <2>1. (q + 1) * b <= k * b
    BY <1>1, Products
  <2>2. (q + 1) * b = q * b + b
    BY <1>1, OneMore
  <2> QED BY <1>1, <2>1, <2>2
<1>3. ~(k < q)
  <2> SUFFICES ASSUME k < q PROVE FALSE
    OBVIOUS
  <2>1. (k + 1) * b <= q * b
    BY <1>1, Products
  <2>2. (k + 1) * b = k * b + b
    BY OneMore
  <2>3. k * b \in Int /\ q * b \in Int
    BY <1>1
  <2> QED BY <1>1, <2>1, <2>2, <2>3
<1>4. q = k
  BY <1>1, <1>2, <1>3
<1> QED BY <1>4 DEF q

(* The number of cuts of length b that x takes: the last one is not empty. *)
LEMMA CeilBetween ==
  ASSUME NEW x \in Nat, NEW b \in Nat \ {0}
  PROVE  /\ CeilDiv(x, b) \in Nat
         /\ (CeilDiv(x, b) - 1) * b < x
         /\ x <= CeilDiv(x, b) * b
         /\ x > 0 => CeilDiv(x, b) > 0
         /\ CeilDiv(x, b) <= x
<1> DEFINE q == CeilDiv(x, b)
<1>1. q \in Int /\ q * b \in Int /\ q * b <= x + b - 1 /\ x + b - 1 < q * b + b
  <2>1. x + b - 1 \in Int
    OBVIOUS
  <2> QED BY <2>1, DivBetween DEF CeilDiv
<1> HIDE DEF q
<1>2. (q - 1) * b = q * b - b
  BY <1>1, OneMore
<1>3. q * b > -b
  BY <1>1
<1>4. q >= 0
  <2> SUFFICES ASSUME q <= -1 PROVE FALSE
    BY <1>1
  <2>1. q * b <= (-1) * b
    BY <1>1, Products
  <2> QED BY <1>1, <1>3, <2>1
<1>5. x > 0 => q > 0
  BY <1>1, <1>4
<1>6. q <= x
  <2>1. CASE x = 0
    <3> SUFFICES ASSUME q >= 1 PROVE FALSE
      BY <1>1, <2>1
    <3>1. 1 * b <= q * b
      BY <1>1, Products
    <3> QED BY <1>1, <2>1, <3>1
  <2>2. CASE x > 0
    <3> SUFFICES ASSUME q - 1 >= x PROVE FALSE
      BY <1>1
    <3>1. x * b <= (q - 1) * b
      BY <1>1, Products
    <3>2. x * b >= x * 1
      OBVIOUS
    <3> QED BY <1>1, <1>2, <3>1, <3>2
  <2> QED BY <2>1, <2>2
<1>7. (q - 1) * b < x
  BY <1>1, <1>2
<1> QED BY <1>1, <1>4, <1>5, <1>6, <1>7 DEF q

-----------------------------------------------------------------------------
(* The torrent: files, pieces and blocks.                                  *)

Files == lengths \in [FileIndex -> 0..MaxFileLength]

Torrent ==
  /\ Files
  /\ PieceLength \in 1..MaxPieceLength
  /\ BlockSize \in 1..MaxBlockSize
  /\ TotalPieces \in 1..MaxPieces

LEMMA PathsCounted == Len(Paths) \in Nat \ {0}
BY LayoutAssumption

LEMMA FilesLengthDef ==
  ASSUME Files
  PROVE  /\ FilesLength \in [0..Len(Paths) -> Nat]
         /\ FilesLength[0] = 0
         /\ \A k \in FileIndex : FilesLength[k] = FilesLength[k - 1] + lengths[k]
<1> DEFINE N == Len(Paths)
           step == [k \in 1..N |-> [x \in Nat |-> x + lengths[k]]]
<1>1. N \in Nat /\ \A k \in 1..N : lengths[k] \in Nat
  BY PathsCounted, LayoutAssumption DEF Files, FileIndex
<1>2. step \in [1..N -> [Nat -> Nat]]
  BY <1>1
<1>3. PICK f \in [0..N -> Nat] : f[0] = 0 /\ \A n \in 1..N : f[n] = step[n][f[n - 1]]
  <2> HIDE DEF step, N
  <2>1. PICK f \in [0..N -> Nat] : Recursive(f, N, 0, step)
    BY <1>1, <1>2, Recursion
  <2> QED BY <2>1 DEF Recursive
<1>4. f = [n \in 0..N |-> IF n = 0 THEN 0 ELSE f[n - 1] + lengths[n]]
  <2>1. ASSUME NEW n \in 0..N, n # 0 PROVE f[n] = f[n - 1] + lengths[n]
    <3>1. n \in 1..N /\ n - 1 \in 0..N
      BY <1>1, <2>1
    <3>2. f[n - 1] \in Nat
      BY <3>1
    <3>3. step[n][f[n - 1]] = f[n - 1] + lengths[n]
      BY <3>1, <3>2
    <3> HIDE DEF step
    <3> QED BY <1>3, <3>1, <3>3
  <2> HIDE DEF step
  <2> QED BY <1>3, <2>1
<1>5. FilesLength = [n \in 0..N |-> IF n = 0 THEN 0 ELSE FilesLength[n - 1] + lengths[n]]
  <2> HIDE DEF step
  <2> QED BY <1>4 DEF FilesLength
<1>6. \A k \in 0..N : FilesLength[k] = f[k]
  <2> DEFINE P == {k \in 0..N : FilesLength[k] = f[k]}
  <2>1. 0 \in P
    BY <1>1, <1>4, <1>5
  <2>2. ASSUME NEW n \in 0..N - 1, n \in P PROVE n + 1 \in P
    <3>1. n + 1 \in 0..N /\ n + 1 # 0 /\ (n + 1) - 1 = n
      BY <1>1
    <3>2. FilesLength[n + 1] = FilesLength[n] + lengths[n + 1]
      BY <1>5, <3>1
    <3>3. f[n + 1] = f[n] + lengths[n + 1]
      BY <1>4, <3>1
    <3> QED BY <2>2, <3>1, <3>2, <3>3
  <2>3. \A n \in 0..N - 1 : n \in P => n + 1 \in P
    BY <2>2
  <2>4. \A n \in 0..N : n \in P
    <3> HIDE DEF P, N
    <3> QED BY <1>1, <2>1, <2>3, Induction
  <2> QED BY <2>4
<1>7. FilesLength \in [0..N -> Nat]
  <2> HIDE DEF step
  <2> QED BY <1>3, <1>5, <1>6
<1>8. \A k \in 1..N : k \in 0..N /\ k # 0
  BY <1>1
<1> QED BY <1>1, <1>5, <1>7, <1>8 DEF FileIndex

LEMMA FilesLengthGrows ==
  ASSUME Files
  PROVE  \A j, k \in 0..Len(Paths) : j <= k => FilesLength[j] <= FilesLength[k]
<1> DEFINE N == Len(Paths)
           P == {k \in 0..N : \A j \in 0..k : FilesLength[j] <= FilesLength[k]}
<1>1. N \in Nat /\ \A k \in 1..N : lengths[k] \in Nat
  BY PathsCounted, LayoutAssumption DEF Files, FileIndex
<1>2. /\ FilesLength \in [0..N -> Nat]
      /\ \A k \in 1..N : FilesLength[k] = FilesLength[k - 1] + lengths[k]
  BY FilesLengthDef DEF FileIndex
<1>3. 0 \in P
  BY <1>1, <1>2
<1>4. ASSUME NEW n \in 0..N - 1, n \in P PROVE n + 1 \in P
  <2>1. n + 1 \in 1..N /\ n \in 0..N
    BY <1>1
  <2>2. FilesLength[n + 1] = FilesLength[n] + lengths[n + 1]
    BY <1>2, <2>1
  <2>3. ASSUME NEW j \in 0..n + 1 PROVE FilesLength[j] <= FilesLength[n + 1]
    <3>1. FilesLength[n] \in Nat /\ FilesLength[n + 1] \in Nat /\ lengths[n + 1] \in Nat
      BY <1>1, <1>2, <2>1
    <3>2. CASE j \in 0..n
      <4>1. FilesLength[j] <= FilesLength[n] /\ FilesLength[j] \in Nat
        BY <1>2, <1>4, <2>1, <3>2
      <4> QED BY <2>2, <3>1, <4>1
    <3>3. CASE j = n + 1
      BY <3>1, <3>3
    <3> QED BY <3>2, <3>3
  <2> QED BY <2>1, <2>3
<1>5. \A n \in 0..N - 1 : n \in P => n + 1 \in P
  BY <1>4
<1>6. \A n \in 0..N : n \in P
  <2> HIDE DEF P, N
  <2> QED BY <1>1, <1>3, <1>5, Induction
<1> QED BY <1>1, <1>6

(* Every byte of the content has a number below the bound of Byte.         *)
LEMMA FilesLengthBound ==
  ASSUME Files
  PROVE  \A k \in 0..Len(Paths) : FilesLength[k] <= k * MaxFileLength
<1> DEFINE N == Len(Paths)
           P == {k \in 0..N : FilesLength[k] <= k * MaxFileLength}
<1>1. /\ N \in Nat /\ MaxFileLength \in Nat
      /\ \A k \in 1..N : lengths[k] \in Nat /\ lengths[k] <= MaxFileLength
  <2>1. N \in Nat /\ MaxFileLength \in Nat
    BY PathsCounted, LayoutAssumption
  <2>2. \A k \in 1..N : lengths[k] \in 0..MaxFileLength
    BY DEF Files, FileIndex
  <2> QED BY <2>1, <2>2
<1>2. /\ FilesLength \in [0..N -> Nat] /\ FilesLength[0] = 0
      /\ \A k \in 1..N : FilesLength[k] = FilesLength[k - 1] + lengths[k]
  BY FilesLengthDef DEF FileIndex
<1>3. 0 \in P
  BY <1>1, <1>2
<1>4. ASSUME NEW n \in 0..N - 1, n \in P PROVE n + 1 \in P
  <2>1. n + 1 \in 1..N /\ n \in 0..N /\ n + 1 \in 0..N /\ n \in Int
    BY <1>1
  <2>2. FilesLength[n + 1] = FilesLength[n] + lengths[n + 1]
    BY <1>2, <2>1
  <2>3. FilesLength[n] \in Nat /\ FilesLength[n] <= n * MaxFileLength
    BY <1>2, <1>4, <2>1
  <2>4. (n + 1) * MaxFileLength = n * MaxFileLength + MaxFileLength
        /\ n * MaxFileLength \in Int
    BY <1>1, <2>1, OneMore
  <2>5. lengths[n + 1] \in Nat /\ lengths[n + 1] <= MaxFileLength
    BY <1>1, <2>1
  <2> QED BY <1>1, <2>1, <2>2, <2>3, <2>4, <2>5
<1>5. \A n \in 0..N - 1 : n \in P => n + 1 \in P
  BY <1>4
<1>6. \A n \in 0..N : n \in P
  <2> HIDE DEF P, N
  <2> QED BY <1>1, <1>3, <1>5, Induction
<1> QED BY <1>6

(* The length of piece i that its author hashed.                           *)
Hashed(i) == Least(PieceLength, TotalLength - i * PieceLength)

LEMMA PieceFacts ==
  ASSUME Torrent, NEW i \in Piece
  PROVE  /\ i \in Nat /\ PieceLength \in Nat \ {0} /\ i * PieceLength \in Nat
         /\ TotalLength \in Nat
         /\ LengthOf(i) = Hashed(i)
         /\ LengthOf(i) \in 1..PieceLength
         /\ i * PieceLength + LengthOf(i) <= TotalLength
         /\ LengthOf(i) < PieceLength => i * PieceLength + LengthOf(i) = TotalLength
<1>1. PieceLength \in Nat \ {0} /\ TotalPieces \in Nat \ {0} /\ i \in 0..TotalPieces - 1
  BY LayoutAssumption DEF Torrent, Piece
<1>2. TotalLength \in Nat
  BY FilesLengthDef, PathsCounted DEF Torrent, TotalLength
<1> DEFINE T == TotalLength
           n == TotalPieces
           p == PieceLength
<1>3. (n - 1) * p < T /\ T <= n * p
  BY <1>1, <1>2, CeilBetween DEF TotalPieces
<1> HIDE DEF T, n, p
<1>4. (n - 1) * p = n * p - p /\ n * p \in Int /\ i * p \in Int /\ (i + 1) * p = i * p + p
  BY <1>1, OneMore DEF n, p
<1>5. i * p >= 0
  BY <1>1, Products DEF p
<1>6. CASE i = n - 1
  <2>1. T - i * p \in 1..p
    BY <1>1, <1>2, <1>3, <1>4, <1>6 DEF T, n, p
  <2>2. LengthOf(i) = T - i * p
    BY <1>1, <1>2, <1>4, <1>6, <2>1 DEF LengthOf, LastPieceLength, T, n, p
  <2>3. Hashed(i) = T - i * p
    BY <1>1, <1>2, <1>4, <2>1 DEF Hashed, Least, T, p
  <2> QED BY <1>1, <1>2, <1>4, <1>5, <2>1, <2>2, <2>3 DEF T, p
<1>7. CASE i # n - 1
  <2>1. LengthOf(i) = p
    BY <1>7 DEF LengthOf, n, p
  <2>2. i + 1 <= n - 1
    BY <1>1, <1>7 DEF n
  <2>3. (i + 1) * p <= (n - 1) * p
    BY <1>1, <2>2, Products DEF p, n
  <2>4. i * p + p < T
    BY <1>1, <1>2, <1>3, <1>4, <2>3 DEF T, p, n
  <2>5. Hashed(i) = p
    BY <1>1, <1>2, <1>4, <2>4 DEF Hashed, Least, T, p
  <2> QED BY <1>1, <1>2, <1>4, <1>5, <2>1, <2>4, <2>5 DEF T, p
<1> QED BY <1>6, <1>7

(* Every place of the content is in the piece its division gives.          *)
LEMMA PieceOfPosition ==
  ASSUME Torrent, NEW x \in Nat, x < TotalLength
  PROVE  /\ x \div PieceLength \in Piece
         /\ \A i \in Piece :
              x \div PieceLength = i <=>
                x \in i * PieceLength .. i * PieceLength + LengthOf(i) - 1
<1> DEFINE p == PieceLength
           n == TotalPieces
           q == x \div p
<1>1. p \in Nat \ {0} /\ n \in Nat \ {0}
  BY LayoutAssumption DEF Torrent
<1>2. TotalLength \in Nat
  BY FilesLengthDef, PathsCounted DEF Torrent, TotalLength
<1>3. TotalLength <= n * p
  BY <1>1, <1>2, CeilBetween DEF TotalPieces
<1>4. q \in Int /\ q * p <= x /\ x < q * p + p
  BY <1>1, DivBetween
<1> HIDE DEF q, p, n
<1>5. q \in 0..n - 1
  <2>1. ~(q >= n)
    <3> SUFFICES ASSUME q >= n PROVE FALSE
      OBVIOUS
    <3>1. n * p <= q * p /\ n * p \in Int /\ q * p \in Int
      BY <1>1, <1>4, Products
    <3> QED BY <1>2, <1>3, <1>4, <3>1
  <2>2. ~(q <= -1)
    <3> SUFFICES ASSUME q <= -1 PROVE FALSE
      OBVIOUS
    <3>1. q * p <= (-1) * p /\ q * p \in Int
      BY <1>1, <1>4, Products
    <3> QED BY <1>1, <1>4, <3>1
  <2> QED BY <1>1, <1>4, <2>1, <2>2
<1>6. ASSUME NEW i \in Piece
      PROVE  q = i <=> x \in i * p .. i * p + LengthOf(i) - 1
  <2>1. /\ i \in Nat /\ i * p \in Nat /\ LengthOf(i) \in 1..p /\ i * p + LengthOf(i) <= TotalLength
        /\ LengthOf(i) < p => i * p + LengthOf(i) = TotalLength
    BY PieceFacts DEF p
  <2>2. CASE q = i
    BY <1>1, <1>2, <1>4, <2>1, <2>2
  <2>3. CASE x \in i * p .. i * p + LengthOf(i) - 1
    <3>1. i * p <= x /\ x < i * p + p
      BY <1>1, <2>1, <2>3
    <3> QED BY <1>1, <2>1, <3>1, DivOnly DEF q
  <2> QED BY <2>2, <2>3
<1> QED BY <1>5, <1>6 DEF Piece, q, p, n

LEMMA BlockFacts ==
  ASSUME Torrent, NEW i \in Piece
  PROVE  /\ TotalBlocks(i) \in Nat \ {0} /\ BlockSize \in Nat \ {0}
         /\ (TotalBlocks(i) - 1) * BlockSize < LengthOf(i)
         /\ LengthOf(i) <= TotalBlocks(i) * BlockSize
         /\ \A b \in 0..TotalBlocks(i) - 1 :
              /\ b \in BlockIndex
              /\ Begin(b) \in Nat /\ Begin(b) < LengthOf(i)
              /\ Begin(b) \div BlockSize = b
              /\ BlockLength(i, b) = Least(BlockSize, LengthOf(i) - Begin(b))
              /\ BlockLength(i, b) \in Nat \ {0}
<1> DEFINE L == LengthOf(i)
           z == BlockSize
           n == TotalBlocks(i)
<1>1. L \in Nat \ {0} /\ L <= PieceLength /\ PieceLength \in Nat
  BY PieceFacts
<1>2. z \in Nat \ {0}
  BY LayoutAssumption DEF Torrent
<1>3. n \in Nat /\ (n - 1) * z < L /\ L <= n * z /\ n > 0 /\ n <= L
  BY <1>1, <1>2, CeilBetween DEF TotalBlocks
<1>4. PieceLength <= MaxPieceLength /\ MaxPieceLength \in Nat
  BY LayoutAssumption DEF Torrent
<1> HIDE DEF L, z, n
<1>5. ASSUME NEW b \in 0..n - 1
      PROVE  /\ b \in BlockIndex
             /\ b * z \in Nat /\ b * z < L
             /\ (b * z) \div z = b
             /\ BlockLength(i, b) = Least(z, L - b * z)
             /\ BlockLength(i, b) \in Nat \ {0}
  <2>1. b \in BlockIndex
    BY <1>1, <1>3, <1>4 DEF BlockIndex
  <2>2. b * z \in Int /\ b * z <= (n - 1) * z /\ (n - 1) * z \in Int
    BY <1>2, <1>3, Products
  <2>3. b * z >= 0
    BY <1>2
  <2>4. b * z < L
    BY <1>1, <1>3, <2>2
  <2>5. (b * z) \div z = b
    <3>1. b * z <= b * z /\ b * z < b * z + z
      BY <1>2, <2>2
    <3> QED BY <1>2, <1>3, <2>2, <3>1, DivOnly
  <2>6. BlockLength(i, b) = IF b * z + z > L THEN L - b * z ELSE z
    BY DEF BlockLength, Begin, L, z
  <2>7. b * z \in Nat
    BY <2>2, <2>3
  <2>8. Least(z, L - b * z) = IF b * z + z > L THEN L - b * z ELSE z
    BY <1>1, <1>2, <2>7 DEF Least
  <2>9. (IF b * z + z > L THEN L - b * z ELSE z) \in Nat \ {0}
    BY <1>1, <1>2, <2>4, <2>7
  <2> QED BY <2>1, <2>4, <2>5, <2>6, <2>7, <2>8, <2>9
<1> QED BY <1>2, <1>3, <1>5 DEF L, z, n, Begin

-----------------------------------------------------------------------------
(* The bytes of a run of the content, and blocks put together.             *)

LEMMA ContentFacts ==
  ASSUME NEW from \in Nat, NEW count \in Nat
  PROVE  /\ Content(from, count) \in Seq(Nat)
         /\ Len(Content(from, count)) = count
         /\ \A n \in 1..count : Content(from, count)[n] = from + n - 1
         /\ Content(from, count) = <<>> <=> count = 0
<1>1. [n \in 1..count |-> from + n - 1] \in Seq(Nat)
  OBVIOUS
<1>2. Len([n \in 1..count |-> from + n - 1]) = count
  OBVIOUS
<1> QED BY <1>1, <1>2 DEF Content

LEMMA ContentJoined ==
  ASSUME NEW from \in Nat, NEW a \in Nat, NEW b \in Nat
  PROVE  Content(from, a) \o Content(from + a, b) = Content(from, a + b)
<1> DEFINE s == Content(from, a)
           t == Content(from + a, b)
           u == Content(from, a + b)
<1>1. from + a \in Nat /\ a + b \in Nat
  OBVIOUS
<1>2. s \in Seq(Nat) /\ Len(s) = a /\ \A n \in 1..a : s[n] = from + n - 1
  BY ContentFacts
<1>3. t \in Seq(Nat) /\ Len(t) = b /\ \A n \in 1..b : t[n] = from + a + n - 1
  BY <1>1, ContentFacts
<1>4. u \in Seq(Nat) /\ Len(u) = a + b /\ \A n \in 1..a + b : u[n] = from + n - 1
  BY <1>1, ContentFacts
<1> HIDE DEF s, t, u
<1>5. /\ s \o t \in Seq(Nat) /\ Len(s \o t) = a + b
      /\ \A n \in 1..a + b : (s \o t)[n] = IF n <= a THEN s[n] ELSE t[n - a]
  BY <1>2, <1>3, ConcatProperties
<1>6. ASSUME NEW n \in 1..a + b PROVE (s \o t)[n] = u[n]
  <2>1. CASE n <= a
    BY <1>2, <1>4, <1>5, <2>1
  <2>2. CASE n > a
    <3>1. n - a \in 1..b
      BY <2>2
    <3>2. t[n - a] = from + a + (n - a) - 1
      BY <1>3, <3>1
    <3>3. u[n] = from + n - 1
      BY <1>4
    <3>4. (s \o t)[n] = t[n - a]
      BY <1>5, <2>2
    <3> QED BY <3>2, <3>3, <3>4
  <2>3. n <= a \/ n > a
    OBVIOUS
  <2> QED BY <2>1, <2>2, <2>3
<1>7. s \o t = u
  BY <1>4, <1>5, <1>6, SeqEqual
<1> QED BY <1>7 DEF s, t, u

(* seqs is the run of L bytes, cut every z bytes into m parts.             *)
IsCut(seqs, from, L, z, m) ==
  /\ (m - 1) * z < L /\ L <= m * z
  /\ seqs \in [1..m -> Seq(Nat)]
  /\ \A k \in 1..m : seqs[k] = Content(from + (k - 1) * z, Least(z, L - (k - 1) * z))

LEMMA Flattened ==
  ASSUME NEW from \in Nat, NEW L \in Nat \ {0}, NEW z \in Nat \ {0}, NEW m \in Nat \ {0},
         NEW seqs, IsCut(seqs, from, L, z, m)
  PROVE  FlattenSeq(seqs) = Content(from, L)
<1> USE DEF IsCut
<1> DEFINE step == [k \in 1..m |-> [s \in Seq(Nat) |-> IF k = 1 THEN seqs[k] ELSE s \o seqs[k]]]
           fl[k \in 1..m] == IF k = 1 THEN seqs[k] ELSE fl[k - 1] \o seqs[k]
           P == {n \in 0..m - 1 : fl[n + 1] = Content(from, Least((n + 1) * z, L))}
<1>1. Len(seqs) = m
  OBVIOUS
<1>2. FlattenSeq(seqs) = fl[m]
  BY <1>1 DEF FlattenSeq
<1>3. fl = [k \in 1..m |-> IF k = 1 THEN seqs[k] ELSE fl[k - 1] \o seqs[k]]
  <2>1. step \in [1..m -> [Seq(Nat) -> Seq(Nat)]]
    <3>1. ASSUME NEW k \in 1..m, NEW s \in Seq(Nat)
          PROVE  (IF k = 1 THEN seqs[k] ELSE s \o seqs[k]) \in Seq(Nat)
      OBVIOUS
    <3> QED BY <3>1
  <2>2. PICK f \in [0..m -> Seq(Nat)] :
          f[0] = <<>> /\ \A k \in 1..m : f[k] = step[k][f[k - 1]]
    <3>1. <<>> \in Seq(Nat) /\ m \in Nat
      OBVIOUS
    <3> HIDE DEF step
    <3>2. PICK f \in [0..m -> Seq(Nat)] : Recursive(f, m, <<>>, step)
      BY <2>1, <3>1, Recursion
    <3> QED BY <3>2 DEF Recursive
  <2> DEFINE g == [k \in 1..m |-> f[k]]
  <2>3. ASSUME NEW k \in 1..m
        PROVE  g[k] = IF k = 1 THEN seqs[k] ELSE g[k - 1] \o seqs[k]
    <3>1. f[k - 1] \in Seq(Nat) /\ (k # 1 => k - 1 \in 1..m)
      OBVIOUS
    <3>2. step[k][f[k - 1]] = IF k = 1 THEN seqs[k] ELSE f[k - 1] \o seqs[k]
      BY <3>1
    <3> HIDE DEF step
    <3> QED BY <2>2, <3>1, <3>2
  <2>4. g = [k \in 1..m |-> IF k = 1 THEN seqs[k] ELSE g[k - 1] \o seqs[k]]
    <3>1. g = [k \in 1..m |-> g[k]]
      OBVIOUS
    <3> HIDE DEF g, step
    <3> QED BY <2>3, <3>1
  <2> HIDE DEF g, step
  <2> QED BY <2>4
<1> HIDE DEF fl, step
<1>4. 0 \in P
  <2>1. fl[1] = Content(from + 0 * z, Least(z, L - 0 * z))
    BY <1>3
  <2>2. 0 * z = 0 /\ (0 + 1) * z = z
    OBVIOUS
  <2>3. from + 0 = from /\ L - 0 = L /\ 0 \in 0..m - 1 /\ 0 + 1 = 1
    OBVIOUS
  <2> QED BY <2>1, <2>2, <2>3
<1>5. ASSUME NEW n \in 0..(m - 1) - 1, n \in P PROVE n + 1 \in P
  <2> DEFINE k == n + 1
             a == k * z
             b == Least(z, L - a)
  <2>1. k \in 1..m - 1 /\ k + 1 \in 1..m /\ k + 1 # 1 /\ (k + 1) - 1 = k
    OBVIOUS
  <2>2. fl[k + 1] = fl[k] \o Content(from + a, b)
    <3>1. fl[k + 1] = fl[(k + 1) - 1] \o seqs[k + 1]
      BY <1>3, <2>1
    <3>2. seqs[k + 1] = Content(from + ((k + 1) - 1) * z, Least(z, L - ((k + 1) - 1) * z))
      BY <2>1
    <3>3. (k + 1) - 1 = k
      BY <2>1
    <3> HIDE DEF k
    <3> QED BY <3>1, <3>2, <3>3
  <2> HIDE DEF k
  <2>3. a \in Int /\ z <= a /\ a < L /\ (k + 1) * z = a + z
    <3>1. a <= (m - 1) * z /\ a \in Int /\ (m - 1) * z \in Int
      BY <2>1, Products
    <3>2. 1 * z <= a
      BY <2>1, Products
    <3>3. (k + 1) * z = a + z
      <4>1. k \in Int /\ z \in Int
        BY <2>1
      <4> QED BY <4>1, OneMore
    <3> QED BY <3>1, <3>2, <3>3
  <2> HIDE DEF a
  <2>4. Least(a, L) = a /\ a \in Nat /\ b \in Nat /\ a + b = Least(a + z, L)
    BY <2>3 DEF Least
  <2>5. fl[k] = Content(from, a)
    BY <1>5, <2>4 DEF a, k
  <2>6. fl[k + 1] = Content(from, a + b)
    <3> HIDE DEF b
    <3>1. Content(from, a) \o Content(from + a, b) = Content(from, a + b)
      BY <2>4, ContentJoined
    <3> QED BY <2>2, <2>5, <3>1
  <2>7. fl[k + 1] = Content(from, Least((k + 1) * z, L))
    BY <2>3, <2>4, <2>6
  <2> QED BY <2>1, <2>7 DEF k
<1>6. \A n \in 0..m - 1 : n \in P
  <2>1. m - 1 \in Nat
    OBVIOUS
  <2>2. \A n \in 0..(m - 1) - 1 : n \in P => n + 1 \in P
    BY <1>5
  <2> HIDE DEF P
  <2> QED BY <1>4, <2>1, <2>2, Induction
<1>7. fl[m] = Content(from, L)
  <2>1. m - 1 \in P
    <3>1. m - 1 \in 0..m - 1
      OBVIOUS
    <3> HIDE DEF P
    <3> QED BY <1>6, <3>1
  <2>2. (m - 1) + 1 = m
    OBVIOUS
  <2>3. Least(m * z, L) = L
    BY DEF Least
  <2> QED BY <2>1, <2>2, <2>3
<1> QED BY <1>2, <1>7

(* A run of the content holds bytes of it.                                 *)
LEMMA ContentOfBytes ==
  ASSUME Files, NEW from \in Nat, NEW count \in Nat, from + count <= TotalLength
  PROVE  Content(from, count) \in Seq(Byte)
<1>1. TotalLength \in Nat /\ TotalLength <= Len(Paths) * MaxFileLength
  <2>1. Len(Paths) \in 0..Len(Paths)
    BY PathsCounted
  <2> QED BY <2>1, FilesLengthDef, FilesLengthBound DEF TotalLength
<1>2. Len(Paths) * MaxFileLength \in Int
  BY PathsCounted, LayoutAssumption
<1>3. \A n \in 1..count : from + n - 1 \in Byte
  BY <1>1, <1>2 DEF Byte
<1>4. [n \in 1..count |-> from + n - 1] \in [1..count -> Byte]
  BY <1>3
<1> QED BY <1>4, SeqDef DEF Content

LEMMA TorrentKept ==
  ASSUME UNCHANGED torrentVars
  PROVE  /\ FilesLength' = FilesLength /\ TotalLength' = TotalLength
         /\ Piece' = Piece /\ (Torrent => Torrent')
         /\ \A i : LengthOf(i)' = LengthOf(i) /\ TotalBlocks(i)' = TotalBlocks(i)
         /\ \A b : Begin(b)' = Begin(b) /\ \A i : BlockLength(i, b)' = BlockLength(i, b)
         /\ \A k : FileStart(k)' = FileStart(k)
         /\ lengths' = lengths /\ PieceLength' = PieceLength /\ BlockSize' = BlockSize
<1>1. lengths' = lengths /\ PieceLength' = PieceLength /\ BlockSize' = BlockSize
  BY DEF torrentVars
<1>2. FilesLength' = FilesLength
  BY <1>1 DEF FilesLength
<1>3. TotalLength' = TotalLength /\ \A k : FileStart(k)' = FileStart(k)
  BY <1>2 DEF TotalLength, FileStart
<1>4. TotalPieces' = TotalPieces /\ Piece' = Piece
  BY <1>1, <1>3 DEF TotalPieces, Piece
<1>5. \A i : LengthOf(i)' = LengthOf(i)
  BY <1>1, <1>3, <1>4 DEF LengthOf, LastPieceLength
<1>6. \A i : TotalBlocks(i)' = TotalBlocks(i)
  BY <1>1, <1>5 DEF TotalBlocks
<1>7. \A b : Begin(b)' = Begin(b) /\ \A i : BlockLength(i, b)' = BlockLength(i, b)
  BY <1>1, <1>5 DEF Begin, BlockLength
<1>8. Torrent => Torrent'
  BY <1>1, <1>4 DEF Torrent, Files
<1> QED BY <1>1, <1>2, <1>3, <1>4, <1>5, <1>6, <1>7, <1>8

-----------------------------------------------------------------------------
(* The blocks: every block that is there holds its bytes.                  *)

BlocksRight ==
  /\ Blocks \in [Piece -> [BlockIndex -> Seq(Byte)]]
  /\ \A i \in Piece : \A b \in 0..TotalBlocks(i) - 1 :
       Blocks[i][b] = <<>> \/ Blocks[i][b] = Content(i * PieceLength + Begin(b), BlockLength(i, b))

(* The bytes of one block are bytes of the content.                        *)
LEMMA BlockContent ==
  ASSUME Torrent, NEW i \in Piece, NEW b \in 0..TotalBlocks(i) - 1
  PROVE  /\ i * PieceLength + Begin(b) \in Nat
         /\ BlockLength(i, b) \in Nat
         /\ i * PieceLength + Begin(b) + BlockLength(i, b) <= TotalLength
<1>1. /\ i * PieceLength \in Nat /\ LengthOf(i) \in Nat /\ TotalLength \in Nat
      /\ i * PieceLength + LengthOf(i) <= TotalLength
  BY PieceFacts
<1>2. /\ Begin(b) \in Nat /\ Begin(b) < LengthOf(i) /\ BlockSize \in Nat
      /\ BlockLength(i, b) = Least(BlockSize, LengthOf(i) - Begin(b))
      /\ BlockLength(i, b) \in Nat
  BY BlockFacts
<1>3. BlockLength(i, b) <= LengthOf(i) - Begin(b)
  BY <1>1, <1>2 DEF Least
<1> QED BY <1>1, <1>2, <1>3

LEMMA BlocksFetched ==
  ASSUME Torrent, BlocksRight, NEW i \in Piece, FetchBlock(i)
  PROVE  BlocksRight'
<1> DEFINE block(b) == Content(i * PieceLength + Begin(b), BlockLength(i, b))
<1>1. UNCHANGED torrentVars
  BY DEF FetchBlock
<1>2. PICK b \in BlockIndex :
        /\ b \in 0..TotalBlocks(i) - 1
        /\ Blocks' = [Blocks EXCEPT ![i][Begin(b) \div BlockSize] = block(b)]
  BY DEF FetchBlock, IsNextBlock, Missing
<1>3. Begin(b) \div BlockSize = b
  BY <1>2, BlockFacts
<1>4. block(b) \in Seq(Byte)
  BY <1>2, BlockContent, ContentOfBytes DEF Torrent
<1> HIDE DEF block
<1>5. Blocks' = [Blocks EXCEPT ![i][b] = block(b)]
  BY <1>2, <1>3
<1>6. Blocks' \in [Piece -> [BlockIndex -> Seq(Byte)]]
  <2> DEFINE row == [Blocks[i] EXCEPT ![b] = block(b)]
             Row == [BlockIndex -> Seq(Byte)]
  <2>1. Blocks \in [Piece -> Row] /\ Blocks[i] \in Row
    BY DEF BlocksRight
  <2>2. row \in Row
    BY <1>4, <2>1
  <2>3. Blocks' = [Blocks EXCEPT ![i] = row]
    BY <1>5
  <2> HIDE DEF row, Row
  <2>4. Blocks' \in [Piece -> Row]
    BY <2>1, <2>2, <2>3
  <2> QED BY <2>4 DEF Row
<1>7. ASSUME NEW j \in Piece, NEW c \in 0..TotalBlocks(j) - 1
      PROVE  \/ Blocks'[j][c] = <<>>
             \/ Blocks'[j][c] = Content(j * PieceLength + Begin(c), BlockLength(j, c))
  <2>1. c \in BlockIndex
    BY BlockFacts
  <2>2. CASE j = i /\ c = b
    <3>1. Blocks'[j][c] = block(b)
      BY <1>2, <1>5, <2>1, <2>2 DEF BlocksRight
    <3> QED BY <2>2, <3>1 DEF block
  <2>3. CASE ~(j = i /\ c = b)
    <3>1. Blocks'[j][c] = Blocks[j][c]
      BY <1>2, <1>5, <2>1, <2>3 DEF BlocksRight
    <3> QED BY <3>1 DEF BlocksRight
  <2> QED BY <2>2, <2>3
<1> QED BY <1>1, <1>6, <1>7, TorrentKept DEF BlocksRight

LEMMA BlocksUntouched ==
  ASSUME BlocksRight, UNCHANGED <<torrentVars, Blocks>>
  PROVE  BlocksRight'
<1>1. UNCHANGED torrentVars /\ Blocks' = Blocks
  OBVIOUS
<1> QED BY <1>1, TorrentKept DEF BlocksRight

(* The blocks of a whole piece, put together, are the piece.               *)
LEMMA PieceDataIsPiece ==
  ASSUME Torrent, BlocksRight, NEW i \in Piece, Missing(i) = {}
  PROVE  PieceData(i) = Content(i * PieceLength, LengthOf(i))
<1> DEFINE m == TotalBlocks(i)
           z == BlockSize
           L == LengthOf(i)
           from == i * PieceLength
           seqs == [n \in 1..m |-> Blocks[i][n - 1]]
<1>1. from \in Nat /\ L \in Nat \ {0}
  BY PieceFacts
<1>2. m \in Nat \ {0} /\ z \in Nat \ {0} /\ (m - 1) * z < L /\ L <= m * z
  BY BlockFacts
<1>3. ASSUME NEW k \in 1..m
      PROVE  /\ seqs[k] \in Seq(Nat)
             /\ seqs[k] = Content(from + (k - 1) * z, Least(z, L - (k - 1) * z))
  <2>1. k - 1 \in 0..m - 1
    BY <1>2
  <2>2. Blocks[i][k - 1] = Content(from + Begin(k - 1), BlockLength(i, k - 1))
    BY <2>1 DEF BlocksRight, Missing
  <2>3. BlockLength(i, k - 1) = Least(z, L - Begin(k - 1)) /\ Begin(k - 1) = (k - 1) * z
    BY <2>1, BlockFacts DEF Begin
  <2>4. Content(from + Begin(k - 1), BlockLength(i, k - 1)) \in Seq(Nat)
    BY <2>1, BlockContent, ContentFacts
  <2>5. seqs[k] = Blocks[i][k - 1]
    OBVIOUS
  <2> HIDE DEF m, z, L, from, seqs
  <2> QED BY <2>2, <2>3, <2>4, <2>5
<1>4. seqs \in [1..m -> Seq(Nat)]
  <2>1. seqs = [n \in 1..m |-> seqs[n]]
    OBVIOUS
  <2> HIDE DEF seqs, m
  <2> QED BY <1>3, <2>1
<1>5. PieceData(i) = FlattenSeq(seqs)
  BY DEF PieceData
<1> HIDE DEF m, z, L, from, seqs
<1>6. FlattenSeq(seqs) = Content(from, L)
  <2>1. \A k \in 1..m : seqs[k] = Content(from + (k - 1) * z, Least(z, L - (k - 1) * z))
    BY <1>3
  <2>2. from \in Nat /\ L \in Nat \ {0} /\ m \in Nat \ {0} /\ z \in Nat \ {0}
    BY <1>1, <1>2
  <2>3. IsCut(seqs, from, L, z, m)
    BY <1>2, <1>4, <2>1 DEF IsCut
  <2> QED BY <2>2, <2>3, Flattened
<1> QED BY <1>5, <1>6 DEF from, L

LEMMA Assembled ==
  ASSUME Torrent, BlocksRight
  PROVE  AssembledWhole
BY PieceDataIsPiece, PieceFacts DEF AssembledWhole, Hashed

-----------------------------------------------------------------------------
(* The loop of WritePiece: what it has before it looks at a file.          *)

Loops == [piece : Piece, file : 0..Len(Paths) + 1, data : Seq(Byte), remaining : Int,
          currentFileOffset : 0..TotalLength]

(* The loop has done its part of every file before the current one.        *)
WritingRight ==
  /\ writing \in Loops
  /\ writing.file = 0 => writing = Idle
  /\ writing.file # 0 =>
       /\ writing.data = Content(PieceOffset, LengthOf(writing.piece))
       /\ writing.file \in FileIndex => writing.currentFileOffset = FileStart(writing.file)
       /\ writing.file \notin FileIndex => PieceEnd <= writing.currentFileOffset
       /\ writing.remaining =
            PieceEnd - Greatest(PieceOffset, Least(PieceEnd, writing.currentFileOffset))

(* Bytes of the piece before the current file are on disk.                 *)
PutOnDisk ==
  writing.file # 0 =>
    \A k \in FileIndex : \A o \in 0..lengths[k] - 1 :
      ( /\ FileStart(k) + o \in PieceOffset..PieceEnd - 1
        /\ FileStart(k) + o < writing.currentFileOffset )
      => disk[<<FilePath(k), o>>] # Hole

DiskType == disk \in [Place -> Byte \cup {Hole}]

PiecesType == written \cup failed \subseteq Piece

LayoutInv ==
  Torrent /\ BlocksRight /\ WritingRight /\ DiskType /\ PiecesType /\ PutOnDisk /\ WrittenIsOnDisk

(* What a turn of the loop, and what the fields of a record are.           *)
LEMMA LoopFields ==
  ASSUME Torrent, WritingRight
  PROVE  /\ writing.piece \in Piece
         /\ writing.file \in 0..Len(Paths) + 1
         /\ writing.data \in Seq(Byte)
         /\ writing.remaining \in Int
         /\ writing.currentFileOffset \in 0..TotalLength
         /\ TotalLength \in Nat
         /\ PieceOffset \in Nat
         /\ writing.file # 0 =>
              /\ Len(writing.data) = LengthOf(writing.piece)
              /\ Len(writing.data) \in 1..PieceLength
              /\ PieceEnd \in Nat /\ PieceOffset < PieceEnd /\ PieceEnd <= TotalLength
              /\ \A n \in 1..Len(writing.data) : writing.data[n] = PieceOffset + n - 1
<1>1. /\ writing.piece \in Piece
      /\ writing.file \in 0..Len(Paths) + 1
      /\ writing.data \in Seq(Byte)
      /\ writing.remaining \in Int
      /\ writing.currentFileOffset \in 0..TotalLength
  BY DEF WritingRight, Loops
<1>2. /\ PieceOffset \in Nat /\ TotalLength \in Nat /\ PieceLength \in Nat
      /\ LengthOf(writing.piece) \in 1..PieceLength
      /\ PieceOffset + LengthOf(writing.piece) <= TotalLength
  BY <1>1, PieceFacts DEF PieceOffset
<1>3. ASSUME writing.file # 0
      PROVE  /\ Len(writing.data) = LengthOf(writing.piece)
             /\ \A n \in 1..Len(writing.data) : writing.data[n] = PieceOffset + n - 1
  <2>1. writing.data = Content(PieceOffset, LengthOf(writing.piece))
    BY <1>3 DEF WritingRight
  <2>2. LengthOf(writing.piece) \in Nat
    BY <1>2
  <2> DEFINE s == Content(PieceOffset, LengthOf(writing.piece))
  <2>3. /\ Len(s) = LengthOf(writing.piece)
        /\ \A n \in 1..LengthOf(writing.piece) : s[n] = PieceOffset + n - 1
    BY <1>2, <2>2, ContentFacts
  <2> HIDE DEF s
  <2> QED BY <2>1, <2>3 DEF s
<1> QED BY <1>1, <1>2, <1>3 DEF PieceEnd

(* The current file.                                                       *)
LEMMA CurrentFile ==
  ASSUME Torrent, WritingRight, InLoop
  PROVE  /\ writing.file \in FileIndex /\ writing.file # 0
         /\ fileStart = FileStart(writing.file) /\ fileStart \in Nat
         /\ lengths[writing.file] \in Nat
         /\ fileEnd = FilesLength[writing.file] /\ fileEnd \in Nat
         /\ fileStart <= fileEnd /\ fileEnd <= TotalLength
         /\ lengths[writing.file] <= MaxFileLength
<1>1. writing.file \in FileIndex /\ writing.file # 0
  BY DEF InLoop, FileIndex
<1>2. fileStart = FileStart(writing.file)
  BY <1>1 DEF WritingRight, fileStart
<1> DEFINE f == writing.file
           N == Len(Paths)
<1>3. N \in Nat /\ f \in 1..N
  BY <1>1, PathsCounted DEF FileIndex
<1> HIDE DEF f, N
<1>4. f \in 0..N /\ f - 1 \in 0..N /\ N \in 0..N
  BY <1>3
<1>5. lengths[f] \in 0..MaxFileLength
  BY <1>1 DEF Torrent, Files, f
<1>6. /\ FilesLength[f - 1] \in Nat /\ FilesLength[f] \in Nat
      /\ FilesLength[f] = FilesLength[f - 1] + lengths[f]
  BY <1>1, <1>4, FilesLengthDef DEF Torrent, N, f
<1>7. FilesLength[f] <= FilesLength[N]
  BY <1>3, <1>4, FilesLengthGrows DEF Torrent, N
<1>8. MaxFileLength \in Nat
  BY LayoutAssumption
<1> QED BY <1>1, <1>2, <1>5, <1>6, <1>7, <1>8 DEF FileStart, fileEnd, fileStart, TotalLength, f, N

(* A place of the content is in one file only.                             *)
LEMMA FileOfPlace ==
  ASSUME Torrent, NEW f \in FileIndex, NEW k \in FileIndex, NEW o \in 0..lengths[k] - 1
  PROVE  /\ FileStart(k) + o \in Nat /\ FileStart(k) + o < TotalLength
         /\ ( FileStart(f) <= FileStart(k) + o /\ FileStart(k) + o < FileStart(f) + lengths[f] )
              => k = f
<1> DEFINE N == Len(Paths)
           F == FilesLength
<1>1. N \in Nat /\ f \in 1..N /\ k \in 1..N
  BY PathsCounted DEF FileIndex
<1>2. lengths[k] \in Nat /\ lengths[f] \in Nat
  <2>1. lengths[k] \in 0..MaxFileLength /\ lengths[f] \in 0..MaxFileLength
    BY DEF Torrent, Files
  <2> QED BY <2>1, LayoutAssumption
<1>3. /\ F \in [0..N -> Nat] /\ F[k] = F[k - 1] + lengths[k] /\ F[f] = F[f - 1] + lengths[f]
      /\ \A i, j \in 0..N : i <= j => F[i] <= F[j]
  BY FilesLengthDef, FilesLengthGrows DEF Torrent
<1> HIDE DEF N, F
<1>4. /\ k \in 0..N /\ k - 1 \in 0..N /\ f \in 0..N /\ f - 1 \in 0..N /\ N \in 0..N
  BY <1>1
<1>5. F[k - 1] \in Nat /\ F[k] \in Nat /\ F[f - 1] \in Nat /\ F[f] \in Nat /\ F[N] \in Nat
  BY <1>3, <1>4
<1>6. F[k - 1] + o \in Nat /\ F[k - 1] + o < F[k]
  BY <1>2, <1>3, <1>5
<1>7. F[k] <= F[N]
  BY <1>1, <1>3, <1>4
<1>8. ASSUME F[f - 1] <= F[k - 1] + o, F[k - 1] + o < F[f] PROVE k = f
  <2>1. CASE k < f
    <3>1. k <= f - 1
      BY <1>1, <2>1
    <3>2. F[k] <= F[f - 1]
      BY <1>3, <1>4, <3>1
    <3> QED BY <1>5, <1>6, <1>8, <3>2
  <2>2. CASE f < k
    <3>1. f <= k - 1
      BY <1>1, <2>2
    <3>2. F[f] <= F[k - 1]
      BY <1>3, <1>4, <3>1
    <3> QED BY <1>5, <1>6, <1>8, <3>2
  <2> QED BY <1>1, <2>1, <2>2
<1>9. F[k - 1] + o < F[N]
  BY <1>5, <1>6, <1>7
<1>10. FileStart(k) = F[k - 1] /\ FileStart(f) = F[f - 1] /\ TotalLength = F[N]
  BY DEF FileStart, TotalLength, F, N
<1> QED BY <1>3, <1>6, <1>8, <1>9, <1>10

-----------------------------------------------------------------------------
(* A chunk, and the disk it is written to.                                 *)

LEMMA ChunkFacts ==
  ASSUME Torrent, WritingRight, InLoop, ~Untouched
  PROVE  /\ WriteStart \in Nat /\ WriteEnd \in Nat /\ WriteStart < WriteEnd
         /\ PieceOffset <= WriteStart /\ WriteEnd <= PieceEnd
         /\ fileStart <= WriteStart /\ WriteEnd <= fileEnd
         /\ Chunk \in Seq(Byte) /\ Len(Chunk) = WriteEnd - WriteStart
         /\ \A n \in 1..Len(Chunk) : Chunk[n] = WriteStart + n - 1
<1>1. /\ PieceOffset \in Nat /\ PieceEnd \in Nat /\ PieceOffset < PieceEnd
      /\ fileStart \in Nat /\ fileEnd \in Nat /\ fileStart <= fileEnd
      /\ writing.data \in Seq(Byte) /\ PieceEnd = PieceOffset + Len(writing.data)
      /\ Len(writing.data) \in Nat
      /\ \A n \in 1..Len(writing.data) : writing.data[n] = PieceOffset + n - 1
  <2>1. writing.file # 0
    BY CurrentFile
  <2>2. Len(writing.data) \in 1..PieceLength
    BY <2>1, LoopFields
  <2>3. Len(writing.data) \in Nat
    BY <2>2
  <2> QED BY <2>1, <2>3, LoopFields, CurrentFile DEF PieceEnd
<1>2. PieceEnd > fileStart /\ PieceOffset < fileEnd /\ BytesToWrite # 0
  BY <1>1 DEF Untouched
<1>3. /\ WriteStart \in Nat /\ WriteEnd \in Nat /\ WriteStart <= WriteEnd
      /\ PieceOffset <= WriteStart /\ WriteEnd <= PieceEnd
      /\ fileStart <= WriteStart /\ WriteEnd <= fileEnd
  BY <1>1, <1>2 DEF WriteStart, WriteEnd, Greatest, Least
<1>4. WriteStart < WriteEnd
  BY <1>2, <1>3 DEF BytesToWrite
<1> DEFINE m == WriteStart - PieceOffset + 1
           n == WriteEnd - PieceOffset
<1>5. m \in Int /\ n \in Int /\ m \in 1..Len(writing.data) /\ n \in 1..Len(writing.data) /\ m <= n
  BY <1>1, <1>3, <1>4
<1>6. \A i \in m..n : writing.data[i] \in Byte
  BY <1>1, <1>5, ElementOfSeq
<1>7. /\ Chunk \in Seq(Byte)
      /\ Len(Chunk) = n - m + 1
      /\ \A i \in 1..n - m + 1 : Chunk[i] = writing.data[m + i - 1]
  <2> HIDE DEF m, n
  <2>1. Chunk = SubSeq(writing.data, m, n)
    BY DEF Chunk, m, n
  <2> QED BY <1>5, <1>6, <2>1, SubSeqProperties
<1>8. n - m + 1 = WriteEnd - WriteStart
  BY <1>1, <1>3
<1>9. ASSUME NEW i \in 1..Len(Chunk) PROVE Chunk[i] = WriteStart + i - 1
  <2>1. m + i - 1 \in 1..Len(writing.data)
    BY <1>1, <1>3, <1>4, <1>7, <1>8
  <2>2. Chunk[i] = PieceOffset + (m + i - 1) - 1
    BY <1>1, <1>7, <2>1
  <2> QED BY <1>1, <1>3, <1>7, <1>8, <2>2
<1> QED BY <1>3, <1>4, <1>7, <1>8, <1>9

(* What is on disk after a chunk was written to the current file.          *)
LEMMA ChunkOnDisk ==
  ASSUME Torrent, WritingRight, DiskType, WriteChunk
  PROVE  /\ DiskType'
         /\ \A pl \in Place : disk[pl] # Hole => disk'[pl] # Hole
         /\ \A pl \in Place : pl[1] # FilePath(writing.file) => disk'[pl] = disk[pl]
         /\ \A o \in 0..lengths[writing.file] - 1 :
              /\ disk'[<<FilePath(writing.file), o>>]
                   \in {disk[<<FilePath(writing.file), o>>], fileStart + o}
              /\ fileStart + o \in WriteStart..WriteEnd - 1 =>
                   disk'[<<FilePath(writing.file), o>>] = fileStart + o
<1> DEFINE at(pl) == pl[2] - FileWriteOffset + 1
           path == FilePath(writing.file)
           hit(pl) == pl[1] = path /\ at(pl) \in 1..Len(Chunk)
<1>1. /\ WriteStart \in Nat /\ WriteEnd \in Nat /\ WriteStart < WriteEnd
      /\ fileStart <= WriteStart /\ WriteEnd <= fileEnd
      /\ Chunk \in Seq(Byte) /\ Len(Chunk) = WriteEnd - WriteStart
      /\ \A n \in 1..Len(Chunk) : Chunk[n] = WriteStart + n - 1
  BY ChunkFacts DEF WriteChunk
<1>2. /\ writing.file \in FileIndex /\ fileStart \in Nat /\ lengths[writing.file] \in Nat
      /\ lengths[writing.file] <= MaxFileLength /\ MaxFileLength \in Nat
  BY CurrentFile, LayoutAssumption DEF WriteChunk
<1>3. disk' = [pl \in Place |-> IF hit(pl) THEN Chunk[at(pl)] ELSE disk[pl]]
  BY DEF WriteChunk
<1>4. ASSUME NEW pl \in Place, hit(pl) PROVE disk'[pl] \in Byte /\ disk'[pl] # Hole
  <2>1. disk'[pl] = Chunk[at(pl)]
    BY <1>3, <1>4
  <2>2. Chunk[at(pl)] \in Byte
    BY <1>1, <1>4, ElementOfSeq
  <2> QED BY <2>1, <2>2 DEF Byte, Hole
<1>5. ASSUME NEW pl \in Place, ~hit(pl) PROVE disk'[pl] = disk[pl]
  BY <1>3, <1>5
<1>6. DiskType'
  <2>1. \A pl \in Place : disk'[pl] \in Byte \cup {Hole}
    <3> HIDE DEF hit
    <3> QED BY <1>4, <1>5 DEF DiskType
  <2>2. disk' = [pl \in Place |-> disk'[pl]]
    BY <1>3
  <2> HIDE DEF hit
  <2> QED BY <2>1, <2>2 DEF DiskType
<1>7. \A pl \in Place : disk[pl] # Hole => disk'[pl] # Hole
  <2> HIDE DEF hit
  <2> QED BY <1>4, <1>5
<1>8. \A pl \in Place : pl[1] # path => disk'[pl] = disk[pl]
  BY <1>5
<1>9. ASSUME NEW o \in 0..lengths[writing.file] - 1
      PROVE  /\ disk'[<<path, o>>] \in {disk[<<path, o>>], fileStart + o}
             /\ fileStart + o \in WriteStart..WriteEnd - 1 =>
                  disk'[<<path, o>>] = fileStart + o
  <2> DEFINE pl == <<path, o>>
  <2>1. pl \in Place /\ pl[1] = path /\ pl[2] = o
    BY <1>2 DEF Place
  <2>2. o \in Nat /\ FileWriteOffset = WriteStart - fileStart
    BY <1>2 DEF FileWriteOffset
  <2>3. at(pl) = fileStart + o - WriteStart + 1
    BY <1>1, <1>2, <2>1, <2>2
  <2>4. hit(pl) <=> fileStart + o \in WriteStart..WriteEnd - 1
    <3>1. hit(pl) <=> at(pl) \in 1..Len(Chunk)
      BY <2>1
    <3>2. Len(Chunk) = WriteEnd - WriteStart /\ WriteStart \in Nat /\ WriteEnd \in Nat
      BY <1>1
    <3> HIDE DEF at, hit
    <3>3. at(pl) \in 1..Len(Chunk) <=> fileStart + o \in WriteStart..WriteEnd - 1
      BY <1>2, <2>2, <2>3, <3>2
    <3> QED BY <3>1, <3>3
  <2>5. ASSUME hit(pl) PROVE disk'[pl] = fileStart + o
    <3>1. disk'[pl] = Chunk[at(pl)]
      BY <1>3, <2>1, <2>5
    <3>2. at(pl) \in 1..Len(Chunk)
      BY <2>5
    <3>3. Chunk[at(pl)] = WriteStart + at(pl) - 1
      BY <1>1, <3>2
    <3> QED BY <1>1, <1>2, <2>2, <2>3, <3>1, <3>3
  <2>6. ASSUME ~hit(pl) PROVE disk'[pl] = disk[pl]
    BY <1>5, <2>1, <2>6
  <2> HIDE DEF hit
  <2> QED BY <2>4, <2>5, <2>6
<1> QED BY <1>6, <1>7, <1>8, <1>9

-----------------------------------------------------------------------------
(* A piece is written, or its write fails: the loop over the files.        *)

LEMMA IdleLoop ==
  ASSUME Torrent
  PROVE  Idle \in Loops /\ Idle.file = 0
<1>1. 0 \in Piece
  BY LayoutAssumption DEF Torrent, Piece
<1>2. TotalLength \in Nat /\ Len(Paths) \in Nat
  BY FilesLengthDef, PathsCounted DEF Torrent, TotalLength
<1> QED BY <1>1, <1>2 DEF Idle, Loops

LEMMA WriteStarts ==
  ASSUME Torrent, BlocksRight, NEW i \in Piece, StartWrite(i)
  PROVE  WritingRight' /\ PutOnDisk'
<1> DEFINE data == Content(i * PieceLength, LengthOf(i))
<1>1. /\ UNCHANGED torrentVars
      /\ writing' = [piece |-> i, file |-> 1, data |-> data,
                     remaining |-> Len(data), currentFileOffset |-> 0]
  BY PieceDataIsPiece DEF StartWrite
<1>2. /\ i * PieceLength \in Nat /\ LengthOf(i) \in Nat /\ TotalLength \in Nat
      /\ i * PieceLength + LengthOf(i) <= TotalLength
  BY PieceFacts
<1>3. data \in Seq(Byte) /\ Len(data) = LengthOf(i)
  BY <1>2, ContentOfBytes, ContentFacts DEF Torrent
<1> HIDE DEF data
<1>4. writing' \in Loops'
  <2>1. 1 \in 0..Len(Paths) + 1 /\ 0 \in 0..TotalLength /\ Len(data) \in Int
    BY <1>2, <1>3, PathsCounted
  <2>2. Piece' = Piece /\ TotalLength' = TotalLength
    BY <1>1, TorrentKept
  <2> QED BY <1>1, <1>3, <2>1, <2>2 DEF Loops
<1>5. PieceOffset' = i * PieceLength /\ PieceEnd' = i * PieceLength + LengthOf(i)
  <2>1. PieceLength' = PieceLength
    BY <1>1, TorrentKept
  <2> QED BY <1>1, <1>3, <2>1 DEF PieceOffset, PieceEnd
<1>6. 1 \in FileIndex /\ FileStart(1)' = 0
  <2>1. FileStart(1)' = FileStart(1)
    BY <1>1, TorrentKept
  <2>2. FileStart(1) = 0
    BY FilesLengthDef DEF Torrent, FileStart
  <2>3. 1 \in FileIndex
    BY PathsCounted DEF FileIndex
  <2> QED BY <2>1, <2>2, <2>3
<1>7. data = Content(PieceOffset', LengthOf(i)')
  BY <1>1, <1>5, TorrentKept DEF data
<1>8. Len(data) = PieceEnd' - Greatest(PieceOffset', Least(PieceEnd', 0))
  BY <1>2, <1>3, <1>5 DEF Greatest, Least
<1>9. writing'.piece = i /\ writing'.file = 1 /\ writing'.data = data
      /\ writing'.remaining = Len(data) /\ writing'.currentFileOffset = 0
  BY <1>1
<1>10. WritingRight'
  BY <1>4, <1>6, <1>7, <1>8, <1>9 DEF WritingRight
<1>11. PutOnDisk'
  <2>1. \A k \in FileIndex : \A o \in 0..lengths'[k] - 1 : ~(FileStart(k)' + o < 0)
    <3>1. \A k : FileStart(k)' = FileStart(k)
      BY <1>1, TorrentKept
    <3>2. lengths' = lengths
      BY <1>1, TorrentKept
    <3> QED BY <3>1, <3>2, FileOfPlace
  <2> QED BY <1>9, <2>1 DEF PutOnDisk
<1> QED BY <1>10, <1>11

(* The loop goes to the next file, or ends when nothing remains.           *)
LEMMA LoopGoesOn ==
  ASSUME Torrent, WritingRight, InLoop, UNCHANGED torrentVars,
         NEW f \in {writing.file + 1, Len(Paths) + 1}, NEW r \in Int,
         writing' = [writing EXCEPT !.file = f, !.remaining = r, !.currentFileOffset = fileEnd],
         f # writing.file + 1 => PieceEnd <= fileEnd,
         r = PieceEnd - Greatest(PieceOffset, Least(PieceEnd, fileEnd))
  PROVE  WritingRight'
<1>1. /\ writing \in Loops
      /\ writing.piece \in Piece /\ writing.data \in Seq(Byte)
      /\ writing.data = Content(PieceOffset, LengthOf(writing.piece))
      /\ writing.file \in 1..Len(Paths)
      /\ PieceEnd <= TotalLength /\ PieceEnd \in Nat
      /\ fileEnd \in 0..TotalLength /\ fileEnd = FilesLength[writing.file]
  <2>1. writing.file # 0 /\ writing.file \in FileIndex
    BY CurrentFile
  <2>2. /\ writing \in Loops
        /\ writing.data = Content(PieceOffset, LengthOf(writing.piece))
    BY <2>1 DEF WritingRight
  <2> QED BY <2>1, <2>2, LoopFields, CurrentFile, PathsCounted DEF FileIndex
<1>2. f \in 0..Len(Paths) + 1 /\ f # 0
  BY <1>1
<1>3. /\ writing' \in Loops
      /\ writing'.piece = writing.piece /\ writing'.data = writing.data
      /\ writing'.file = f /\ writing'.remaining = r /\ writing'.currentFileOffset = fileEnd
  BY <1>1, <1>2 DEF Loops
<1>4. /\ Loops' = Loops /\ PieceOffset' = PieceOffset /\ PieceEnd' = PieceEnd
      /\ LengthOf(writing.piece)' = LengthOf(writing.piece)
      /\ \A k : FileStart(k)' = FileStart(k)
  <2>1. /\ Piece' = Piece /\ TotalLength' = TotalLength /\ PieceLength' = PieceLength
        /\ \A i : LengthOf(i)' = LengthOf(i)
        /\ \A k : FileStart(k)' = FileStart(k)
    BY TorrentKept
  <2>2. LengthOf(writing.piece)' = LengthOf(writing.piece)
    <3>1. LengthOf(writing.piece)' = LengthOf(writing'.piece)
      BY <2>1
    <3> QED BY <1>3, <3>1
  <2> QED BY <1>3, <2>1, <2>2 DEF Loops, PieceOffset, PieceEnd
<1>5. f \in FileIndex => fileEnd = FileStart(f)
  BY <1>1 DEF FileIndex, FileStart
<1>6. f \notin FileIndex => PieceEnd <= fileEnd
  <2>1. CASE f = writing.file + 1 /\ f \notin FileIndex
    <3>1. writing.file = Len(Paths)
      BY <1>1, <2>1 DEF FileIndex
    <3> QED BY <1>1, <3>1 DEF TotalLength
  <2> QED BY <2>1
<1> QED BY <1>2, <1>3, <1>4, <1>5, <1>6, <1>1 DEF WritingRight

LEMMA FileSkipped ==
  ASSUME Torrent, WritingRight, PutOnDisk, SkipFile
  PROVE  WritingRight' /\ PutOnDisk'
<1>1. /\ InLoop /\ Untouched /\ UNCHANGED torrentVars /\ disk' = disk
      /\ writing' = [writing EXCEPT !.file = @ + 1, !.currentFileOffset = fileEnd]
  BY DEF SkipFile
<1>2. /\ writing.file \in FileIndex /\ writing.file # 0 /\ writing \in Loops
      /\ PieceOffset \in Nat /\ PieceEnd \in Nat /\ PieceOffset < PieceEnd
      /\ fileStart \in Nat /\ fileEnd \in Nat /\ fileStart <= fileEnd
      /\ writing.remaining \in Int
      /\ writing.remaining = PieceEnd - Greatest(PieceOffset, Least(PieceEnd, fileStart))
  <2>1. writing.file # 0
    BY <1>1, CurrentFile
  <2> QED BY <1>1, <2>1, LoopFields, CurrentFile DEF WritingRight, fileStart
<1>3. Greatest(PieceOffset, Least(PieceEnd, fileStart))
        = Greatest(PieceOffset, Least(PieceEnd, fileEnd))
  BY <1>1, <1>2 DEF Untouched, BytesToWrite, WriteStart, WriteEnd, Greatest, Least
<1>4. writing' = [writing EXCEPT !.file = writing.file + 1, !.remaining = writing.remaining,
                                 !.currentFileOffset = fileEnd]
  BY <1>1, <1>2 DEF Loops
<1>5. WritingRight'
  BY <1>1, <1>2, <1>3, <1>4, LoopGoesOn
<1>6. PutOnDisk'
  <2>1. /\ PieceOffset' = PieceOffset /\ PieceEnd' = PieceEnd /\ lengths' = lengths
        /\ writing'.currentFileOffset = fileEnd
        /\ \A k : FileStart(k)' = FileStart(k)
    <3>1. /\ writing'.piece = writing.piece /\ writing'.data = writing.data
          /\ writing'.currentFileOffset = fileEnd
      BY <1>2, <1>4 DEF Loops
    <3> QED BY <1>1, <3>1, TorrentKept DEF PieceOffset, PieceEnd
  <2>2. ASSUME NEW k \in FileIndex, NEW o \in 0..lengths[k] - 1,
               FileStart(k) + o \in PieceOffset..PieceEnd - 1, FileStart(k) + o < fileEnd
        PROVE  disk[<<FilePath(k), o>>] # Hole
    <3>1. FileStart(k) + o \in Nat
      BY FileOfPlace
    <3>2. FileStart(k) + o < fileStart
      BY <1>1, <1>2, <2>2, <3>1 DEF Untouched, BytesToWrite, WriteStart, WriteEnd, Greatest, Least
    <3> QED BY <1>2, <2>2, <3>2 DEF PutOnDisk, fileStart
  <2> QED BY <1>1, <2>1, <2>2 DEF PutOnDisk
<1> QED BY <1>5, <1>6

LEMMA ChunkGoesOn ==
  ASSUME Torrent, WritingRight, DiskType, PutOnDisk, WriteChunk
  PROVE  WritingRight' /\ PutOnDisk'
<1> DEFINE r == writing.remaining - BytesToWrite
           f == IF writing.remaining = BytesToWrite THEN Len(Paths) + 1 ELSE writing.file + 1
<1>1. /\ InLoop /\ ~Untouched /\ UNCHANGED torrentVars
      /\ writing' = [writing EXCEPT !.remaining = r, !.currentFileOffset = fileEnd, !.file = f]
  BY DEF WriteChunk
<1>2. /\ writing.file \in FileIndex /\ writing.file # 0 /\ writing \in Loops
      /\ PieceOffset \in Nat /\ PieceEnd \in Nat /\ PieceOffset < PieceEnd
      /\ fileStart \in Nat /\ fileEnd \in Nat /\ fileStart <= fileEnd
      /\ writing.remaining \in Int
      /\ writing.remaining = PieceEnd - Greatest(PieceOffset, Least(PieceEnd, fileStart))
      /\ fileStart = FileStart(writing.file) /\ fileEnd = fileStart + lengths[writing.file]
  <2>1. writing.file # 0
    BY <1>1, CurrentFile
  <2> QED BY <1>1, <2>1, LoopFields, CurrentFile DEF WritingRight, fileStart, fileEnd
<1>3. PieceEnd > fileStart /\ PieceOffset < fileEnd
  BY <1>1, <1>2 DEF Untouched
<1>4. r \in Int /\ r = PieceEnd - Greatest(PieceOffset, Least(PieceEnd, fileEnd))
  BY <1>2, <1>3 DEF BytesToWrite, WriteStart, WriteEnd, Greatest, Least
<1>5. writing.remaining = BytesToWrite => PieceEnd <= fileEnd
  BY <1>2, <1>3 DEF BytesToWrite, WriteStart, WriteEnd, Greatest, Least
<1> HIDE DEF r
<1>6. writing' = [writing EXCEPT !.file = f, !.remaining = r, !.currentFileOffset = fileEnd]
  BY <1>1, <1>2 DEF Loops
<1>7. f \in {writing.file + 1, Len(Paths) + 1} /\ (f # writing.file + 1 => PieceEnd <= fileEnd)
  BY <1>5
<1> HIDE DEF f
<1>8. WritingRight'
  BY <1>1, <1>4, <1>6, <1>7, LoopGoesOn
<1>9. PutOnDisk'
  <2>1. /\ PieceOffset' = PieceOffset /\ PieceEnd' = PieceEnd /\ lengths' = lengths
        /\ writing'.currentFileOffset = fileEnd
        /\ \A k : FileStart(k)' = FileStart(k)
    <3>1. /\ writing'.piece = writing.piece /\ writing'.data = writing.data
          /\ writing'.currentFileOffset = fileEnd
      BY <1>2, <1>6 DEF Loops
    <3> QED BY <1>1, <3>1, TorrentKept DEF PieceOffset, PieceEnd
  <2>2. ASSUME NEW k \in FileIndex, NEW o \in 0..lengths[k] - 1,
               FileStart(k) + o \in PieceOffset..PieceEnd - 1, FileStart(k) + o < fileEnd
        PROVE  disk'[<<FilePath(k), o>>] # Hole
    <3>1. FileStart(k) + o \in Nat /\ o \in Nat /\ lengths[k] \in 0..MaxFileLength
      BY FileOfPlace DEF Torrent, Files
    <3>2. <<FilePath(k), o>> \in Place
      BY <3>1, LayoutAssumption DEF Place
    <3>3. CASE FileStart(k) + o < fileStart
      <4>1. disk[<<FilePath(k), o>>] # Hole
        BY <1>2, <2>2, <3>3 DEF PutOnDisk, fileStart
      <4> QED BY <3>2, <4>1, ChunkOnDisk
    <3>4. CASE ~(FileStart(k) + o < fileStart)
      <4>1. k = writing.file
        BY <1>2, <2>2, <3>1, <3>4, FileOfPlace
      <4>2. fileStart + o \in WriteStart..WriteEnd - 1
        BY <1>2, <2>2, <3>1, <3>4, <4>1 DEF WriteStart, WriteEnd, Greatest, Least
      <4>3. disk'[<<FilePath(k), o>>] = fileStart + o
        BY <4>1, <4>2, ChunkOnDisk
      <4> QED BY <1>2, <3>1, <4>3 DEF Hole
    <3> QED BY <3>3, <3>4
  <2> QED BY <2>1, <2>2 DEF PutOnDisk
<1> QED BY <1>8, <1>9

(* WritePiece returns nil: no byte of the piece was left out.              *)
LEMMA WriteReturns ==
  ASSUME LayoutInv, EndWrite
  PROVE  WrittenIsOnDisk'
<1>1. /\ Torrent /\ WritingRight /\ PutOnDisk /\ WrittenIsOnDisk
      /\ UNCHANGED torrentVars /\ disk' = disk
      /\ writing.file # 0 /\ writing.file \notin FileIndex
      /\ written' = written \cup {writing.piece}
  <2>1. writing.file # 0
    BY DEF EndWrite, LayoutInv, WritingRight
  <2> QED BY <2>1 DEF EndWrite, LayoutInv
<1>2. /\ PieceEnd <= writing.currentFileOffset /\ writing.currentFileOffset \in Nat
      /\ PieceOffset \in Nat /\ PieceEnd \in Nat
      /\ writing.piece \in Piece /\ PieceEnd = PieceOffset + LengthOf(writing.piece)
  BY <1>1, LoopFields DEF WritingRight, PieceEnd
<1>3. ASSUME NEW k \in FileIndex, NEW o \in 0..lengths[k] - 1,
             (FileStart(k) + o) \div PieceLength \in written'
      PROVE  disk[<<FilePath(k), o>>] # Hole
  <2>1. CASE (FileStart(k) + o) \div PieceLength \in written
    BY <1>1, <2>1 DEF WrittenIsOnDisk
  <2>2. CASE (FileStart(k) + o) \div PieceLength = writing.piece
    <3>1. FileStart(k) + o \in Nat /\ FileStart(k) + o < TotalLength
      BY <1>1, FileOfPlace
    <3>2. FileStart(k) + o \in PieceOffset..PieceEnd - 1
      <4> DEFINE x == FileStart(k) + o
      <4>1. x \in Nat /\ x < TotalLength /\ x \div PieceLength = writing.piece
        BY <2>2, <3>1
      <4> HIDE DEF x
      <4>2. x \in writing.piece * PieceLength
                  .. writing.piece * PieceLength + LengthOf(writing.piece) - 1
        <5>1. \A i \in Piece : x \div PieceLength = i <=>
                x \in i * PieceLength .. i * PieceLength + LengthOf(i) - 1
          BY <1>1, <4>1, PieceOfPosition
        <5> QED BY <1>2, <4>1, <5>1
      <4>3. x \in PieceOffset..PieceOffset + LengthOf(writing.piece) - 1
        BY <4>2 DEF PieceOffset
      <4>4. LengthOf(writing.piece) \in Nat
        BY <1>1, <1>2, PieceFacts
      <4> QED BY <1>2, <4>1, <4>3, <4>4 DEF x
    <3>3. FileStart(k) + o < writing.currentFileOffset
      BY <1>2, <3>1, <3>2
    <3> QED BY <1>1, <3>2, <3>3 DEF PutOnDisk
  <2> QED BY <1>1, <1>3, <2>1, <2>2
<1>4. /\ lengths' = lengths /\ PieceLength' = PieceLength
      /\ \A k : FileStart(k)' = FileStart(k)
  BY <1>1, TorrentKept
<1> QED BY <1>1, <1>3, <1>4 DEF WrittenIsOnDisk

(* Bytes that are there stay there.                                        *)
LEMMA WrittenStays ==
  ASSUME Torrent, WrittenIsOnDisk, UNCHANGED torrentVars, written' = written,
         \A pl \in Place : disk[pl] # Hole => disk'[pl] # Hole
  PROVE  WrittenIsOnDisk'
<1>1. /\ lengths' = lengths /\ PieceLength' = PieceLength
      /\ \A k : FileStart(k)' = FileStart(k)
  BY TorrentKept
<1>2. ASSUME NEW k \in FileIndex, NEW o \in 0..lengths[k] - 1 PROVE <<FilePath(k), o>> \in Place
  <2>1. lengths[k] \in 0..MaxFileLength
    BY DEF Torrent, Files
  <2> QED BY <2>1, LayoutAssumption DEF Place
<1> QED BY <1>1, <1>2 DEF WrittenIsOnDisk

LEMMA LoopEnds ==
  ASSUME Torrent, UNCHANGED torrentVars, writing' = Idle
  PROVE  WritingRight'
<1>1. Loops' = Loops
  BY TorrentKept DEF Loops
<1> QED BY <1>1, IdleLoop DEF WritingRight, Idle

-----------------------------------------------------------------------------
(* The invariant.                                                          *)

LEMMA LayoutInvInit == Init => LayoutInv
<1> SUFFICES ASSUME Init PROVE LayoutInv
  OBVIOUS
<1>1. Torrent
  BY DEF Init, Torrent, Files
<1>2. BlocksRight
  <2>1. <<>> \in Seq(Byte)
    OBVIOUS
  <2>2. \A i \in Piece : \A b \in 0..TotalBlocks(i) - 1 : b \in BlockIndex
    BY <1>1, BlockFacts
  <2> QED BY <2>1, <2>2 DEF Init, BlocksRight
<1>3. WritingRight
  BY <1>1, IdleLoop DEF Init, WritingRight
<1>4. DiskType /\ PiecesType /\ WrittenIsOnDisk
  BY DEF Init, DiskType, PiecesType, WrittenIsOnDisk
<1>5. PutOnDisk
  BY DEF Init, Idle, PutOnDisk
<1> QED BY <1>1, <1>2, <1>3, <1>4, <1>5 DEF LayoutInv

(* A step that leaves the loop as it is, and the disk.                     *)
LEMMA LoopRests ==
  ASSUME LayoutInv, UNCHANGED <<torrentVars, disk, writing, written, failed>>
  PROVE  Torrent' /\ WritingRight' /\ DiskType' /\ PiecesType' /\ PutOnDisk' /\ WrittenIsOnDisk'
<1>1. /\ UNCHANGED torrentVars /\ disk' = disk /\ writing' = writing
      /\ written' = written /\ failed' = failed
      /\ Torrent /\ WritingRight /\ DiskType /\ PiecesType /\ PutOnDisk /\ WrittenIsOnDisk
  BY DEF LayoutInv
<1>2. /\ Piece' = Piece /\ TotalLength' = TotalLength /\ PieceLength' = PieceLength
      /\ lengths' = lengths /\ Torrent'
      /\ \A i : LengthOf(i)' = LengthOf(i)
      /\ \A k : FileStart(k)' = FileStart(k)
  BY <1>1, TorrentKept
<1>3. /\ PieceOffset' = PieceOffset /\ PieceEnd' = PieceEnd /\ Loops' = Loops
      /\ LengthOf(writing.piece)' = LengthOf(writing.piece)
  <2>1. LengthOf(writing.piece)' = LengthOf(writing'.piece)
    BY <1>2
  <2> QED BY <1>1, <1>2, <2>1 DEF PieceOffset, PieceEnd, Loops
<1>4. WritingRight'
  BY <1>1, <1>2, <1>3 DEF WritingRight
<1>5. PutOnDisk'
  BY <1>1, <1>2, <1>3 DEF PutOnDisk
<1>6. WrittenIsOnDisk'
  BY <1>1, WrittenStays
<1>7. DiskType' /\ PiecesType'
  BY <1>1, <1>2 DEF DiskType, PiecesType
<1> QED BY <1>2, <1>4, <1>5, <1>6, <1>7

LEMMA LayoutInvNext == LayoutInv /\ [Next]_vars => LayoutInv'
<1> SUFFICES ASSUME LayoutInv, [Next]_vars PROVE LayoutInv'
  OBVIOUS
<1>1. /\ Torrent /\ BlocksRight /\ WritingRight /\ DiskType /\ PiecesType
      /\ PutOnDisk /\ WrittenIsOnDisk
  BY DEF LayoutInv
<1>2. CASE \E i \in Piece : FetchBlock(i)
  <2>1. BlocksRight'
    BY <1>1, <1>2, BlocksFetched
  <2>2. UNCHANGED <<torrentVars, disk, writing, written, failed>>
    BY <1>2 DEF FetchBlock
  <2> QED BY <2>1, <2>2, LoopRests DEF LayoutInv
<1>3. CASE \E i \in Piece : StartWrite(i)
  <2>1. UNCHANGED <<torrentVars, Blocks, disk, written, failed>>
    BY <1>3 DEF StartWrite
  <2>2. Torrent' /\ Piece' = Piece /\ BlocksRight'
    BY <1>1, <2>1, TorrentKept, BlocksUntouched
  <2>3. WritingRight' /\ PutOnDisk'
    BY <1>1, <1>3, WriteStarts
  <2>4. WrittenIsOnDisk'
    BY <1>1, <2>1, WrittenStays
  <2>5. DiskType' /\ PiecesType'
    BY <1>1, <2>1, <2>2 DEF DiskType, PiecesType
  <2> QED BY <2>2, <2>3, <2>4, <2>5 DEF LayoutInv
<1>4. CASE SkipFile
  <2>1. UNCHANGED <<torrentVars, Blocks, disk, written, failed>>
    BY <1>4 DEF SkipFile
  <2>2. Torrent' /\ Piece' = Piece /\ BlocksRight'
    BY <1>1, <2>1, TorrentKept, BlocksUntouched
  <2>3. WritingRight' /\ PutOnDisk'
    BY <1>1, <1>4, FileSkipped
  <2>4. WrittenIsOnDisk'
    BY <1>1, <2>1, WrittenStays
  <2>5. DiskType' /\ PiecesType'
    BY <1>1, <2>1, <2>2 DEF DiskType, PiecesType
  <2> QED BY <2>2, <2>3, <2>4, <2>5 DEF LayoutInv
<1>5. CASE WriteChunk
  <2>1. UNCHANGED <<torrentVars, Blocks, written, failed>>
    BY <1>5 DEF WriteChunk
  <2>2. Torrent' /\ Piece' = Piece /\ BlocksRight'
    BY <1>1, <2>1, TorrentKept, BlocksUntouched
  <2>3. WritingRight' /\ PutOnDisk'
    BY <1>1, <1>5, ChunkGoesOn
  <2>4. DiskType' /\ WrittenIsOnDisk'
    BY <1>1, <1>5, <2>1, ChunkOnDisk, WrittenStays
  <2>5. PiecesType'
    BY <1>1, <2>1, <2>2 DEF PiecesType
  <2> QED BY <2>2, <2>3, <2>4, <2>5 DEF LayoutInv
<1>6. CASE FailChunk \/ EndWrite
  <2>1. UNCHANGED <<torrentVars, Blocks, disk>> /\ writing' = Idle
    BY <1>6 DEF FailChunk, EndWrite
  <2>2. Torrent' /\ Piece' = Piece /\ BlocksRight'
    BY <1>1, <2>1, TorrentKept, BlocksUntouched
  <2>3. WritingRight'
    BY <1>1, <2>1, LoopEnds
  <2>4. PutOnDisk'
    BY <2>1 DEF Idle, PutOnDisk
  <2>5. WrittenIsOnDisk'
    <3>1. CASE EndWrite
      BY <3>1, WriteReturns
    <3>2. CASE FailChunk
      <4>1. written' = written
        BY <3>2 DEF FailChunk
      <4> QED BY <1>1, <2>1, <4>1, WrittenStays
    <3> QED BY <1>6, <3>1, <3>2
  <2>6. DiskType' /\ PiecesType'
    <3>1. writing.piece \in Piece
      BY <1>1, LoopFields
    <3>2. written' \cup failed' \subseteq written \cup failed \cup {writing.piece}
      BY <1>6 DEF FailChunk, EndWrite
    <3> QED BY <1>1, <2>1, <2>2, <3>1, <3>2 DEF DiskType, PiecesType
  <2> QED BY <2>2, <2>3, <2>4, <2>5, <2>6 DEF LayoutInv
<1>7. CASE AllTried \/ UNCHANGED vars
  <2>1. UNCHANGED <<torrentVars, disk, writing, written, failed>> /\ UNCHANGED Blocks
    BY <1>7 DEF AllTried, vars
  <2>2. BlocksRight'
    BY <1>1, <2>1, BlocksUntouched
  <2> QED BY <2>1, <2>2, LoopRests DEF LayoutInv
<1> QED BY <1>2, <1>3, <1>4, <1>5, <1>6, <1>7 DEF Next

LEMMA LayoutInvAlways == Spec => []LayoutInv
BY LayoutInvInit, LayoutInvNext, PTL DEF Spec

-----------------------------------------------------------------------------
(* Every variable of the layout keeps its type; in particular the counter  *)
(* dataRemaining of WritePiece never drops below zero (disk.go:220-264).   *)
THEOREM TypeCorrect == Spec => []TypeOK
<1>1. ASSUME LayoutInv PROVE TypeOK
  <2>1. /\ Torrent /\ BlocksRight /\ WritingRight /\ DiskType /\ PiecesType
    BY <1>1 DEF LayoutInv
  <2>2. /\ writing.piece \in Piece /\ writing.file \in 0..Len(Paths) + 1
        /\ writing.data \in Seq(Byte) /\ writing.currentFileOffset \in 0..TotalLength
    BY <2>1, LoopFields
  <2>3. writing.remaining \in 0..PieceLength
    <3>1. PieceLength \in Nat
      BY <2>1, LayoutAssumption DEF Torrent
    <3>2. CASE writing.file = 0
      <4>1. writing.remaining = 0
        BY <2>1, <3>2 DEF WritingRight, Idle
      <4> QED BY <3>1, <4>1
    <3>3. CASE writing.file # 0
      <4>1. /\ PieceOffset \in Nat /\ PieceEnd \in Nat /\ PieceOffset < PieceEnd
            /\ PieceEnd = PieceOffset + Len(writing.data)
            /\ Len(writing.data) \in 1..PieceLength
            /\ writing.currentFileOffset \in 0..TotalLength /\ TotalLength \in Nat
        BY <2>1, <3>3, LoopFields DEF PieceEnd
      <4>2. writing.remaining =
              PieceEnd - Greatest(PieceOffset, Least(PieceEnd, writing.currentFileOffset))
        BY <2>1, <3>3 DEF WritingRight
      <4> QED BY <3>1, <4>1, <4>2 DEF Greatest, Least
    <3> QED BY <3>2, <3>3
  <2> QED BY <2>1, <2>2, <2>3
          DEF TypeOK, Torrent, Files, BlocksRight, DiskType, PiecesType
<1> QED BY <1>1, LayoutInvAlways, PTL

(* The blocks that GetNextBlockToRequest asks for, put together by         *)
(* GetPieceData, are the piece that its SHA1 value was made from, for      *)
(* every piece length, block size and content length.                      *)
THEOREM PiecesAreAssembled == Spec => []AssembledWhole
<1>1. LayoutInv => AssembledWhole
  BY Assembled DEF LayoutInv
<1> QED BY <1>1, LayoutInvAlways, PTL

(* When WritePiece returns nil, the loop over the files has left out no    *)
(* byte of the piece, whichever files it spans.                            *)
THEOREM WrittenPiecesAreOnDisk == Spec => []WrittenIsOnDisk
<1>1. LayoutInv => WrittenIsOnDisk
  BY DEF LayoutInv
<1> QED BY <1>1, LayoutInvAlways, PTL

-----------------------------------------------------------------------------
(* Two files never have the same path.  The run nested_paths has a torrent *)
(* without that, and finds FilesWhole violated.                            *)
PathsDiffer == \A j, k \in FileIndex : FilePath(j) = FilePath(k) => j = k

LEMMA InPlaceInit == Init => BytesInPlace
<1> SUFFICES ASSUME Init, NEW k \in FileIndex, NEW o \in 0..lengths[k] - 1
             PROVE  disk[<<FilePath(k), o>>] = Hole
  BY DEF BytesInPlace
<1>1. lengths[k] \in 0..MaxFileLength
  BY DEF Init
<1>2. <<FilePath(k), o>> \in Place
  BY <1>1, LayoutAssumption DEF Place
<1> QED BY <1>2 DEF Init

LEMMA InPlaceNext ==
  ASSUME PathsDiffer, LayoutInv, BytesInPlace, [Next]_vars
  PROVE  BytesInPlace'
<1>1. Torrent /\ WritingRight /\ DiskType
  BY DEF LayoutInv
<1>2. UNCHANGED torrentVars
  BY DEF Next, vars, FetchBlock, StartWrite, SkipFile, WriteChunk, FailChunk, EndWrite, AllTried
<1>3. /\ lengths' = lengths
      /\ \A k : FileStart(k)' = FileStart(k)
  BY <1>2, TorrentKept
<1>4. CASE WriteChunk
  <2>1. ASSUME NEW k \in FileIndex, NEW o \in 0..lengths[k] - 1
        PROVE  disk'[<<FilePath(k), o>>] \in {Hole, FileStart(k) + o}
    <3>1. disk[<<FilePath(k), o>>] \in {Hole, FileStart(k) + o}
      BY DEF BytesInPlace
    <3>2. lengths[k] \in 0..MaxFileLength
      BY <1>1 DEF Torrent, Files
    <3>3. <<FilePath(k), o>> \in Place
      BY <3>2, LayoutAssumption DEF Place
    <3>4. CASE k = writing.file
      <4>1. fileStart = FileStart(k)
        BY <1>1, <1>4, <3>4, CurrentFile DEF WriteChunk
      <4> QED BY <1>1, <1>4, <3>1, <3>4, <4>1, ChunkOnDisk
    <3>5. CASE k # writing.file
      <4>1. FilePath(k) # FilePath(writing.file)
        BY <1>4, <3>5 DEF PathsDiffer, WriteChunk, InLoop
      <4>2. disk'[<<FilePath(k), o>>] = disk[<<FilePath(k), o>>]
        BY <1>1, <1>4, <3>3, <4>1, ChunkOnDisk
      <4> QED BY <3>1, <4>2
    <3> QED BY <3>4, <3>5
  <2> QED BY <1>3, <2>1 DEF BytesInPlace
<1>5. CASE disk' = disk
  BY <1>3, <1>5 DEF BytesInPlace
<1>6. WriteChunk \/ disk' = disk
  BY DEF Next, vars, FetchBlock, StartWrite, SkipFile, FailChunk, EndWrite, AllTried
<1> QED BY <1>4, <1>5, <1>6

(* A byte on disk is the byte of the content that belongs there, also when *)
(* a write failed in the middle: with a path of its own for every file.    *)
THEOREM BytesAreInPlace ==
  ASSUME PathsDiffer
  PROVE  Spec => []BytesInPlace
<1>1. Init => BytesInPlace
  BY InPlaceInit
<1>2. LayoutInv /\ BytesInPlace /\ [Next]_vars => BytesInPlace'
  BY InPlaceNext
<1> QED BY <1>1, <1>2, LayoutInvAlways, PTL DEF Spec

(* When every piece is written the files are the content.  The run         *)
(* nested_paths refutes this for files of one subdirectory: it is the      *)
(* paths, and nothing else in the layout, that make the difference.        *)
THEOREM FilesAreWhole ==
  ASSUME PathsDiffer
  PROVE  Spec => []FilesWhole
<1>1. ASSUME LayoutInv, BytesInPlace PROVE FilesWhole
  <2> SUFFICES ASSUME written = Piece, NEW k \in FileIndex, NEW o \in 0..lengths[k] - 1
               PROVE  disk[<<FilePath(k), o>>] = FileStart(k) + o
    BY DEF FilesWhole
  <2>1. FileStart(k) + o \in Nat /\ FileStart(k) + o < TotalLength
    BY <1>1, FileOfPlace DEF LayoutInv
  <2>2. (FileStart(k) + o) \div PieceLength \in Piece
    BY <1>1, <2>1, PieceOfPosition DEF LayoutInv
  <2>3. disk[<<FilePath(k), o>>] # Hole
    BY <1>1, <2>2 DEF LayoutInv, WrittenIsOnDisk
  <2> QED BY <1>1, <2>3 DEF BytesInPlace
<1> QED BY <1>1, BytesAreInPlace, LayoutInvAlways, PTL

=============================================================================
