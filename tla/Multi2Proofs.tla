----------------------------- MODULE Multi2Proofs -----------------------------
(***************************************************************************)
(* Proofs about Multi2Cipher and Multi2.  The first part is about the      *)
(* vector code: whatever the build and the length of the payload, the      *)
(* batches give the plaintext that CBC and OFB define, and turn back what  *)
(* encryption made.  A batch is followed from the words it loads to those  *)
(* it stores, the batches of a plan by the blocks before each of them.     *)
(* The second part is about the keys: those that are kept fit the keys     *)
(* that are set, so that with the first part the module keeps its promise  *)
(* and undoes its own encryption in any order of calls.                    *)
(***************************************************************************)
EXTENDS Multi2, SequenceTheorems, WellFoundedInduction, TLAPS

\* The vector code: what is loaded, joined and stored.
Shapes == {"word", "xmm", "sse2", "neon", "ymm"}
Width == [word |-> 1, xmm |-> 4, sse2 |-> 4, neon |-> 4, ymm |-> 8]

\* Which of its blocks a lane has, and which of its lanes a block is in.
BlockOf == [word |-> <<1>>, xmm |-> <<1, 3, 2, 4>>, sse2 |-> <<1, 2, 3, 4>>,
            neon |-> <<1, 2, 3, 4>>, ymm |-> <<1, 5, 2, 6, 3, 7, 4, 8>>]
LaneOf == [word |-> <<1>>, xmm |-> <<1, 3, 2, 4>>, sse2 |-> <<1, 2, 3, 4>>,
           neon |-> <<1, 2, 3, 4>>, ymm |-> <<1, 3, 5, 7, 2, 4, 6, 8>>]

\* The instructions, word by word.
LEMMA InHalfIs ==
  /\ InHalf(1) = 0 /\ InHalf(2) = 1 /\ InHalf(3) = 2 /\ InHalf(4) = 3
  /\ InHalf(5) = 0 /\ InHalf(6) = 1 /\ InHalf(7) = 2 /\ InHalf(8) = 3
BY DEF InHalf

LEMMA UnpackLo4 ==
  ASSUME NEW f, NEW g, DOMAIN f = 1 .. 4
  PROVE  UnpackLo(f, g) = <<f[1], g[1], f[2], g[2]>>
BY InHalfIs DEF UnpackLo

LEMMA UnpackHi4 ==
  ASSUME NEW f, NEW g, DOMAIN f = 1 .. 4
  PROVE  UnpackHi(f, g) = <<f[3], g[3], f[4], g[4]>>
BY InHalfIs DEF UnpackHi

LEMMA UnpackLo8 ==
  ASSUME NEW f, NEW g, DOMAIN f = 1 .. 8
  PROVE  UnpackLo(f, g) = <<f[1], g[1], f[2], g[2], f[5], g[5], f[6], g[6]>>
BY InHalfIs DEF UnpackLo

LEMMA UnpackHi8 ==
  ASSUME NEW f, NEW g, DOMAIN f = 1 .. 8
  PROVE  UnpackHi(f, g) = <<f[3], g[3], f[4], g[4], f[7], g[7], f[8], g[8]>>
BY InHalfIs DEF UnpackHi

LEMMA SwapMiddle4 ==
  ASSUME NEW f, DOMAIN f = 1 .. 4
  PROVE  SwapMiddle(f) = <<f[1], f[3], f[2], f[4]>>
BY InHalfIs DEF SwapMiddle

LEMMA SwapMiddle8 ==
  ASSUME NEW f, DOMAIN f = 1 .. 8
  PROVE  SwapMiddle(f) = <<f[1], f[3], f[2], f[4], f[5], f[7], f[6], f[8]>>
BY InHalfIs DEF SwapMiddle

\* The words of two vectors, and of a sequence of lanes.
LEMMA LenOf ==
  ASSUME NEW n \in Nat, NEW f, f = [i \in 1 .. n |-> f[i]]
  PROVE  Len(f) = n
<1>1. f \in [1 .. n -> {f[i] : i \in 1 .. n}]
  OBVIOUS
<1>2. f \in Seq({f[i] : i \in 1 .. n})
  BY <1>1
<1>3. QED
  BY <1>1, <1>2

LEMMA JoinedIs ==
  ASSUME NEW n \in Nat, NEW m \in Nat, NEW f, NEW g,
         f = [i \in 1 .. n |-> f[i]], g = [i \in 1 .. m |-> g[i]]
  PROVE  f \o g = [i \in 1 .. n + m |-> IF i <= n THEN f[i] ELSE g[i - n]]
<1> DEFINE S == {f[i] : i \in 1 .. n} \cup {g[i] : i \in 1 .. m}
<1>1. f \in [1 .. n -> S] /\ g \in [1 .. m -> S]
  OBVIOUS
<1> HIDE DEF S
<1>2. f \in Seq(S)
  BY <1>1
<1>3. g \in Seq(S)
  BY <1>1
<1>4. Len(f) = n /\ Len(g) = m
  BY LenOf
<1>5. QED
  BY <1>2, <1>3, <1>4

\* The words that load puts into each lane.
LEMMA LoadIs ==
  ASSUME NEW shape \in Shapes, NEW w, NEW p \in Int
  PROVE  LoadVector(shape, w, p) =
           [i \in 1 .. Width[shape] |->
              <<w[p + 2 * BlockOf[shape][i] - 1], w[p + 2 * BlockOf[shape][i]]>>]
<1>1. CASE shape = "word"
  BY <1>1 DEF LoadVector, Lanes, Words, Width, BlockOf
<1>2. CASE shape = "xmm"
  BY <1>2, UnpackLo4, UnpackHi4, SwapMiddle4 DEF LoadVector, Lanes, Words, Width, BlockOf
<1>3. CASE shape = "sse2"
  <2> DEFINE a == Words(w, p, 4)
             b == Words(w, p + 4, 4)
             lo == UnpackLo(a, b)
             hi == UnpackHi(a, b)
  <2>1. /\ DOMAIN a = 1 .. 4 /\ DOMAIN b = 1 .. 4
        /\ a[1] = w[p + 1] /\ a[2] = w[p + 2] /\ a[3] = w[p + 3] /\ a[4] = w[p + 4]
        /\ b[1] = w[p + 5] /\ b[2] = w[p + 6] /\ b[3] = w[p + 7] /\ b[4] = w[p + 8]
    BY DEF Words
  <2> HIDE DEF a, b
  <2>2. /\ lo = <<w[p + 1], w[p + 5], w[p + 2], w[p + 6]>>
        /\ hi = <<w[p + 3], w[p + 7], w[p + 4], w[p + 8]>>
    BY <2>1, UnpackLo4, UnpackHi4
  <2> HIDE DEF lo, hi
  <2>3. /\ UnpackLo(lo, hi) = <<w[p + 1], w[p + 3], w[p + 5], w[p + 7]>>
        /\ UnpackHi(lo, hi) = <<w[p + 2], w[p + 4], w[p + 6], w[p + 8]>>
    BY <2>2, UnpackLo4, UnpackHi4
  <2>4. LoadVector(shape, w, p) = Lanes(UnpackLo(lo, hi), UnpackHi(lo, hi))
    BY <1>3 DEF LoadVector, lo, hi, a, b
  <2>5. QED
    BY <1>3, <2>3, <2>4 DEF Lanes, Width, BlockOf
<1>4. CASE shape = "neon"
  BY <1>4 DEF LoadVector, Lanes, Words, Width, BlockOf
<1>5. CASE shape = "ymm"
  BY <1>5, UnpackLo8, UnpackHi8, SwapMiddle8 DEF LoadVector, Lanes, Words, Width, BlockOf
<1>6. QED
  BY <1>1, <1>2, <1>3, <1>4, <1>5 DEF Shapes

\* The word that store puts at each place.
LEMMA StoreIs ==
  ASSUME NEW shape \in Shapes, NEW lanes,
         lanes = [i \in 1 .. Width[shape] |-> lanes[i]]
  PROVE  StoreVector(shape, lanes) =
           [j \in 1 .. 2 * Width[shape] |->
              lanes[LaneOf[shape][(j + 1) \div 2]][1 + ((j - 1) % 2)]]
<1>1. CASE shape = "word"
  BY <1>1, LenOf DEF StoreVector, Width, LaneOf
<1>2. CASE shape = "xmm"
  <2> DEFINE left == [i \in DOMAIN lanes |-> lanes[i][1]]
             right == [i \in DOMAIN lanes |-> lanes[i][2]]
             l == SwapMiddle(left)
             r == SwapMiddle(right)
  <2>1. /\ DOMAIN left = 1 .. 4 /\ DOMAIN right = 1 .. 4
        /\ \A i \in 1 .. 4 : left[i] = lanes[i][1] /\ right[i] = lanes[i][2]
    BY <1>2 DEF Width
  <2> HIDE DEF left, right
  <2>2. /\ l = <<lanes[1][1], lanes[3][1], lanes[2][1], lanes[4][1]>>
        /\ r = <<lanes[1][2], lanes[3][2], lanes[2][2], lanes[4][2]>>
    BY <2>1, SwapMiddle4
  <2> HIDE DEF l, r
  <2>3. /\ UnpackLo(l, r) = <<lanes[1][1], lanes[1][2], lanes[3][1], lanes[3][2]>>
        /\ UnpackHi(l, r) = <<lanes[2][1], lanes[2][2], lanes[4][1], lanes[4][2]>>
    BY <2>2, UnpackLo4, UnpackHi4
  <2>4. StoreVector(shape, lanes) = UnpackLo(l, r) \o UnpackHi(l, r)
    BY <1>2 DEF StoreVector, l, r, left, right
  <2> DEFINE x == UnpackLo(l, r)
             y == UnpackHi(l, r)
  <2>5. x = [i \in 1 .. 4 |-> x[i]] /\ y = [i \in 1 .. 4 |-> y[i]]
    BY <2>3
  <2>6. x \o y = [i \in 1 .. 4 + 4 |-> IF i <= 4 THEN x[i] ELSE y[i - 4]]
    BY <2>5, JoinedIs
  <2>7. LaneOf[shape] = <<1, 3, 2, 4>> /\ Width[shape] = 4
    BY <1>2 DEF LaneOf, Width
  <2> DEFINE word(j) == lanes[LaneOf[shape][(j + 1) \div 2]][1 + ((j - 1) % 2)]
  <2>8. /\ x[1] = word(1)
        /\ x[2] = word(2)
        /\ x[3] = word(3)
        /\ x[4] = word(4)
    BY <2>3, <2>7
  <2>9. /\ y[1] = word(5)
        /\ y[2] = word(6)
        /\ y[3] = word(7)
        /\ y[4] = word(8)
    BY <2>3, <2>7
  <2>10. StoreVector(shape, lanes) = [i \in 1 .. 4 + 4 |-> IF i <= 4 THEN x[i] ELSE y[i - 4]]
    BY <2>4, <2>6
  <2>11. \A i \in 1 .. 8 : (IF i <= 4 THEN x[i] ELSE y[i - 4]) = word(i)
    <3> HIDE DEF x, y, word
    <3>1. QED
      BY <2>8, <2>9
  <2>12. QED
    <3> HIDE DEF x, y
    <3>1. QED
      BY <2>7, <2>10, <2>11
<1>3. CASE shape = "sse2"
  <2> DEFINE left == [i \in DOMAIN lanes |-> lanes[i][1]]
             right == [i \in DOMAIN lanes |-> lanes[i][2]]
             l == left
             r == right
  <2>2. /\ DOMAIN l = 1 .. 4 /\ DOMAIN r = 1 .. 4
        /\ \A i \in 1 .. 4 : l[i] = lanes[i][1] /\ r[i] = lanes[i][2]
    BY <1>3 DEF Width
  <2> HIDE DEF l, r
  <2>3. /\ UnpackLo(l, r) = <<lanes[1][1], lanes[1][2], lanes[2][1], lanes[2][2]>>
        /\ UnpackHi(l, r) = <<lanes[3][1], lanes[3][2], lanes[4][1], lanes[4][2]>>
    BY <2>2, UnpackLo4, UnpackHi4
  <2>4. StoreVector(shape, lanes) = UnpackLo(l, r) \o UnpackHi(l, r)
    BY <1>3 DEF StoreVector, l, r
  <2> DEFINE x == UnpackLo(l, r)
             y == UnpackHi(l, r)
  <2>5. x = [i \in 1 .. 4 |-> x[i]] /\ y = [i \in 1 .. 4 |-> y[i]]
    BY <2>3
  <2>6. x \o y = [i \in 1 .. 4 + 4 |-> IF i <= 4 THEN x[i] ELSE y[i - 4]]
    BY <2>5, JoinedIs
  <2>7. LaneOf[shape] = <<1, 2, 3, 4>> /\ Width[shape] = 4
    BY <1>3 DEF LaneOf, Width
  <2> DEFINE word(j) == lanes[LaneOf[shape][(j + 1) \div 2]][1 + ((j - 1) % 2)]
  <2>8. /\ x[1] = word(1)
        /\ x[2] = word(2)
        /\ x[3] = word(3)
        /\ x[4] = word(4)
    BY <2>3, <2>7
  <2>9. /\ y[1] = word(5)
        /\ y[2] = word(6)
        /\ y[3] = word(7)
        /\ y[4] = word(8)
    BY <2>3, <2>7
  <2>10. StoreVector(shape, lanes) = [i \in 1 .. 4 + 4 |-> IF i <= 4 THEN x[i] ELSE y[i - 4]]
    BY <2>4, <2>6
  <2>11. \A i \in 1 .. 8 : (IF i <= 4 THEN x[i] ELSE y[i - 4]) = word(i)
    <3> HIDE DEF x, y, word
    <3>1. QED
      BY <2>8, <2>9
  <2>12. QED
    <3> HIDE DEF x, y
    <3>1. QED
      BY <2>7, <2>10, <2>11
<1>4. CASE shape = "neon"
  BY <1>4, LenOf DEF StoreVector, Width, LaneOf
<1>5. CASE shape = "ymm"
  <2> DEFINE left == [i \in DOMAIN lanes |-> lanes[i][1]]
             right == [i \in DOMAIN lanes |-> lanes[i][2]]
             l == SwapMiddle(left)
             r == SwapMiddle(right)
  <2>1. /\ DOMAIN left = 1 .. 8 /\ DOMAIN right = 1 .. 8
        /\ \A i \in 1 .. 8 : left[i] = lanes[i][1] /\ right[i] = lanes[i][2]
    BY <1>5 DEF Width
  <2> HIDE DEF left, right
  <2>2. /\ l = <<lanes[1][1], lanes[3][1], lanes[2][1], lanes[4][1], lanes[5][1], lanes[7][1], lanes[6][1], lanes[8][1]>>
        /\ r = <<lanes[1][2], lanes[3][2], lanes[2][2], lanes[4][2], lanes[5][2], lanes[7][2], lanes[6][2], lanes[8][2]>>
    BY <2>1, SwapMiddle8
  <2> HIDE DEF l, r
  <2>3. /\ UnpackLo(l, r) = <<lanes[1][1], lanes[1][2], lanes[3][1], lanes[3][2], lanes[5][1], lanes[5][2], lanes[7][1], lanes[7][2]>>
        /\ UnpackHi(l, r) = <<lanes[2][1], lanes[2][2], lanes[4][1], lanes[4][2], lanes[6][1], lanes[6][2], lanes[8][1], lanes[8][2]>>
    BY <2>2, UnpackLo8, UnpackHi8
  <2>4. StoreVector(shape, lanes) = UnpackLo(l, r) \o UnpackHi(l, r)
    BY <1>5 DEF StoreVector, l, r, left, right
  <2> DEFINE x == UnpackLo(l, r)
             y == UnpackHi(l, r)
  <2>5. x = [i \in 1 .. 8 |-> x[i]] /\ y = [i \in 1 .. 8 |-> y[i]]
    BY <2>3
  <2>6. x \o y = [i \in 1 .. 8 + 8 |-> IF i <= 8 THEN x[i] ELSE y[i - 8]]
    BY <2>5, JoinedIs
  <2>7. LaneOf[shape] = <<1, 3, 5, 7, 2, 4, 6, 8>> /\ Width[shape] = 8
    BY <1>5 DEF LaneOf, Width
  <2> DEFINE word(j) == lanes[LaneOf[shape][(j + 1) \div 2]][1 + ((j - 1) % 2)]
  <2>8. /\ x[1] = word(1)
        /\ x[2] = word(2)
        /\ x[3] = word(3)
        /\ x[4] = word(4)
        /\ x[5] = word(5)
        /\ x[6] = word(6)
        /\ x[7] = word(7)
        /\ x[8] = word(8)
    BY <2>3, <2>7
  <2>9. /\ y[1] = word(9)
        /\ y[2] = word(10)
        /\ y[3] = word(11)
        /\ y[4] = word(12)
        /\ y[5] = word(13)
        /\ y[6] = word(14)
        /\ y[7] = word(15)
        /\ y[8] = word(16)
    BY <2>3, <2>7
  <2>10. StoreVector(shape, lanes) = [i \in 1 .. 8 + 8 |-> IF i <= 8 THEN x[i] ELSE y[i - 8]]
    BY <2>4, <2>6
  <2>11. \A i \in 1 .. 16 : (IF i <= 8 THEN x[i] ELSE y[i - 8]) = word(i)
    <3> HIDE DEF x, y, word
    <3>1. QED
      BY <2>8, <2>9
  <2>12. QED
    <3> HIDE DEF x, y
    <3>1. QED
      BY <2>7, <2>10, <2>11
<1>6. QED
  BY <1>1, <1>2, <1>3, <1>4, <1>5 DEF Shapes

\* The blocks of a batch from word a on, and what becomes of them: each is joined with
\* the ciphertext of the one before it, the first one with the state.
Blk(w, a, b) == <<w[a + 2 * b - 1], w[a + 2 * b]>>
JoinedBlock(w, a, s, key, b) ==
  XorBlock(CipherDecrypt(Blk(w, a, b), key), IF b = 1 THEN s ELSE Blk(w, a, b - 1))
JoinedWord(w, a, s, key, j) == JoinedBlock(w, a, s, key, (j + 1) \div 2)[1 + ((j - 1) % 2)]

\* A vector as it is loaded, and as it is stored when it was joined with x.
Loaded(shape, w, a) == [i \in 1 .. Width[shape] |-> Blk(w, a, BlockOf[shape][i])]
JoinedLanes(shape, w, a, x, key) ==
  [i \in 1 .. Width[shape] |-> XorBlock(CipherDecrypt(Loaded(shape, w, a)[i], key), x[i])]

JoinedWith(shape, w, a, s) ==
  [Permute(Loaded(shape, w, a), Rotation[shape]) EXCEPT ![1] = s]

\* A lane is rotated into the one of the block behind it.
LEMMA TablesFit ==
  ASSUME NEW shape \in Shapes
  PROVE  /\ Width[shape] \in 1 .. 8
         /\ Rotation[shape] = [i \in 1 .. Width[shape] |-> Rotation[shape][i]]
         /\ \A i \in 1 .. Width[shape] :
              BlockOf[shape][i] \in 1 .. Width[shape] /\ Rotation[shape][i] \in 1 .. Width[shape]
         /\ BlockOf[shape][Width[shape]] = Width[shape]
         /\ LaneOf[shape][1] = 1
         /\ \A b \in 1 .. Width[shape] :
              LaneOf[shape][b] \in 1 .. Width[shape] /\ BlockOf[shape][LaneOf[shape][b]] = b
         /\ \A b \in 2 .. Width[shape] :
              /\ LaneOf[shape][b] # 1
              /\ BlockOf[shape][Rotation[shape][LaneOf[shape][b]]] = b - 1
<1>1. CASE shape = "word"
  BY <1>1 DEF Width, BlockOf, LaneOf, Rotation
<1>2. CASE shape = "xmm"
  BY <1>2 DEF Width, BlockOf, LaneOf, Rotation
<1>3. CASE shape = "sse2"
  BY <1>3 DEF Width, BlockOf, LaneOf, Rotation
<1>4. CASE shape = "neon"
  BY <1>4 DEF Width, BlockOf, LaneOf, Rotation
<1>5. CASE shape = "ymm"
  BY <1>5 DEF Width, BlockOf, LaneOf, Rotation
<1>6. QED
  BY <1>1, <1>2, <1>3, <1>4, <1>5 DEF Shapes

\* A lane has the two words of its block.
LEMMA LoadedIs ==
  ASSUME NEW shape \in Shapes, NEW w, NEW a \in Int
  PROVE  LoadVector(shape, w, a) = Loaded(shape, w, a)
BY LoadIs DEF Loaded, Blk

\* What is stored, block by block, of lanes that were joined with x.
LEMMA JoinedWords ==
  ASSUME NEW shape \in Shapes, NEW w, NEW a \in Int, NEW x, NEW key
  PROVE  StoreVector(shape, JoinedLanes(shape, w, a, x, key)) =
           [j \in 1 .. 2 * Width[shape] |->
              XorBlock(CipherDecrypt(Blk(w, a, (j + 1) \div 2), key),
                       x[LaneOf[shape][(j + 1) \div 2]])[1 + ((j - 1) % 2)]]
<1> DEFINE p == JoinedLanes(shape, w, a, x, key)
<1>1. p = [i \in 1 .. Width[shape] |-> p[i]]
  BY DEF JoinedLanes
<1>2. StoreVector(shape, p) =
        [j \in 1 .. 2 * Width[shape] |-> p[LaneOf[shape][(j + 1) \div 2]][1 + ((j - 1) % 2)]]
  <2> HIDE DEF p
  <2>1. QED
    BY <1>1, StoreIs
<1>3. ASSUME NEW j \in 1 .. 2 * Width[shape]
      PROVE  p[LaneOf[shape][(j + 1) \div 2]] =
               XorBlock(CipherDecrypt(Blk(w, a, (j + 1) \div 2), key),
                        x[LaneOf[shape][(j + 1) \div 2]])
  <2>1. PICK b \in 1 .. Width[shape] : b = (j + 1) \div 2
    <3>1. PICK n \in 1 .. 8 : n = Width[shape]
      BY TablesFit
    <3>2. (j + 1) \div 2 \in 1 .. n
      BY <3>1
    <3>3. QED
      BY <3>1, <3>2
  <2>2. LaneOf[shape][b] \in 1 .. Width[shape] /\ BlockOf[shape][LaneOf[shape][b]] = b
    BY TablesFit
  <2>3. p[LaneOf[shape][b]] = XorBlock(CipherDecrypt(Blk(w, a, b), key), x[LaneOf[shape][b]])
    BY <2>2 DEF JoinedLanes, Loaded
  <2>4. QED
    BY <2>1, <2>3
<1>4. QED
  BY <1>2, <1>3

\* What the lanes of one vector, or of the first of two, are joined with.
LEMMA RotatedIs ==
  ASSUME NEW shape \in Shapes, NEW w, NEW a \in Int, NEW s,
         NEW b, b \in 1 .. Width[shape]
  PROVE  JoinedWith(shape, w, a, s)[LaneOf[shape][b]] = IF b = 1 THEN s ELSE Blk(w, a, b - 1)
<1> DEFINE c == Loaded(shape, w, a)
           i == LaneOf[shape][b]
<1>1. Permute(c, Rotation[shape]) = [k \in 1 .. Width[shape] |-> c[Rotation[shape][k]]]
  BY DEF Permute, Loaded
<1>2. i \in 1 .. Width[shape] /\ 1 \in 1 .. Width[shape]
  <2>1. PICK n \in 1 .. 8 : n = Width[shape]
    BY TablesFit
  <2>2. 1 \in 1 .. n
    OBVIOUS
  <2>3. QED
    BY <2>1, <2>2, TablesFit
<1>3. CASE b = 1
  BY <1>1, <1>2, <1>3, TablesFit DEF JoinedWith
<1>4. CASE b # 1
  <2>1. b \in 2 .. Width[shape]
    BY <1>4
  <2>2. i # 1 /\ BlockOf[shape][Rotation[shape][i]] = b - 1
    BY <2>1, TablesFit
  <2>3. Rotation[shape][i] \in 1 .. Width[shape]
    BY <1>2, TablesFit
  <2>4. c[Rotation[shape][i]] = Blk(w, a, b - 1)
    BY <2>2, <2>3 DEF Loaded
  <2>5. QED
    BY <1>1, <1>2, <1>4, <2>2, <2>4 DEF JoinedWith
<1>5. QED
  BY <1>3, <1>4

\* The blocks of a batch, and the memory when m blocks from word a on are deciphered one by one.
BlocksOf(kind) == Batches[kind].bytes \div 8
BlocksDone(w, a, m, s, key) ==
  [i \in DOMAIN w |-> IF a < i /\ i <= a + 2 * m THEN JoinedWord(w, a, s, key, i - a) ELSE w[i]]

\* The first vector of a batch is joined with the blocks before its own.
LEMMA FirstVector ==
  ASSUME NEW shape \in Shapes, NEW w, NEW a \in Int, NEW s, NEW key
  PROVE  StoreVector(shape, JoinedLanes(shape, w, a, JoinedWith(shape, w, a, s), key))
           = [j \in 1 .. 2 * Width[shape] |-> JoinedWord(w, a, s, key, j)]
<1> DEFINE x == JoinedWith(shape, w, a, s)
<1>1. ASSUME NEW j \in 1 .. 2 * Width[shape]
      PROVE  x[LaneOf[shape][(j + 1) \div 2]]
               = IF (j + 1) \div 2 = 1 THEN s ELSE Blk(w, a, (j + 1) \div 2 - 1)
  <2>1. PICK n \in 1 .. 8 : n = Width[shape]
    BY TablesFit
  <2>2. PICK b \in 1 .. n : b = (j + 1) \div 2
    BY <2>1
  <2>3. x[LaneOf[shape][b]] = IF b = 1 THEN s ELSE Blk(w, a, b - 1)
    <3>1. b \in 1 .. Width[shape]
      BY <2>1
    <3>2. JoinedWith(shape, w, a, s)[LaneOf[shape][b]] = IF b = 1 THEN s ELSE Blk(w, a, b - 1)
      BY <3>1, RotatedIs
    <3>3. QED
      BY <3>2
  <2>4. QED
    BY <2>2, <2>3
<1> HIDE DEF x
<1>2. StoreVector(shape, JoinedLanes(shape, w, a, x, key)) =
        [j \in 1 .. 2 * Width[shape] |->
           XorBlock(CipherDecrypt(Blk(w, a, (j + 1) \div 2), key),
                    x[LaneOf[shape][(j + 1) \div 2]])[1 + ((j - 1) % 2)]]
  BY JoinedWords
<1>3. StoreVector(shape, JoinedLanes(shape, w, a, x, key))
        = [j \in 1 .. 2 * Width[shape] |-> JoinedWord(w, a, s, key, j)]
  BY <1>1, <1>2 DEF JoinedWord, JoinedBlock
<1>4. QED
  BY <1>3 DEF x

\* A batch of one vector deciphers its blocks one by one.
LEMMA SingleBatch ==
  ASSUME NEW kind \in Shapes, NEW w, NEW a \in Int, NEW s, NEW key,
         NEW N \in Nat, DOMAIN w = 1 .. N
  PROVE  /\ BlocksOf(kind) = Width[kind]
         /\ DecryptBlock([words |-> w, at |-> a, state |-> s], kind, key)
              = [words |-> BlocksDone(w, a, BlocksOf(kind), s, key),
                 at |-> a + 2 * BlocksOf(kind), state |-> Blk(w, a, BlocksOf(kind))]
<1> DEFINE batch == Batches[kind]
           run == [words |-> w, at |-> a, state |-> s]
           c == Load(batch, w, a)
           x == Chain(batch, c, s)
           p == [v \in DOMAIN batch.at |->
                   [i \in DOMAIN c[v] |-> XorBlock(CipherDecrypt(c[v][i], key), x[v][i])]]
           first == JoinedWith(kind, w, a, s)
           v == [j \in 1 .. 2 * Width[kind] |-> JoinedWord(w, a, s, key, j)]
<1>1. batch.shape = kind /\ batch.at = <<0>> /\ batch.bytes = 8 * Width[kind]
  BY DEF Batches, Shapes, Width
<1>2. PICK n \in 1 .. 8 : n = Width[kind]
  BY TablesFit
<1>3. BlocksOf(kind) = n /\ batch.bytes \div 4 = 2 * n
  BY <1>1, <1>2 DEF BlocksOf
<1> HIDE DEF batch
<1>4. Len(batch.at) = 1 /\ DOMAIN batch.at = {1}
  BY <1>1
<1>5. c[1] = Loaded(kind, w, a)
  <2>1. c[1] = LoadVector(kind, w, a + 0)
    BY <1>1, <1>4 DEF Load
  <2>2. QED
    BY <2>1, LoadedIs
<1>6. x[1] = first
  BY <1>1, <1>4, <1>5 DEF Chain, JoinedWith
<1> HIDE DEF c, x
<1>7. p[1] = JoinedLanes(kind, w, a, first, key)
  <2> HIDE DEF first
  <2>1. DOMAIN c[1] = 1 .. Width[kind]
    BY <1>5 DEF Loaded
  <2>2. p[1] = [i \in DOMAIN c[1] |-> XorBlock(CipherDecrypt(c[1][i], key), x[1][i])]
    BY <1>4
  <2>3. QED
    BY <1>5, <1>6, <2>1, <2>2 DEF JoinedLanes
<1>8. StoreVector(kind, p[1]) = v
  <2>1. StoreVector(kind, JoinedLanes(kind, w, a, first, key)) = v
    BY FirstVector
  <2> HIDE DEF p, v, first
  <2>2. QED
    BY <1>7, <2>1
<1>9. Store(batch, w, a, [i \in DOMAIN batch.at |-> StoreVector(batch.shape, p[i])])
        = Overwrite(w, a, v)
  <2> HIDE DEF p, v
  <2>1. QED
    BY <1>1, <1>4, <1>8 DEF Store
<1>10. Overwrite(w, a, v) = BlocksDone(w, a, n, s, key)
  BY <1>2 DEF Overwrite, BlocksDone
<1>11. Len(c[1]) = n /\ c[1][n] = Blk(w, a, n)
  <2>1. c[1] = [i \in 1 .. n |-> c[1][i]]
    BY <1>2, <1>5 DEF Loaded
  <2>2. Len(c[1]) = n
    BY <2>1, LenOf
  <2>3. c[1][n] = Blk(w, a, n)
    <3>1. BlockOf[kind][Width[kind]] = Width[kind]
      BY TablesFit
    <3>2. n \in 1 .. Width[kind]
      BY <1>2
    <3>3. QED
      BY <1>2, <1>5, <3>1, <3>2 DEF Loaded
  <2>4. QED
    BY <2>2, <2>3
<1>12. DecryptBlock(run, kind, key) =
         [words |-> Store(batch, w, a, [i \in DOMAIN batch.at |-> StoreVector(batch.shape, p[i])]),
          at |-> a + batch.bytes \div 4, state |-> c[Len(batch.at)][Len(c[Len(batch.at)])]]
  BY DEF DecryptBlock, c, x, batch
<1>13. QED
  <2> HIDE DEF run, p, v
  <2>1. DecryptBlock(run, kind, key) =
          [words |-> BlocksDone(w, a, n, s, key), at |-> a + 2 * n, state |-> Blk(w, a, n)]
    BY <1>3, <1>4, <1>9, <1>10, <1>11, <1>12
  <2>2. QED
    BY <1>2, <1>3, <2>1 DEF run

\* A vector that begins d blocks behind the batch is to be joined with x, and was joined,
\* from its block lo on as if the batch was one vector.
Follows(x, shape, w, a, d, lo) ==
  \A b \in lo .. Width[shape] : x[LaneOf[shape][b]] = Blk(w, a, b + d - 1)
JoinedBehind(v, n, lo, d, w, a, s, key) ==
  /\ v = [j \in 1 .. 2 * n |-> v[j]]
  /\ \A j \in 2 * lo - 1 .. 2 * n : v[j] = JoinedWord(w, a, s, key, j + 2 * d)

\* The words of a second vector are those of one long vector, but for what is before lo.
LEMMA SecondVector ==
  ASSUME NEW shape \in Shapes, NEW w, NEW a \in Int, NEW s, NEW key, NEW d \in Int, d > 0,
         NEW lo \in Int, lo \in {1, 2}, NEW x, Follows(x, shape, w, a, d, lo)
  PROVE  JoinedBehind(StoreVector(shape, JoinedLanes(shape, w, a + 2 * d, x, key)),
                      Width[shape], lo, d, w, a, s, key)
<1> DEFINE v == StoreVector(shape, JoinedLanes(shape, w, a + 2 * d, x, key))
<1>1. PICK n \in 1 .. 8 : n = Width[shape]
  BY TablesFit
<1>2. v = [j \in 1 .. 2 * n |->
             XorBlock(CipherDecrypt(Blk(w, a + 2 * d, (j + 1) \div 2), key),
                      x[LaneOf[shape][(j + 1) \div 2]])[1 + ((j - 1) % 2)]]
  <2>1. PICK p \in Int : p = a + 2 * d
    OBVIOUS
  <2>2. StoreVector(shape, JoinedLanes(shape, w, p, x, key)) =
          [j \in 1 .. 2 * Width[shape] |->
             XorBlock(CipherDecrypt(Blk(w, p, (j + 1) \div 2), key),
                      x[LaneOf[shape][(j + 1) \div 2]])[1 + ((j - 1) % 2)]]
    BY JoinedWords
  <2>3. QED
    BY <1>1, <2>1, <2>2
<1> HIDE DEF v
<1>3. ASSUME NEW j \in 2 * lo - 1 .. 2 * n
      PROVE  v[j] = JoinedWord(w, a, s, key, j + 2 * d)
  <2>1. PICK b \in lo .. n : b = (j + 1) \div 2
    OBVIOUS
  <2>2. (j + 2 * d + 1) \div 2 = b + d /\ (j + 2 * d - 1) % 2 = (j - 1) % 2
    BY <2>1
  <2>3. Blk(w, a + 2 * d, b) = Blk(w, a, b + d)
    <3>1. a + 2 * d + 2 * b = a + 2 * (b + d)
      OBVIOUS
    <3>2. QED
      BY <3>1 DEF Blk
  <2>4. x[LaneOf[shape][b]] = Blk(w, a, b + d - 1)
    BY <1>1 DEF Follows
  <2>5. v[j] = XorBlock(CipherDecrypt(Blk(w, a, b + d), key), Blk(w, a, b + d - 1))[1 + ((j - 1) % 2)]
    <3>1. j \in 1 .. 2 * n
      OBVIOUS
    <3>2. v[j] = XorBlock(CipherDecrypt(Blk(w, a + 2 * d, b), key), x[LaneOf[shape][b]])[1 + ((j - 1) % 2)]
      BY <1>2, <2>1, <3>1
    <3>3. QED
      BY <2>3, <2>4, <3>2
  <2>6. JoinedBlock(w, a, s, key, b + d)
          = XorBlock(CipherDecrypt(Blk(w, a, b + d), key), Blk(w, a, b + d - 1))
    <3>1. b + d # 1
      OBVIOUS
    <3>2. QED
      BY <3>1 DEF JoinedBlock
  <2>7. QED
    BY <2>2, <2>5, <2>6 DEF JoinedWord
<1>4. JoinedBehind(v, n, lo, d, w, a, s, key)
  BY <1>2, <1>3 DEF JoinedBehind
<1>5. QED
  BY <1>1, <1>4 DEF v

\* The later stores of ymm2 have nothing but joined blocks.
LEMMA HalvesStored ==
  ASSUME NEW w, NEW a \in Int, NEW s, NEW key, NEW N \in Nat, DOMAIN w = 1 .. N, NEW v,
         v[1] = [j \in 1 .. 16 |-> JoinedWord(w, a, s, key, j)],
         \A j \in 3 .. 16 : v[2][j] = JoinedWord(w, a, s, key, j + 14)
  PROVE  StoreHalves(w, a, a + 14, v) = BlocksDone(w, a, 15, s, key)
<1> DEFINE w1 == Overwrite(w, a, Words(v[1], 0, 8))
           w2 == Overwrite(w1, a + 14, Words(v[2], 0, 8))
           w3 == Overwrite(w2, a + 8, Words(v[1], 8, 8))
           w4 == Overwrite(w3, a + 14 + 8, Words(v[2], 8, 8))
<1>1. /\ DOMAIN w1 = 1 .. N
      /\ \A i \in 1 .. N : w1[i] = IF i - a \in 1 .. 8 THEN v[1][i - a] ELSE w[i]
  <2>1. PICK half : half = Words(v[1], 0, 8)
    OBVIOUS
  <2>2. DOMAIN half = 1 .. 8 /\ \A k \in 1 .. 8 : half[k] = v[1][k]
    BY <2>1 DEF Words
  <2>3. w1 = [i \in 1 .. N |-> IF i - a \in 1 .. 8 THEN half[i - a] ELSE w[i]]
    BY <2>1, <2>2 DEF Overwrite
  <2> HIDE DEF w1
  <2>4. QED
    BY <2>2, <2>3
<1> HIDE DEF w1
<1>2. /\ DOMAIN w2 = 1 .. N
      /\ \A i \in 1 .. N : w2[i] = IF i - a - 14 \in 1 .. 8 THEN v[2][i - a - 14] ELSE w1[i]
  BY <1>1 DEF Overwrite, Words
<1> HIDE DEF w2
<1>3. /\ DOMAIN w3 = 1 .. N
      /\ \A i \in 1 .. N : w3[i] = IF i - a - 8 \in 1 .. 8 THEN v[1][i - a] ELSE w2[i]
  BY <1>2 DEF Overwrite, Words
<1> HIDE DEF w3
<1>4. /\ w4 = [i \in 1 .. N |-> w4[i]]
      /\ \A i \in 1 .. N : w4[i] = IF i - a - 22 \in 1 .. 8 THEN v[2][i - a - 14] ELSE w3[i]
  BY <1>3 DEF Overwrite, Words
<1>5. ASSUME NEW i \in 1 .. N
      PROVE  w4[i] = IF a < i /\ i <= a + 30 THEN JoinedWord(w, a, s, key, i - a) ELSE w[i]
  <2> HIDE DEF w4
  <2>1. PICK k \in Int :
           /\ k = i - a /\ k - 8 = i - a - 8 /\ k - 14 = i - a - 14 /\ k - 22 = i - a - 22
    OBVIOUS
  <2>2. w1[i] = IF k \in 1 .. 8 THEN v[1][k] ELSE w[i]
    BY <1>1, <2>1
  <2>3. w2[i] = IF k \in 15 .. 22 THEN v[2][k - 14] ELSE w1[i]
    <3>1. w2[i] = IF k - 14 \in 1 .. 8 THEN v[2][k - 14] ELSE w1[i]
      BY <1>2, <2>1
    <3>2. k - 14 \in 1 .. 8 <=> k \in 15 .. 22
      OBVIOUS
    <3>3. QED
      BY <3>1, <3>2
  <2>4. w3[i] = IF k \in 9 .. 16 THEN v[1][k] ELSE w2[i]
    <3>1. w3[i] = IF k - 8 \in 1 .. 8 THEN v[1][k] ELSE w2[i]
      BY <1>3, <2>1
    <3>2. k - 8 \in 1 .. 8 <=> k \in 9 .. 16
      OBVIOUS
    <3>3. QED
      BY <3>1, <3>2
  <2>5. w4[i] = IF k \in 23 .. 30 THEN v[2][k - 14] ELSE w3[i]
    <3>1. w4[i] = IF k - 22 \in 1 .. 8 THEN v[2][k - 14] ELSE w3[i]
      BY <1>4, <2>1
    <3>2. k - 22 \in 1 .. 8 <=> k \in 23 .. 30
      OBVIOUS
    <3>3. QED
      BY <3>1, <3>2
  <2>6. k \in 1 .. 16 => v[1][k] = JoinedWord(w, a, s, key, k)
    OBVIOUS
  <2>7. k \in 17 .. 30 => v[2][k - 14] = JoinedWord(w, a, s, key, k)
    <3>1. ASSUME k \in 17 .. 30
          PROVE  v[2][k - 14] = JoinedWord(w, a, s, key, k - 14 + 14)
      <4>1. k - 14 \in 3 .. 16
        BY <3>1
      <4>2. QED
        BY <4>1
    <3>2. k - 14 + 14 = k
      OBVIOUS
    <3>3. QED
      BY <3>1, <3>2
  <2>8. QED
    BY <2>1, <2>2, <2>3, <2>4, <2>5, <2>6, <2>7
<1>6. w4 = BlocksDone(w, a, 15, s, key)
  <2> HIDE DEF w4
  <2>1. QED
    BY <1>4, <1>5 DEF BlocksDone
<1>7. QED
  BY <1>6 DEF StoreHalves, w1, w2, w3

\* The first vector of neon2 is stored last, over the block that both have.
LEMMA NeonStored ==
  ASSUME NEW w, NEW a \in Int, NEW s, NEW key, NEW N \in Nat, DOMAIN w = 1 .. N,
         NEW d \in Int, d \in 3 .. 4, NEW lo \in Int, lo = 5 - d, NEW v1, NEW v2,
         v1 = [j \in 1 .. 8 |-> JoinedWord(w, a, s, key, j)],
         JoinedBehind(v2, 4, lo, d, w, a, s, key)
  PROVE  Overwrite(Overwrite(w, a + 2 * d, v2), a, v1) = BlocksDone(w, a, d + 4, s, key)
<1>0. /\ v2 = [j \in 1 .. 8 |-> v2[j]]
      /\ \A j \in 9 - 2 * d .. 8 : v2[j] = JoinedWord(w, a, s, key, j + 2 * d)
  <2>1. 2 * lo - 1 = 9 - 2 * d /\ 2 * 4 = 8
    OBVIOUS
  <2>2. QED
    BY <2>1 DEF JoinedBehind
<1> DEFINE w1 == Overwrite(w, a + 2 * d, v2)
           w2 == Overwrite(w1, a, v1)
<1>1. /\ DOMAIN w1 = 1 .. N
      /\ \A i \in 1 .. N : w1[i] = IF i - (a + 2 * d) \in 1 .. 8 THEN v2[i - (a + 2 * d)] ELSE w[i]
  BY <1>0 DEF Overwrite
<1> HIDE DEF w1
<1>2. /\ w2 = [i \in 1 .. N |-> w2[i]]
      /\ \A i \in 1 .. N : w2[i] = IF i - a \in 1 .. 8 THEN v1[i - a] ELSE w1[i]
  BY <1>1 DEF Overwrite
<1>3. ASSUME NEW i \in 1 .. N
      PROVE  w2[i] = IF a < i /\ i <= a + 2 * (d + 4)
                       THEN JoinedWord(w, a, s, key, i - a) ELSE w[i]
  <2> HIDE DEF w2
  <2>1. PICK k \in Int : k = i - a /\ k - 2 * d = i - (a + 2 * d)
    OBVIOUS
  <2>2. w1[i] = IF k - 2 * d \in 1 .. 8 THEN v2[k - 2 * d] ELSE w[i]
    BY <1>1, <2>1
  <2>3. w2[i] = IF k \in 1 .. 8 THEN v1[k] ELSE w1[i]
    BY <1>2, <2>1
  <2>4. k \in 1 .. 8 => v1[k] = JoinedWord(w, a, s, key, k)
    OBVIOUS
  <2>5. ASSUME k \in 9 .. 2 * d + 8
        PROVE  v2[k - 2 * d] = JoinedWord(w, a, s, key, k)
    <3>1. k - 2 * d \in 9 - 2 * d .. 8 /\ k - 2 * d + 2 * d = k
      BY <2>5
    <3>2. v2[k - 2 * d] = JoinedWord(w, a, s, key, k - 2 * d + 2 * d)
      BY <1>0, <3>1
    <3>3. QED
      BY <3>1, <3>2
  <2>6. k \in 9 .. 2 * d + 8 => k - 2 * d \in 1 .. 8
    OBVIOUS
  <2>7. w2[i] = IF k \in 1 .. 2 * d + 8 THEN JoinedWord(w, a, s, key, k) ELSE w[i]
    <3>1. CASE k \in 1 .. 8
      BY <2>3, <2>4, <3>1
    <3>2. CASE k \in 9 .. 2 * d + 8
      <4>1. k \notin 1 .. 8 /\ k \in 1 .. 2 * d + 8
        BY <3>2
      <4>2. QED
        BY <2>2, <2>3, <2>5, <2>6, <3>2, <4>1
    <3>3. CASE k \notin 1 .. 2 * d + 8
      <4>1. k \notin 1 .. 8 /\ k - 2 * d \notin 1 .. 8
        BY <3>3
      <4>2. QED
        BY <2>2, <2>3, <3>3, <4>1
    <3>4. QED
      BY <3>1, <3>2, <3>3
  <2>8. a < i /\ i <= a + 2 * (d + 4) <=> k \in 1 .. 2 * d + 8
    <3>1. i = a + k /\ 2 * (d + 4) = 2 * d + 8 /\ 2 * d + 8 \in Int
      BY <2>1
    <3>2. QED
      BY <3>1
  <2>9. QED
    BY <2>1, <2>7, <2>8
<1>4. w2 = BlocksDone(w, a, d + 4, s, key)
  <2> HIDE DEF w2
  <2>1. QED
    BY <1>2, <1>3 DEF BlocksDone
<1>5. QED
  BY <1>4 DEF w1

\* The batches of two vectors, and how many blocks the second begins behind the first.
Pairs == {"ymm2", "neon2_7", "neon2_8"}
PairOffset == [ymm2 |-> 7, neon2_7 |-> 3, neon2_8 |-> 4]

\* Both vectors of a pair are joined with the ciphertext before them, but for the first
\* block of the second one where the first one has it too.
LEMMA PairBatch ==
  ASSUME NEW kind \in Pairs, NEW w, NEW a \in Int, NEW s, NEW key,
         NEW N \in Nat, DOMAIN w = 1 .. N
  PROVE  DecryptBlock([words |-> w, at |-> a, state |-> s], kind, key)
           = [words |-> BlocksDone(w, a, BlocksOf(kind), s, key),
              at |-> a + 2 * BlocksOf(kind), state |-> Blk(w, a, BlocksOf(kind))]
<1> DEFINE batch == Batches[kind]
           shape == Batches[kind].shape
           run == [words |-> w, at |-> a, state |-> s]
           c == Load(batch, w, a)
           x == Chain(batch, c, s)
           p == [v \in DOMAIN batch.at |->
                   [i \in DOMAIN c[v] |-> XorBlock(CipherDecrypt(c[v][i], key), x[v][i])]]
           v == [i \in DOMAIN batch.at |-> StoreVector(batch.shape, p[i])]
           lo == IF kind = "neon2_8" THEN 1 ELSE 2
           first == JoinedWith(shape, w, a, s)
<1>1. PICK d \in Int :
        /\ d \in {3, 4, 7} /\ d = PairOffset[kind] /\ batch.at = <<0, 2 * d>>
        /\ d = 7 <=> shape = "ymm"
        /\ d \in {3, 4} <=> shape = "neon"
        /\ batch.bytes = 8 * (d + Width[shape]) /\ shape \in {"ymm", "neon"}
  <2>1. CASE kind = "ymm2"
    BY <2>1 DEF Batches, PairOffset, Width
  <2>2. CASE kind = "neon2_7"
    BY <2>2 DEF Batches, PairOffset, Width
  <2>3. CASE kind = "neon2_8"
    BY <2>3 DEF Batches, PairOffset, Width
  <2>4. QED
    BY <2>1, <2>2, <2>3 DEF Pairs
<1> HIDE DEF batch, shape
<1>2. PICK n \in Int : n \in {4, 8} /\ n = Width[shape] /\ (n = 8 <=> d = 7)
  BY <1>1 DEF Width
<1>3. BlocksOf(kind) = d + n /\ batch.bytes \div 4 = 2 * (d + n)
  <2>1. batch.bytes = 8 * (d + n)
    BY <1>1, <1>2
  <2>2. (8 * (d + n)) \div 8 = d + n /\ (8 * (d + n)) \div 4 = 2 * (d + n)
    OBVIOUS
  <2> HIDE DEF batch
  <2>3. BlocksOf(kind) = batch.bytes \div 8
    BY DEF BlocksOf, batch
  <2>4. QED
    BY <2>1, <2>2, <2>3
<1>4. Len(batch.at) = 2 /\ DOMAIN batch.at = {1, 2} /\ batch.at[1] = 0 /\ batch.at[2] = 2 * d
  BY <1>1
<1>5. shape \in Shapes /\ batch.shape = shape
  BY <1>1 DEF Shapes, batch, shape
<1>6. c[1] = Loaded(shape, w, a) /\ c[2] = Loaded(shape, w, a + 2 * d)
  <2>1. c[1] = LoadVector(shape, w, a + 0) /\ c[2] = LoadVector(shape, w, a + 2 * d)
    BY <1>4, <1>5 DEF Load
  <2>2. a + 0 = a /\ a + 2 * d \in Int
    OBVIOUS
  <2>3. LoadVector(shape, w, a) = Loaded(shape, w, a)
    BY <1>5, LoadedIs
  <2>4. LoadVector(shape, w, a + 2 * d) = Loaded(shape, w, a + 2 * d)
    BY <1>5, <2>2, LoadedIs
  <2>5. QED
    BY <2>1, <2>2, <2>3, <2>4
<1>7. /\ x[1] = first
      /\ shape = "ymm" => x[2] = Permute(c[2], Rotation[shape])
      /\ shape = "neon" => x[2] = [i \in 1 .. 4 |-> IF i = 1 THEN c[1][4] ELSE c[2][i - 1]]
  BY <1>1, <1>4, <1>5, <1>6 DEF Chain, JoinedWith
<1> HIDE DEF c, x
<1>8. \A b \in lo .. n : x[2][LaneOf[shape][b]] = Blk(w, a, b + d - 1)
  <2> SUFFICES ASSUME NEW b \in Int, b \in lo .. n
               PROVE  x[2][LaneOf[shape][b]] = Blk(w, a, b + d - 1)
    OBVIOUS
  <2>1. ASSUME b > 1
        PROVE  Blk(w, a + 2 * d, b - 1) = Blk(w, a, b + d - 1)
    <3>1. a + 2 * d + 2 * (b - 1) = a + 2 * (b + d - 1)
      OBVIOUS
    <3>2. QED
      BY <3>1 DEF Blk
  <2>2. CASE shape = "ymm"
    <3>1. b \in 2 .. Width[shape]
      BY <1>1, <1>2, <2>2 DEF PairOffset
    <3>2. /\ LaneOf[shape][b] \in 1 .. Width[shape]
          /\ Rotation[shape][LaneOf[shape][b]] \in 1 .. Width[shape]
          /\ BlockOf[shape][Rotation[shape][LaneOf[shape][b]]] = b - 1
      <4>1. b \in 1 .. Width[shape]
        BY <1>2, <3>1
      <4>2. QED
        BY <1>5, <3>1, <4>1, TablesFit
    <3>3. x[2] = [i \in 1 .. Width[shape] |-> c[2][Rotation[shape][i]]]
      <4>1. DOMAIN Rotation[shape] = 1 .. Width[shape]
        BY <1>5, TablesFit
      <4>2. DOMAIN c[2] = 1 .. Width[shape]
        BY <1>6 DEF Loaded
      <4>3. QED
        BY <1>7, <2>2, <4>1, <4>2 DEF Permute
    <3>4. x[2][LaneOf[shape][b]] = Blk(w, a + 2 * d, b - 1)
      BY <1>6, <3>2, <3>3 DEF Loaded
    <3>5. QED
      BY <2>1, <3>1, <3>4
  <2>3. CASE shape = "neon"
    <3>1. n = 4 /\ b \in 1 .. 4 /\ Width[shape] = 4
      BY <1>1, <1>2, <2>3
    <3>2. LaneOf[shape][b] = b /\ \A i \in 1 .. 4 : BlockOf[shape][i] = i
      BY <2>3, <3>1 DEF LaneOf, BlockOf
    <3>3. x[2][b] = IF b = 1 THEN c[1][4] ELSE c[2][b - 1]
      BY <1>7, <2>3, <3>1
    <3>4. CASE b = 1
      <4>1. d = 4
        BY <1>1, <3>4 DEF PairOffset, Pairs
      <4>2. c[1][4] = Blk(w, a, 4)
        BY <1>6, <3>1, <3>2 DEF Loaded
      <4>3. QED
        BY <3>2, <3>3, <3>4, <4>1, <4>2
    <3>5. CASE b # 1
      <4>1. b - 1 \in 1 .. 4 /\ b > 1
        BY <3>1, <3>5
      <4>2. c[2][b - 1] = Blk(w, a + 2 * d, b - 1)
        BY <1>6, <3>1, <3>2, <4>1 DEF Loaded
      <4>3. QED
        BY <2>1, <3>2, <3>3, <3>5, <4>1, <4>2
    <3>6. QED
      BY <3>4, <3>5
  <2>4. QED
    BY <1>1, <2>2, <2>3
<1>9. p[1] = JoinedLanes(shape, w, a, x[1], key) /\ p[2] = JoinedLanes(shape, w, a + 2 * d, x[2], key)
  <2>1. DOMAIN c[1] = 1 .. Width[shape] /\ DOMAIN c[2] = 1 .. Width[shape]
    BY <1>6 DEF Loaded
  <2>2. /\ p[1] = [i \in DOMAIN c[1] |-> XorBlock(CipherDecrypt(c[1][i], key), x[1][i])]
        /\ p[2] = [i \in DOMAIN c[2] |-> XorBlock(CipherDecrypt(c[2][i], key), x[2][i])]
    BY <1>4
  <2>3. QED
    BY <1>6, <2>1, <2>2 DEF JoinedLanes
<1>10. v[1] = StoreVector(shape, p[1]) /\ v[2] = StoreVector(shape, p[2])
  BY <1>4, <1>5
<1> HIDE DEF p, v, first
<1>11. v[1] = [j \in 1 .. 2 * n |-> JoinedWord(w, a, s, key, j)]
  <2>1. StoreVector(shape, JoinedLanes(shape, w, a, JoinedWith(shape, w, a, s), key))
          = [j \in 1 .. 2 * Width[shape] |-> JoinedWord(w, a, s, key, j)]
    BY <1>5, FirstVector
  <2>2. QED
    BY <1>2, <1>7, <1>9, <1>10, <2>1 DEF first
<1>12. JoinedBehind(v[2], n, lo, d, w, a, s, key)
  <2>1. PICK y : y = x[2]
    OBVIOUS
  <2>2. Follows(y, shape, w, a, d, lo)
    BY <1>2, <1>8, <2>1 DEF Follows
  <2>3. v[2] = StoreVector(shape, JoinedLanes(shape, w, a + 2 * d, y, key))
    BY <1>9, <1>10, <2>1
  <2>4. lo \in Int /\ lo \in {1, 2} /\ d \in Int /\ d > 0
    BY <1>1
  <2> HIDE DEF lo
  <2>5. JoinedBehind(StoreVector(shape, JoinedLanes(shape, w, a + 2 * d, y, key)),
                     Width[shape], lo, d, w, a, s, key)
    BY <1>5, <2>2, <2>4, SecondVector
  <2>6. QED
    BY <1>2, <2>3, <2>5
<1>13. Store(batch, w, a, v) = BlocksDone(w, a, d + n, s, key)
  <2>1. CASE shape = "ymm"
    <3>1. d = 7 /\ n = 8
      BY <1>1, <1>2, <2>1
    <3>2. lo = 2
      BY <1>1, <3>1 DEF PairOffset
    <3>3. v[1] = [j \in 1 .. 16 |-> JoinedWord(w, a, s, key, j)]
      BY <1>11, <3>1
    <3>4. \A j \in 3 .. 16 : v[2][j] = JoinedWord(w, a, s, key, j + 14)
      <4>1. \A j \in 3 .. 16 : v[2][j] = JoinedWord(w, a, s, key, j + 2 * d)
        <5>1. 2 * lo - 1 = 3 /\ 2 * n = 16
          BY <3>1, <3>2
        <5> HIDE DEF lo
        <5>2. QED
          BY <1>12, <5>1 DEF JoinedBehind
      <4>2. 2 * d = 14
        BY <3>1
      <4>3. QED
        BY <4>1, <4>2
    <3>5. StoreHalves(w, a, a + 14, v) = BlocksDone(w, a, 15, s, key)
      BY <3>3, <3>4, HalvesStored
    <3>6. Store(batch, w, a, v) = StoreHalves(w, a, a + 14, v)
      BY <1>4, <1>5, <2>1, <3>1 DEF Store
    <3>7. QED
      BY <3>1, <3>5, <3>6
  <2>2. CASE shape = "neon"
    <3>1. d \in Int /\ d \in 3 .. 4 /\ n = 4
      BY <1>1, <1>2, <2>2
    <3>2. lo \in Int /\ lo = 5 - d
      BY <1>1, <3>1 DEF PairOffset, Pairs
    <3> HIDE DEF lo
    <3>3. PICK v1 : v1 = v[1]
      OBVIOUS
    <3>4. PICK v2 : v2 = v[2]
      OBVIOUS
    <3>5. v1 = [j \in 1 .. 8 |-> JoinedWord(w, a, s, key, j)]
      BY <1>11, <3>1, <3>3
    <3>6. JoinedBehind(v2, 4, lo, d, w, a, s, key)
      BY <1>12, <3>1, <3>4
    <3>7. Overwrite(Overwrite(w, a + 2 * d, v2), a, v1) = BlocksDone(w, a, d + 4, s, key)
      BY <3>1, <3>2, <3>5, <3>6, NeonStored
    <3>8. Store(batch, w, a, v) = Overwrite(Overwrite(w, a + 2 * d, v2), a, v1)
      BY <1>4, <1>5, <2>2, <3>3, <3>4 DEF Store
    <3>9. QED
      BY <3>1, <3>7, <3>8
  <2>3. QED
    BY <1>1, <2>1, <2>2
<1>14. Len(c[2]) = n /\ c[2][n] = Blk(w, a, d + n)
  <2>1. c[2] = [i \in 1 .. n |-> c[2][i]]
    BY <1>2, <1>6 DEF Loaded
  <2>2. n \in Nat
    BY <1>2
  <2>3. PICK f : f = c[2]
    OBVIOUS
  <2>4. Len(f) = n
    BY <2>1, <2>2, <2>3, LenOf
  <2>5. BlockOf[shape][Width[shape]] = Width[shape]
    BY <1>5, TablesFit
  <2>6. c[2][n] = Blk(w, a + 2 * d, n)
    BY <1>2, <1>6, <2>5 DEF Loaded
  <2>7. a + 2 * d + 2 * n = a + 2 * (d + n)
    OBVIOUS
  <2>8. QED
    BY <2>3, <2>4, <2>6, <2>7 DEF Blk
<1>15. DecryptBlock(run, kind, key) =
         [words |-> Store(batch, w, a, v),
          at |-> a + batch.bytes \div 4, state |-> c[Len(batch.at)][Len(c[Len(batch.at)])]]
  BY DEF DecryptBlock, c, x, p, v, batch
<1>16. QED
  <2> HIDE DEF run
  <2>1. DecryptBlock(run, kind, key) =
          [words |-> BlocksDone(w, a, d + n, s, key), at |-> a + 2 * (d + n),
           state |-> Blk(w, a, d + n)]
    BY <1>3, <1>4, <1>13, <1>14, <1>15
  <2>2. QED
    BY <1>3, <2>1 DEF run

----------------------------------------------------------------------------
\* The batches of a payload.
Kinds == Shapes \cup Pairs

\* The memory, the position and the state after a batch.
LEMMA BatchIs ==
  ASSUME NEW kind \in Kinds, NEW w, NEW a \in Int, NEW s, NEW key,
         NEW N \in Nat, DOMAIN w = 1 .. N
  PROVE  DecryptBlock([words |-> w, at |-> a, state |-> s], kind, key)
           = [words |-> BlocksDone(w, a, BlocksOf(kind), s, key),
              at |-> a + 2 * BlocksOf(kind), state |-> Blk(w, a, BlocksOf(kind))]
<1>1. CASE kind \in Shapes
  BY <1>1, SingleBatch
<1>2. CASE kind \in Pairs
  BY <1>2, PairBatch
<1>3. QED
  BY <1>1, <1>2 DEF Kinds

\* Every batch takes whole blocks, and at least one.
LEMMA BatchSizes ==
  ASSUME NEW kind \in Kinds
  PROVE  BlocksOf(kind) \in Nat /\ BlocksOf(kind) > 0 /\ Batches[kind].bytes = 8 * BlocksOf(kind)
BY DEF Kinds, Shapes, Pairs, BlocksOf, Batches

----------------------------------------------------------------------------
\* Induction: a set of numbers has a least one.
LEMMA LeastIn ==
  ASSUME NEW S \in SUBSET Nat, S # {}
  PROVE  \E x \in S : \A y \in S : x <= y
<1> DEFINE R == OpToRel(<, Nat)
<1>1. IsWellFoundedOn(R, Nat)
  BY NatLessThanWellFounded
<1>2. R = {ss \in Nat \X Nat : ss[1] < ss[2]}
  BY DEF OpToRel
<1> HIDE DEF R
<1>3. PICK x \in S : \A y \in S : ~(<<y, x>> \in R)
  BY <1>1, WFMin
<1>4. ASSUME NEW y \in S, y < x
      PROVE  FALSE
  <2>1. <<y, x>> \in Nat \X Nat /\ <<y, x>>[1] < <<y, x>>[2]
    BY <1>4
  <2>2. QED
    BY <1>2, <1>3, <2>1
<1>5. QED
  BY <1>4

\* The memory before, between and behind the batches.
RunIs(f, n, kinds, start, key) ==
  f = [i \in 0 .. n |-> IF i = 0 THEN start ELSE DecryptBlock(f[i - 1], kinds[i], key)]

\* The recursion along a plan has a result, and DecryptAll is the last of it.
LEMMA RunExists ==
  ASSUME NEW n \in Nat, NEW kinds, NEW start, NEW key
  PROVE  \E f : RunIs(f, n, kinds, start, key)
<1> DEFINE S == {m \in Nat : ~ \E f : RunIs(f, m, kinds, start, key)}
<1>1. ASSUME NEW m \in S, \A y \in S : m <= y
      PROVE  FALSE
  <2>1. m # 0
    <3>1. RunIs([i \in 0 .. 0 |-> start], 0, kinds, start, key)
      BY DEF RunIs
    <3>2. QED
      BY <3>1
  <2>2. m \in Nat /\ m - 1 \in Nat /\ ~(m <= m - 1)
    BY <2>1
  <2>3. PICK f : RunIs(f, m - 1, kinds, start, key)
    BY <1>1, <2>2
  <2> DEFINE g == [i \in 0 .. m |-> IF i = m THEN DecryptBlock(f[m - 1], kinds[m], key) ELSE f[i]]
  <2>4. \A i \in 0 .. m - 1 : g[i] = f[i] /\ i # m
    BY <2>2
  <2>5. ASSUME NEW i \in 0 .. m
        PROVE  g[i] = IF i = 0 THEN start ELSE DecryptBlock(g[i - 1], kinds[i], key)
    <3>1. CASE i = m
      <4>1. g[i] = DecryptBlock(f[m - 1], kinds[m], key)
        BY <3>1
      <4>2. g[m - 1] = f[m - 1]
        BY <2>2, <2>4
      <4>3. QED
        BY <2>1, <3>1, <4>1, <4>2
    <3>2. CASE i # m
      <4>1. i \in 0 .. m - 1 /\ (i # 0 => i - 1 \in 0 .. m - 1)
        BY <3>2
      <4>2. g[i] = f[i] /\ (i # 0 => g[i - 1] = f[i - 1])
        BY <2>4, <4>1
      <4> HIDE DEF g
      <4>3. f[i] = IF i = 0 THEN start ELSE DecryptBlock(f[i - 1], kinds[i], key)
        BY <2>3, <4>1 DEF RunIs
      <4>4. QED
        BY <4>2, <4>3
    <3>3. QED
      BY <3>1, <3>2
  <2>6. g = [i \in 0 .. m |-> g[i]]
    OBVIOUS
  <2> HIDE DEF g
  <2>7. RunIs(g, m, kinds, start, key)
    BY <2>5, <2>6 DEF RunIs
  <2>8. QED
    BY <2>7
<1>2. QED
  BY <1>1, LeastIn

LEMMA DecryptAllIs ==
  ASSUME NEW n \in Nat, NEW kinds, Len(kinds) = n, NEW start, NEW key
  PROVE  \E f : RunIs(f, n, kinds, start, key) /\ DecryptAll(kinds, start, key) = f[n]
<1> DEFINE run == CHOOSE f : RunIs(f, n, kinds, start, key)
<1>1. RunIs(run, n, kinds, start, key)
  BY RunExists
<1>2. DecryptAll(kinds, start, key) = run[n]
  BY DEF DecryptAll, RunIs
<1>3. QED
  BY <1>1, <1>2

\* Positions that never go back.
Positions(pos, l) == pos \in [0 .. l -> Nat] /\ \A j \in 0 .. l : pos[j] <= pos[l]

\* The blocks before each batch of a plan, and the bytes that are left behind the last one.
PlanAt(pos, kinds, n, left) ==
  /\ kinds \in Seq(Kinds) /\ left \in Nat
  /\ Positions(pos, Len(kinds)) /\ pos[0] = 0
  /\ \A j \in 1 .. Len(kinds) : pos[j] = pos[j - 1] + BlocksOf(kinds[j])
  /\ n = 8 * pos[Len(kinds)] + left
Planned(plan, n) == \E pos : PlanAt(pos, plan.kinds, n, plan.n)

\* No batch leaves all bytes.
LEMMA NothingPlanned ==
  ASSUME NEW n \in Nat
  PROVE  Planned([kinds |-> <<>>, n |-> n], n)
<1>1. PlanAt([j \in 0 .. 0 |-> 0], <<>>, n, n)
  BY DEF PlanAt, Positions
<1>2. QED
  BY <1>1 DEF Planned

\* The multiples of a number up to a product, as a function that hides the product.
MultiplesOf(mult, m, k) ==
  /\ mult \in [Nat -> Nat] /\ mult[0] = 0
  /\ \A i \in Nat : mult[i + 1] = mult[i] + m
  /\ \A i \in 0 .. k : mult[i] <= mult[k]

LEMMA MultiplesExist ==
  ASSUME NEW m \in Nat, NEW k \in Nat
  PROVE  \E mult : MultiplesOf(mult, m, k) /\ mult[k] = m * k
<1> DEFINE f == [i \in Nat |-> m * i]
<1>1. \A i \in Nat : m * i \in Nat /\ m * (i + 1) = m * i + m
  OBVIOUS
<1>2. f \in [Nat -> Nat] /\ f[0] = 0 /\ \A i \in Nat : f[i + 1] = f[i] + m
  BY <1>1
<1>3. \A i \in 0 .. k : f[i] <= f[k]
  <2>1. ASSUME NEW i \in Int, i \in 0 .. k
        PROVE  m * i <= m * k
    <3>1. PICK r \in Nat : k = i + r
      <4>1. k - i \in Nat /\ k = i + (k - i)
        BY <2>1
      <4>2. QED
        BY <4>1
    <3>2. m * k = m * i + m * r
      BY <3>1, SMTT(20)
    <3>3. m * r \in Nat /\ m * i \in Int
      OBVIOUS
    <3>4. QED
      BY <3>2, <3>3
  <2>2. QED
    BY <2>1
<1> HIDE DEF f
<1>4. f[k] = m * k
  BY DEF f
<1>5. QED
  BY <1>2, <1>3, <1>4 DEF MultiplesOf

\* Positions that go on in equal steps.
GoesOn(new, pos, l, k, m) ==
  /\ \A j \in 0 .. l : new[j] = pos[j]
  /\ \A j \in l + 1 .. l + k : new[j] = new[j - 1] + m

\* Positions can go on in equal steps.
LEMMA PositionsMore ==
  ASSUME NEW l \in Nat, NEW k \in Nat, NEW m \in Nat, NEW pos, Positions(pos, l),
         NEW mult, MultiplesOf(mult, m, k)
  PROVE  \E new : /\ Positions(new, l + k) /\ GoesOn(new, pos, l, k, m)
                  /\ new[l + k] = pos[l] + mult[k]
<1>1. PICK q \in Nat : q = pos[l]
  BY DEF Positions
<1>2. PICK r \in Nat : r = mult[k]
  BY DEF MultiplesOf
<1> DEFINE new == [j \in 0 .. l + k |-> IF j <= l THEN pos[j] ELSE q + mult[j - l]]
<1>3. ASSUME NEW j \in Int, j \in 0 .. l
      PROVE  new[j] = pos[j] /\ pos[j] \in Nat /\ pos[j] <= q
  <2>1. j \in 0 .. l + k /\ j <= l
    BY <1>3
  <2>2. pos[j] \in Nat /\ pos[j] <= q
    BY <1>1, <1>3 DEF Positions
  <2>3. QED
    BY <2>1, <2>2
<1>4. ASSUME NEW i \in Nat, i <= k
      PROVE  new[l + i] = q + mult[i] /\ mult[i] \in Nat /\ mult[i] <= r
  <2>1. l + i \in 0 .. l + k /\ l + i - l = i
    BY <1>4
  <2>2. mult[i] \in Nat
    BY DEF MultiplesOf
  <2>3. mult[i] <= r
    <3>1. i \in 0 .. k
      BY <1>4
    <3>2. QED
      BY <1>2, <3>1 DEF MultiplesOf
  <2>4. CASE i = 0
    <3>1. new[l + i] = q /\ mult[i] = 0
      BY <1>1, <2>1, <2>4 DEF MultiplesOf
    <3>2. QED
      BY <2>2, <2>3, <3>1
  <2>5. CASE i # 0
    BY <2>1, <2>2, <2>3, <2>5
  <2>6. QED
    BY <2>4, <2>5
<1>5. new = [j \in 0 .. l + k |-> new[j]]
  OBVIOUS
<1> HIDE DEF new
<1>6. ASSUME NEW j \in Int, j \in 0 .. l + k, ~(j \in 0 .. l)
      PROVE  \E i \in Nat : i <= k /\ j = l + i
  <2>1. j - l \in Nat /\ j - l <= k /\ j = l + (j - l)
    BY <1>6
  <2>2. QED
    BY <2>1
<1>7. new[l + k] = q + r
  BY <1>2, <1>4
<1>8. ASSUME NEW j \in Int, j \in 0 .. l + k
      PROVE  new[j] \in Nat /\ new[j] <= q + r
  <2>1. CASE j \in 0 .. l
    <3>1. PICK x \in Nat : x = new[j] /\ x <= q
      BY <1>3, <2>1
    <3>2. QED
      BY <3>1
  <2>2. CASE ~(j \in 0 .. l)
    <3>1. PICK i \in Nat : i <= k /\ j = l + i
      BY <1>6, <1>8, <2>2
    <3>2. PICK x \in Nat : x = mult[i] /\ x <= r /\ new[j] = q + x
      BY <1>4, <3>1
    <3>3. QED
      BY <3>2
  <2>3. QED
    BY <2>1, <2>2
<1>9. ASSUME NEW j \in Int, j \in l + 1 .. l + k
      PROVE  new[j] = new[j - 1] + m
  <2>1. PICK i \in Nat : i + 1 <= k /\ j = l + (i + 1) /\ j - 1 = l + i
    <3>1. j - l - 1 \in Nat /\ j - l - 1 + 1 <= k /\ j = l + (j - l - 1 + 1) /\ j - 1 = l + (j - l - 1)
      BY <1>9
    <3>2. QED
      BY <3>1
  <2>2. i + 1 \in Nat /\ i <= k
    BY <2>1
  <2>3. PICK x \in Nat : x = mult[i] /\ new[l + i] = q + x
    BY <1>4, <2>2
  <2>4. mult[i + 1] = x + m
    BY <2>3 DEF MultiplesOf
  <2>5. new[l + (i + 1)] = q + mult[i + 1]
    BY <1>4, <2>1, <2>2
  <2>6. q + (x + m) = q + x + m
    OBVIOUS
  <2>7. QED
    BY <2>1, <2>3, <2>4, <2>5, <2>6
<1>10. Positions(new, l + k)
  <2>1. \A j \in 0 .. l + k : new[j] \in Nat
    BY <1>8
  <2>2. \A j \in 0 .. l + k : new[j] <= new[l + k]
    BY <1>7, <1>8
  <2>3. new \in [0 .. l + k -> Nat]
    BY <1>5, <2>1
  <2>4. QED
    BY <2>2, <2>3 DEF Positions
<1>11. GoesOn(new, pos, l, k, m)
  <2>1. \A j \in 0 .. l : new[j] = pos[j]
    BY <1>3
  <2>2. \A j \in l + 1 .. l + k : new[j] = new[j - 1] + m
    BY <1>9
  <2>3. QED
    BY <2>1, <2>2 DEF GoesOn
<1>12. QED
  BY <1>1, <1>2, <1>7, <1>10, <1>11

\* A sequence behind another one.
LEMMA ConcatIs ==
  ASSUME NEW S, NEW a \in Seq(S), NEW b \in Seq(S), NEW l \in Nat, NEW k \in Nat,
         l = Len(a), k = Len(b)
  PROVE  /\ a \o b \in Seq(S) /\ Len(a \o b) = l + k
         /\ \A j \in 1 .. l + k : (a \o b)[j] = IF j <= l THEN a[j] ELSE b[j - l]
  OBVIOUS

\* A number of batches of a kind more.
Takes(n, kind, k, left) == n = Batches[kind].bytes * k + left

LEMMA PlanMore ==
  ASSUME NEW n \in Nat, NEW plan, Planned(plan, n), NEW kind \in Kinds, NEW k \in Nat,
         NEW left \in Nat, Takes(plan.n, kind, k, left)
  PROVE  Planned([kinds |-> plan.kinds \o [i \in 1 .. k |-> kind], n |-> left], n)
<1>1. PICK pos : PlanAt(pos, plan.kinds, n, plan.n)
  BY DEF Planned
<1>2. PICK l \in Nat : l = Len(plan.kinds)
  BY <1>1 DEF PlanAt
<1>3. PICK m \in Nat : m = BlocksOf(kind) /\ Batches[kind].bytes = 8 * m
  BY BatchSizes
<1>4. PICK more : more = [i \in 1 .. k |-> kind]
  OBVIOUS
<1>5. more \in Seq(Kinds) /\ Len(more) = k /\ \A i \in 1 .. k : more[i] = kind
  <2>1. more \in [1 .. k -> Kinds]
    BY <1>4
  <2>2. more \in Seq(Kinds)
    BY <2>1
  <2>3. QED
    BY <1>4, <2>1, <2>2
<1>6. PICK kinds : kinds = plan.kinds \o more
  OBVIOUS
<1>7. /\ kinds \in Seq(Kinds) /\ Len(kinds) = l + k
      /\ \A j \in 1 .. l + k : kinds[j] = IF j <= l THEN plan.kinds[j] ELSE kind
  <2>1. PICK old \in Seq(Kinds) : old = plan.kinds /\ Len(old) = l
    BY <1>1, <1>2 DEF PlanAt
  <2>2. kinds = old \o more
    BY <1>6, <2>1
  <2>3. /\ kinds \in Seq(Kinds) /\ Len(kinds) = l + k
        /\ \A j \in 1 .. l + k : kinds[j] = IF j <= l THEN old[j] ELSE more[j - l]
    <3>1. /\ old \o more \in Seq(Kinds) /\ Len(old \o more) = l + k
          /\ \A j \in 1 .. l + k : (old \o more)[j] = IF j <= l THEN old[j] ELSE more[j - l]
      <4>1. more \in Seq(Kinds) /\ l = Len(old) /\ k = Len(more)
        BY <1>5, <2>1
      <4>2. QED
        BY <4>1, ConcatIs
    <3>2. QED
      BY <2>2, <3>1
  <2>4. ASSUME NEW j \in Int, j \in 1 .. l + k
        PROVE  kinds[j] = IF j <= l THEN old[j] ELSE kind
    <3>1. kinds[j] = IF j <= l THEN old[j] ELSE more[j - l]
      BY <2>3, <2>4
    <3>2. ~(j <= l) => j - l \in 1 .. k
      BY <2>4
    <3>3. QED
      BY <1>5, <3>1, <3>2
  <2>5. QED
    BY <2>1, <2>3, <2>4
<1>8. /\ Positions(pos, l) /\ pos[0] = 0
      /\ \A j \in 1 .. l : pos[j] = pos[j - 1] + BlocksOf(plan.kinds[j])
      /\ n = 8 * pos[l] + plan.n
  BY <1>1, <1>2 DEF PlanAt
<1>9. PICK mult : MultiplesOf(mult, m, k) /\ mult[k] = m * k
  BY MultiplesExist
<1>10. PICK new : /\ Positions(new, l + k) /\ GoesOn(new, pos, l, k, m)
                  /\ new[l + k] = pos[l] + mult[k]
  <2>1. Positions(pos, l) /\ MultiplesOf(mult, m, k)
    BY <1>8, <1>9
  <2>2. QED
    BY <2>1, PositionsMore
<1>11. new[0] = 0
  <2>1. 0 \in 0 .. l
    OBVIOUS
  <2>2. QED
    BY <1>8, <1>10, <2>1 DEF GoesOn
<1>12. ASSUME NEW j \in Int, j \in 1 .. l + k
       PROVE  new[j] = new[j - 1] + BlocksOf(kinds[j])
  <2>1. CASE j <= l
    <3>1. j \in 1 .. l /\ j \in 0 .. l /\ j - 1 \in 0 .. l
      BY <1>12, <2>1
    <3>2. new[j] = pos[j] /\ new[j - 1] = pos[j - 1]
      BY <1>10, <3>1 DEF GoesOn
    <3>3. kinds[j] = plan.kinds[j]
      BY <1>7, <1>12, <2>1
    <3>4. QED
      BY <1>8, <3>1, <3>2, <3>3
  <2>2. CASE ~(j <= l)
    <3>1. j \in l + 1 .. l + k
      BY <1>12, <2>2
    <3>2. kinds[j] = kind
      BY <1>7, <1>12, <2>2
    <3>3. QED
      BY <1>3, <1>10, <3>1, <3>2 DEF GoesOn
  <2>3. QED
    BY <2>1, <2>2
<1>13. n = 8 * new[l + k] + left
  <2>1. PICK r \in Nat : r = mult[k]
    BY <1>9 DEF MultiplesOf
  <2>2. PICK q \in Nat : q = pos[l]
    BY <1>8 DEF Positions
  <2>3. Batches[kind].bytes * k = 8 * r
    <3>1. 8 * m * k = 8 * (m * k)
      OBVIOUS
    <3>2. QED
      BY <1>3, <1>9, <2>1, <3>1
  <2>4. plan.n = 8 * r + left
    BY <2>3 DEF Takes
  <2>5. new[l + k] = q + r /\ n = 8 * q + plan.n
    BY <1>8, <1>10, <2>1, <2>2
  <2>6. 8 * (q + r) = 8 * q + 8 * r
    OBVIOUS
  <2>7. QED
    BY <2>4, <2>5, <2>6
<1>14. PlanAt(new, kinds, n, left)
  <2>1. \A j \in 1 .. l + k : new[j] = new[j - 1] + BlocksOf(kinds[j])
    BY <1>12
  <2>2. QED
    BY <1>7, <1>10, <1>11, <1>13, <2>1 DEF PlanAt
<1>15. QED
  BY <1>4, <1>6, <1>14 DEF Planned

LEMMA DivMod ==
  ASSUME NEW p \in Nat, NEW c \in Nat, c > 0
  PROVE  p = c * (p \div c) + (p % c)
<1>1. PICK q \in Int : q = p \div c
  OBVIOUS
<1>2. PICK r \in Int : r = p % c
  OBVIOUS
<1>3. p = c * q + r
  BY <1>1, <1>2, SMTT(30)
<1>4. QED
  BY <1>1, <1>2, <1>3

\* A loop takes batches until less than one is left; a condition takes one or none.
LEMMA RepeatedPlanned ==
  ASSUME NEW n \in Nat, NEW plan, Planned(plan, n), NEW kind \in Kinds
  PROVE  /\ Planned(Repeated(plan, kind), n)
         /\ Repeated(plan, kind).n = plan.n % Batches[kind].bytes
<1>1. plan.n \in Nat
  BY DEF Planned, PlanAt
<1>2. PICK m \in Nat : m > 0 /\ m = BlocksOf(kind) /\ Batches[kind].bytes = 8 * m
  BY BatchSizes
<1>3. PICK size \in Nat : size > 0 /\ size = Batches[kind].bytes
  BY <1>2
<1>4. PICK k \in Nat : k = plan.n \div size
  BY <1>1, <1>3
<1>5. PICK left \in Nat : left = plan.n % size
  BY <1>1, <1>3
<1>6. plan.n = size * k + left
  <2>1. PICK p \in Nat : p = plan.n
    BY <1>1
  <2>2. p = size * (p \div size) + (p % size)
    BY <1>3, DivMod
  <2>3. QED
    BY <1>4, <1>5, <2>1, <2>2
<1>7. Repeated(plan, kind) = [kinds |-> plan.kinds \o [i \in 1 .. k |-> kind], n |-> left]
  BY <1>3, <1>4, <1>5 DEF Repeated
<1>8. Planned([kinds |-> plan.kinds \o [i \in 1 .. k |-> kind], n |-> left], n)
  BY <1>3, <1>6, PlanMore DEF Takes
<1>9. QED
  BY <1>3, <1>5, <1>7, <1>8

LEMMA OncePlanned ==
  ASSUME NEW n \in Nat, NEW plan, Planned(plan, n), NEW kind \in Kinds
  PROVE  Planned(Once(plan, kind), n)
<1>1. plan.n \in Nat /\ plan.kinds \in Seq(Kinds)
  BY DEF Planned, PlanAt
<1>2. PICK m \in Nat : m > 0 /\ m = BlocksOf(kind) /\ Batches[kind].bytes = 8 * m
  BY BatchSizes
<1>3. PICK size \in Nat : size > 0 /\ size = Batches[kind].bytes
  BY <1>2
<1>4. CASE size <= plan.n
  <2>1. PICK left \in Nat : left = plan.n - size /\ plan.n = size * 1 + left
    <3>1. plan.n - size \in Nat /\ plan.n = size * 1 + (plan.n - size)
      BY <1>1, <1>4
    <3>2. QED
      BY <3>1
  <2>2. Planned([kinds |-> plan.kinds \o [i \in 1 .. 1 |-> kind], n |-> left], n)
    BY <1>3, <2>1, PlanMore DEF Takes
  <2>3. plan.kinds \o [i \in 1 .. 1 |-> kind] = Append(plan.kinds, kind)
    <3>1. PICK old \in Seq(Kinds) : old = plan.kinds
      BY <1>1
    <3>2. [i \in 1 .. 1 |-> kind] = <<kind>>
      OBVIOUS
    <3>3. old \o <<kind>> = Append(old, kind)
      OBVIOUS
    <3>4. QED
      BY <3>1, <3>2, <3>3
  <2>4. Once(plan, kind) = [kinds |-> Append(plan.kinds, kind), n |-> left]
    BY <1>3, <1>4, <2>1 DEF Once
  <2>5. QED
    BY <2>2, <2>3, <2>4
<1>5. CASE ~(size <= plan.n)
  BY <1>3, <1>5 DEF Once
<1>6. QED
  BY <1>4, <1>5

\* The paths of a whole packet take all of its bytes.
LEMMA PacketPlanned ==
  /\ Planned([kinds |-> <<"ymm2", "ymm">>, n |-> 0], 184)
  /\ Planned([kinds |-> <<"neon2_7", "neon2_8", "neon2_8">>, n |-> 0], 184)
<1>1. PlanAt([j \in 0 .. 2 |-> <<0, 15, 23>>[j + 1]], <<"ymm2", "ymm">>, 184, 0)
  <2>1. <<"ymm2", "ymm">> \in Seq(Kinds) /\ Len(<<"ymm2", "ymm">>) = 2
    BY DEF Kinds, Shapes, Pairs
  <2>2. BlocksOf("ymm2") = 15 /\ BlocksOf("ymm") = 8
    BY DEF BlocksOf, Batches
  <2>3. QED
    BY <2>1, <2>2 DEF PlanAt, Positions
<1>2. PlanAt([j \in 0 .. 3 |-> <<0, 7, 15, 23>>[j + 1]], <<"neon2_7", "neon2_8", "neon2_8">>, 184, 0)
  <2>1. <<"neon2_7", "neon2_8", "neon2_8">> \in Seq(Kinds)
    BY DEF Kinds, Shapes, Pairs
  <2>2. BlocksOf("neon2_7") = 7 /\ BlocksOf("neon2_8") = 8
    BY DEF BlocksOf, Batches
  <2>3. QED
    BY <2>1, <2>2 DEF PlanAt, Positions
<1>3. QED
  BY <1>1, <1>2 DEF Planned

\* Whatever the build, the batches take all the blocks of a payload.
LEMMA PlanIs ==
  ASSUME NEW lib \in Builds, NEW n \in Nat
  PROVE  \E pos : /\ Plan(lib, n) \in Seq(Kinds)
                  /\ Positions(pos, Len(Plan(lib, n))) /\ pos[0] = 0
                  /\ \A j \in 1 .. Len(Plan(lib, n)) :
                       pos[j] = pos[j - 1] + BlocksOf(Plan(lib, n)[j])
                  /\ pos[Len(Plan(lib, n))] = n \div 8
<1> DEFINE none == [kinds |-> <<>>, n |-> n]
<1>1. Planned(none, n)
  BY NothingPlanned
<1>2. \A kind \in {"word", "xmm", "sse2", "neon", "ymm", "ymm2", "neon2_7", "neon2_8"} : kind \in Kinds
  BY DEF Kinds, Shapes, Pairs
<1> HIDE DEF none
<1>3. Planned(Vectors(lib, n), n)
  <2>1. CASE lib = "avx2" /\ n = 184
    BY <2>1, PacketPlanned DEF Vectors
  <2>2. CASE lib = "avx2" /\ n # 184
    <3>1. Planned(Once(none, "ymm2"), n)
      BY <1>1, <1>2, OncePlanned
    <3>2. Planned(Once(Once(none, "ymm2"), "ymm"), n)
      BY <1>2, <3>1, OncePlanned
    <3>3. Planned(Once(Once(Once(none, "ymm2"), "ymm"), "xmm"), n)
      BY <1>2, <3>2, OncePlanned
    <3>4. QED
      BY <2>2, <3>3 DEF Vectors, none
  <2>3. CASE lib = "ssse3"
    <3>1. Planned(Repeated(none, "xmm"), n)
      BY <1>1, <1>2, RepeatedPlanned
    <3>2. QED
      BY <2>3, <3>1 DEF Vectors, none
  <2>4. CASE lib = "sse2"
    <3>1. Planned(Repeated(none, "sse2"), n)
      BY <1>1, <1>2, RepeatedPlanned
    <3>2. QED
      BY <2>4, <3>1 DEF Vectors, none
  <2>5. CASE lib = "neon" /\ n = 184
    BY <2>5, PacketPlanned DEF Vectors
  <2>6. CASE lib = "neon" /\ n # 184
    <3>1. Planned(Repeated(none, "neon2_8"), n)
      BY <1>1, <1>2, RepeatedPlanned
    <3>2. Planned(Once(Repeated(none, "neon2_8"), "neon"), n)
      BY <1>2, <3>1, OncePlanned
    <3>3. QED
      BY <2>6, <3>2 DEF Vectors, none
  <2>7. CASE lib = "plain"
    BY <1>1, <2>7 DEF Vectors, none
  <2>8. QED
    BY <2>1, <2>2, <2>3, <2>4, <2>5, <2>6, <2>7 DEF Builds
<1>4. PICK plan : plan = Repeated(Vectors(lib, n), "word")
  OBVIOUS
<1>5. Planned(plan, n) /\ plan.n = Vectors(lib, n).n % Batches["word"].bytes
  BY <1>2, <1>3, <1>4, RepeatedPlanned
<1>6. plan.n \in 0 .. 7
  <2>1. Batches["word"].bytes = 8
    BY DEF Batches
  <2>2. Vectors(lib, n).n \in Nat
    BY <1>3 DEF Planned, PlanAt
  <2>3. QED
    BY <1>5, <2>1, <2>2
<1>7. PICK pos : PlanAt(pos, plan.kinds, n, plan.n)
  BY <1>5 DEF Planned
<1>8. pos[Len(plan.kinds)] = n \div 8
  <2>1. Len(plan.kinds) \in Nat
    BY <1>7 DEF PlanAt
  <2>2. PICK q \in Nat : q = pos[Len(plan.kinds)]
    <3>1. PICK l \in Nat : l = Len(plan.kinds)
      BY <2>1
    <3>2. pos \in [0 .. l -> Nat] /\ l \in 0 .. l
      BY <1>7, <3>1 DEF PlanAt, Positions
    <3>3. QED
      BY <3>1, <3>2
  <2>3. PICK left \in 0 .. 7 : left = plan.n
    BY <1>6
  <2>4. n = 8 * q + left
    BY <1>7, <2>2, <2>3 DEF PlanAt
  <2>5. (8 * q + left) \div 8 = q
    OBVIOUS
  <2>6. QED
    BY <2>2, <2>4, <2>5
<1>9. Plan(lib, n) = plan.kinds
  BY <1>4 DEF Plan
<1>10. QED
  BY <1>7, <1>8, <1>9 DEF PlanAt

----------------------------------------------------------------------------
\* Batch after batch.
\* Blocks that are done after blocks that are done.
StateAt(w, q, s) == IF q = 0 THEN s ELSE Blk(w, 0, q)

\* Deciphered blocks leave those behind them as they are.
LEMMA BlockBehind ==
  ASSUME NEW N \in Nat, NEW w, DOMAIN w = 1 .. N, NEW q \in Nat, NEW s, NEW key,
         NEW b \in Nat, b > 0, 2 * q + 2 * b <= N
  PROVE  Blk(BlocksDone(w, 0, q, s, key), 2 * q, b) = Blk(w, 0, q + b)
<1> DEFINE d == BlocksDone(w, 0, q, s, key)
<1>1. \A i \in 1 .. N : 2 * q < i => d[i] = w[i]
  BY DEF BlocksDone
<1> HIDE DEF d
<1>2. 2 * q + 2 * b \in 1 .. N /\ 2 * q + 2 * b - 1 \in 1 .. N
  OBVIOUS
<1>3. d[2 * q + 2 * b] = w[2 * q + 2 * b] /\ d[2 * q + 2 * b - 1] = w[2 * q + 2 * b - 1]
  BY <1>1, <1>2
<1>4. 0 + 2 * (q + b) = 2 * q + 2 * b /\ 0 + 2 * (q + b) - 1 = 2 * q + 2 * b - 1
  OBVIOUS
<1>5. QED
  BY <1>3, <1>4 DEF Blk, d

\* A block behind deciphered ones is joined as if none was.
LEMMA JoinedAfter ==
  ASSUME NEW N \in Nat, NEW w, DOMAIN w = 1 .. N, NEW q \in Nat, NEW s, NEW key,
         NEW b \in Nat, b > 0, 2 * q + 2 * b <= N
  PROVE  JoinedBlock(BlocksDone(w, 0, q, s, key), 2 * q, StateAt(w, q, s), key, b)
           = JoinedBlock(w, 0, s, key, q + b)
<1> DEFINE d == BlocksDone(w, 0, q, s, key)
<1>1. Blk(d, 2 * q, b) = Blk(w, 0, q + b)
  BY BlockBehind
<1>2. CASE b = 1
  <2>1. (q + b = 1) <=> (q = 0)
    BY <1>2
  <2>2. q + b - 1 = q
    BY <1>2
  <2> HIDE DEF d
  <2>3. QED
    BY <1>1, <1>2, <2>1, <2>2 DEF JoinedBlock, StateAt, d
<1>3. CASE b # 1
  <2>1. PICK e \in Nat : e = b - 1 /\ e > 0
    BY <1>3
  <2>2. 2 * q + 2 * e <= N /\ q + b # 1 /\ q + b - 1 = q + e
    BY <1>3, <2>1
  <2>3. Blk(d, 2 * q, e) = Blk(w, 0, q + e)
    BY <2>1, <2>2, BlockBehind
  <2> HIDE DEF d
  <2>4. QED
    BY <1>1, <1>3, <2>1, <2>2, <2>3 DEF JoinedBlock, d
<1>4. QED
  BY <1>2, <1>3

\* Deciphering q blocks and then m is deciphering q + m.
LEMMA DoneMore ==
  ASSUME NEW N \in Nat, NEW w, DOMAIN w = 1 .. N, NEW q \in Nat, NEW s, NEW key,
         NEW m \in Nat, 2 * q + 2 * m <= N
  PROVE  BlocksDone(BlocksDone(w, 0, q, s, key), 2 * q, m, StateAt(w, q, s), key)
           = BlocksDone(w, 0, q + m, s, key)
<1> DEFINE d == BlocksDone(w, 0, q, s, key)
           t == StateAt(w, q, s)
           l == BlocksDone(d, 2 * q, m, t, key)
           r == BlocksDone(w, 0, q + m, s, key)
<1>1. DOMAIN d = 1 .. N
  BY DEF BlocksDone
<1>2. \A i \in 1 .. N : d[i] = IF i <= 2 * q THEN JoinedWord(w, 0, s, key, i - 0) ELSE w[i]
  BY DEF BlocksDone
<1> HIDE DEF d, t
<1>3. /\ l = [i \in 1 .. N |-> IF 2 * q < i /\ i <= 2 * q + 2 * m
                                 THEN JoinedWord(d, 2 * q, t, key, i - 2 * q) ELSE d[i]]
      /\ r = [i \in 1 .. N |-> IF 0 < i /\ i <= 0 + 2 * (q + m)
                                 THEN JoinedWord(w, 0, s, key, i - 0) ELSE w[i]]
  BY <1>1 DEF BlocksDone
<1> HIDE DEF l, r
<1>4. ASSUME NEW i \in Int, i \in 1 .. N
      PROVE  l[i] = r[i]
  <2>1. CASE i <= 2 * q
    <3>1. l[i] = d[i] /\ r[i] = JoinedWord(w, 0, s, key, i - 0)
      BY <1>3, <1>4, <2>1
    <3>2. QED
      BY <1>2, <1>4, <2>1, <3>1
  <2>2. CASE 2 * q < i /\ i <= 2 * q + 2 * m
    <3>1. PICK k \in Nat : k = i - 2 * q /\ k > 0 /\ k <= 2 * m
      BY <2>2
    <3>2. PICK b \in Nat : b = (k + 1) \div 2 /\ b > 0 /\ b <= m
      BY <3>1
    <3>3. (i - 0 + 1) \div 2 = q + b /\ (i - 0 - 1) % 2 = (k - 1) % 2
      BY <3>1, <3>2
    <3>4. 2 * q + 2 * b <= N
      BY <3>2
    <3>5. JoinedBlock(d, 2 * q, t, key, b) = JoinedBlock(w, 0, s, key, q + b)
      BY <3>2, <3>4, JoinedAfter DEF d, t
    <3>6. JoinedWord(d, 2 * q, t, key, k) = JoinedWord(w, 0, s, key, i - 0)
      BY <3>2, <3>3, <3>5 DEF JoinedWord
    <3>7. l[i] = JoinedWord(d, 2 * q, t, key, k)
      BY <1>3, <1>4, <2>2, <3>1
    <3>8. r[i] = JoinedWord(w, 0, s, key, i - 0)
      BY <1>3, <1>4, <2>2
    <3>9. QED
      BY <3>6, <3>7, <3>8
  <2>3. CASE 2 * q + 2 * m < i
    <3>1. l[i] = d[i] /\ r[i] = w[i] /\ d[i] = w[i]
      BY <1>2, <1>3, <1>4, <2>3
    <3>2. QED
      BY <3>1
  <2>4. QED
    BY <2>1, <2>2, <2>3
<1>5. l = r
  BY <1>3, <1>4
<1>6. QED
  BY <1>5 DEF l, r, d, t

\* The run before the first batch, and after q blocks.
StartIs(start, w, s) == start = [words |-> w, at |-> 0, state |-> s]
WordsAre(w, N) == w = [i \in 1 .. N |-> w[i]]
RunAt(w, q, s, key) ==
  [words |-> BlocksDone(w, 0, q, s, key), at |-> 2 * q, state |-> StateAt(w, q, s)]

\* The blocks before each batch of l, all of them among the words of the payload.
Steps(pos, kinds, l, N) ==
  /\ Positions(pos, l) /\ pos[0] = 0 /\ 2 * pos[l] <= N
  /\ \A j \in 1 .. l : kinds[j] \in Kinds /\ pos[j] = pos[j - 1] + BlocksOf(kinds[j])

\* After no block the run is at its start.
LEMMA NothingDone ==
  ASSUME NEW N \in Nat, NEW w, w = [i \in 1 .. N |-> w[i]], NEW s, NEW key
  PROVE  RunAt(w, 0, s, key) = [words |-> w, at |-> 0, state |-> s]
<1>1. BlocksDone(w, 0, 0, s, key) = w
  <2>1. DOMAIN w = 1 .. N
    OBVIOUS
  <2>2. \A i \in 1 .. N : ~(0 < i /\ i <= 0 + 2 * 0)
    OBVIOUS
  <2>3. BlocksDone(w, 0, 0, s, key) = [i \in 1 .. N |-> w[i]]
    BY <2>1, <2>2 DEF BlocksDone
  <2>4. QED
    BY <2>3
<1>2. 2 * 0 = 0
  OBVIOUS
<1>3. QED
  BY <1>1, <1>2 DEF RunAt, StateAt

\* One batch more.
LEMMA BatchMore ==
  ASSUME NEW N \in Nat, NEW w, DOMAIN w = 1 .. N, NEW q \in Nat, NEW s, NEW key,
         NEW kind \in Kinds, 2 * (q + BlocksOf(kind)) <= N
  PROVE  DecryptBlock(RunAt(w, q, s, key), kind, key) = RunAt(w, q + BlocksOf(kind), s, key)
<1>1. PICK m \in Nat : m = BlocksOf(kind) /\ m > 0
  BY BatchSizes
<1>2. PICK d : d = BlocksDone(w, 0, q, s, key)
  OBVIOUS
<1>3. PICK t : t = StateAt(w, q, s)
  OBVIOUS
<1>4. DOMAIN d = 1 .. N
  BY <1>2 DEF BlocksDone
<1>5. PICK a \in Int : a = 2 * q
  OBVIOUS
<1>6. DecryptBlock([words |-> d, at |-> a, state |-> t], kind, key)
        = [words |-> BlocksDone(d, a, BlocksOf(kind), t, key),
           at |-> a + 2 * BlocksOf(kind), state |-> Blk(d, a, BlocksOf(kind))]
  BY <1>4, BatchIs
<1>7. 2 * q + 2 * m <= N /\ a + 2 * m = 2 * (q + m) /\ q + m # 0
  BY <1>1, <1>5
<1>8. BlocksDone(d, a, m, t, key) = BlocksDone(w, 0, q + m, s, key)
  BY <1>2, <1>3, <1>5, <1>7, DoneMore
<1>9. Blk(d, a, m) = StateAt(w, q + m, s)
  <2>1. Blk(d, a, m) = Blk(w, 0, q + m)
    BY <1>1, <1>2, <1>5, <1>7, BlockBehind
  <2>2. QED
    BY <1>7, <2>1 DEF StateAt
<1>10. DecryptBlock([words |-> d, at |-> a, state |-> t], kind, key)
         = [words |-> BlocksDone(w, 0, q + m, s, key), at |-> 2 * (q + m),
            state |-> StateAt(w, q + m, s)]
  BY <1>1, <1>6, <1>7, <1>8, <1>9
<1>11. QED
  BY <1>1, <1>2, <1>3, <1>5, <1>10 DEF RunAt

\* Along a plan every batch begins where the one before it ended.
LEMMA AllBatches ==
  ASSUME NEW N \in Nat, NEW w, WordsAre(w, N), NEW s, NEW key,
         NEW kinds, NEW l \in Nat, NEW pos, Steps(pos, kinds, l, N),
         NEW start, StartIs(start, w, s),
         NEW f, RunIs(f, l, kinds, start, key)
  PROVE  f[l] = RunAt(w, pos[l], s, key)
<1> DEFINE S == {j \in 0 .. l : f[j] # RunAt(w, pos[j], s, key)}
<1>1. ASSUME NEW j \in S, \A i \in S : j <= i
      PROVE  FALSE
  <2>1. j \in 0 .. l /\ f[j] # RunAt(w, pos[j], s, key)
    OBVIOUS
  <2>2. j # 0
    <3>1. 0 \in 0 .. l
      OBVIOUS
    <3>2. f[0] = [words |-> w, at |-> 0, state |-> s]
      BY <3>1 DEF RunIs, StartIs
    <3>3. RunAt(w, 0, s, key) = [words |-> w, at |-> 0, state |-> s]
      BY NothingDone DEF WordsAre
    <3>4. QED
      BY <2>1, <3>2, <3>3 DEF Steps
  <2>3. j - 1 \in 0 .. l /\ ~(j <= j - 1) /\ j \in 1 .. l
    BY <2>1, <2>2
  <2>4. f[j - 1] = RunAt(w, pos[j - 1], s, key)
    BY <1>1, <2>3
  <2> HIDE DEF S
  <2>5. f[j] = DecryptBlock(f[j - 1], kinds[j], key)
    BY <2>1, <2>2 DEF RunIs
  <2>6. PICK kind \in Kinds : kind = kinds[j]
    BY <2>3 DEF Steps
  <2>7. PICK q \in Nat : q = pos[j - 1]
    BY <2>3 DEF Steps, Positions
  <2>8. PICK e \in Nat : e = pos[l]
    <3>1. l \in 0 .. l
      OBVIOUS
    <3>2. QED
      BY <3>1 DEF Steps, Positions
  <2>9. PICK g \in Nat : g = pos[j] /\ g = q + BlocksOf(kind) /\ g <= e
    BY <2>1, <2>3, <2>6, <2>7, <2>8 DEF Steps, Positions
  <2>10. 2 * (q + BlocksOf(kind)) <= N
    <3>1. 2 * e <= N
      BY <2>8 DEF Steps
    <3>2. 2 * g <= N
      BY <2>9, <3>1
    <3>3. QED
      BY <2>9, <3>2
  <2>11. DOMAIN w = 1 .. N
    BY DEF WordsAre
  <2>12. DecryptBlock(RunAt(w, q, s, key), kind, key) = RunAt(w, q + BlocksOf(kind), s, key)
    BY <2>10, <2>11, BatchMore
  <2>13. QED
    BY <2>1, <2>4, <2>5, <2>6, <2>7, <2>9, <2>12
<1>2. S = {}
  <2>1. S \in SUBSET Nat
    OBVIOUS
  <2> HIDE DEF S
  <2>2. QED
    BY <1>1, <2>1, LeastIn
<1>3. l \in 0 .. l
  OBVIOUS
<1>4. QED
  BY <1>2, <1>3

\* Every build deciphers all the blocks of a payload and comes to the state after the last.
LEMMA BlocksDeciphered ==
  ASSUME NEW lib \in Builds, NEW p, IsPayload(p), NEW s, NEW key,
         NEW start, StartIs(start, p.words, s),
         NEW run, run = DecryptAll(Plan(lib, p.size), start, key)
  PROVE  /\ run.words = BlocksDone(p.words, 0, p.size \div 8, s, key)
         /\ run.state = StateAt(p.words, p.size \div 8, s)
<1>1. PICK n \in Nat : n = p.size
  BY DEF IsPayload
<1>2. PICK q \in Nat : q = n \div 8
  OBVIOUS
<1>3. PICK N \in Nat : N = 2 * q
  OBVIOUS
<1>4. PICK w : w = p.words /\ WordsAre(w, N)
  BY <1>1, <1>2, <1>3 DEF IsPayload, WordsAre
<1>5. PICK kinds : kinds = Plan(lib, n)
  OBVIOUS
<1>6. PICK pos : /\ kinds \in Seq(Kinds)
                 /\ Positions(pos, Len(kinds)) /\ pos[0] = 0
                 /\ \A j \in 1 .. Len(kinds) : pos[j] = pos[j - 1] + BlocksOf(kinds[j])
                 /\ pos[Len(kinds)] = q
  <2>1. \E pos : /\ Plan(lib, n) \in Seq(Kinds)
                 /\ Positions(pos, Len(Plan(lib, n))) /\ pos[0] = 0
                 /\ \A j \in 1 .. Len(Plan(lib, n)) :
                      pos[j] = pos[j - 1] + BlocksOf(Plan(lib, n)[j])
                 /\ pos[Len(Plan(lib, n))] = n \div 8
    BY PlanIs
  <2>2. QED
    BY <1>2, <1>5, <2>1
<1>7. PICK l \in Nat : l = Len(kinds)
  BY <1>6
<1>8. Steps(pos, kinds, l, N)
  <2>1. \A j \in 1 .. l : kinds[j] \in Kinds
    BY <1>6, <1>7
  <2>2. 2 * pos[l] <= N
    BY <1>3, <1>6, <1>7
  <2>3. QED
    BY <1>6, <1>7, <2>1, <2>2 DEF Steps
<1>9. PICK f : RunIs(f, l, kinds, start, key) /\ DecryptAll(kinds, start, key) = f[l]
  <2>1. l = Len(kinds)
    BY <1>7
  <2>2. QED
    BY <2>1, DecryptAllIs
<1>10. f[l] = RunAt(w, pos[l], s, key)
  <2>1. WordsAre(w, N)
    BY <1>4
  <2>2. RunIs(f, l, kinds, start, key) /\ StartIs(start, w, s)
    BY <1>4, <1>9
  <2>3. QED
    BY <1>8, <2>1, <2>2, AllBatches
<1>11. DecryptAll(kinds, start, key) = RunAt(w, q, s, key)
  BY <1>6, <1>7, <1>9, <1>10
<1>12. run = RunAt(w, q, s, key)
  BY <1>1, <1>5, <1>11
<1>13. QED
  BY <1>1, <1>2, <1>4, <1>12 DEF RunAt

----------------------------------------------------------------------------
\* The plaintext of CBC and OFB.
\* The promise is about the same cipher.
LEMMA SameCipher ==
  /\ \A a, b : Promise!Xor(a, b) = Xor(a, b)
  /\ \A a, b : Promise!XorBlock(a, b) = XorBlock(a, b)
  /\ \A b, key : Promise!CipherEncrypt(b, key) = CipherEncrypt(b, key)
  /\ \A b, key : Promise!CipherDecrypt(b, key) = CipherDecrypt(b, key)
  /\ \A v : Promise!InitialState(v) = InitialState(v)
<1>1. \A a, b : Promise!Xor(a, b) = Xor(a, b)
  BY DEF Promise!Xor, Xor
<1>2. \A a, b : Promise!XorBlock(a, b) = XorBlock(a, b)
  BY <1>1 DEF Promise!XorBlock, XorBlock
<1>3. \A b, key : Promise!CipherEncrypt(b, key) = CipherEncrypt(b, key)
  BY DEF Promise!CipherEncrypt, CipherEncrypt
<1>4. \A b, key : Promise!CipherDecrypt(b, key) = CipherDecrypt(b, key)
  BY <1>3 DEF Promise!CipherDecrypt, CipherDecrypt
<1>5. \A v : Promise!InitialState(v) = InitialState(v)
  BY DEF Promise!InitialState, InitialState
<1>6. QED
  BY <1>1, <1>2, <1>3, <1>4, <1>5

\* The state before a block, and the block that is joined with it.
LEMMA SameBlocks ==
  ASSUME NEW p, NEW v, NEW key, NEW b \in Nat
  PROVE  /\ Promise!Block(p, b) = Blk(p.words, 0, b)
         /\ Promise!Before(p, b + 1, v) = StateAt(p.words, b, InitialState(v))
         /\ b > 0 => Promise!PlainBlock(p, b, v, key)
                       = JoinedBlock(p.words, 0, InitialState(v), key, b)
<1>1. \A i \in Nat : Promise!Block(p, i) = Blk(p.words, 0, i)
  BY DEF Promise!Block, Blk
<1>2. Promise!Before(p, b + 1, v) = StateAt(p.words, b, InitialState(v))
  <2>1. (b + 1 = 1) <=> (b = 0)
    OBVIOUS
  <2>2. b + 1 - 1 = b
    OBVIOUS
  <2>3. QED
    BY <1>1, <2>1, <2>2, SameCipher DEF Promise!Before, StateAt
<1>3. ASSUME b > 0
      PROVE  Promise!PlainBlock(p, b, v, key) = JoinedBlock(p.words, 0, InitialState(v), key, b)
  <2>1. Promise!Before(p, b, v) = IF b = 1 THEN InitialState(v) ELSE Blk(p.words, 0, b - 1)
    <3>1. b - 1 \in Nat
      BY <1>3
    <3>2. QED
      BY <1>1, <3>1, SameCipher DEF Promise!Before
  <2>2. Promise!PlainBlock(p, b, v, key)
          = XorBlock(CipherDecrypt(Promise!Block(p, b), key), Promise!Before(p, b, v))
    BY SameCipher DEF Promise!PlainBlock
  <2>3. QED
    BY <1>1, <2>1, <2>2 DEF JoinedBlock
<1>4. QED
  BY <1>1, <1>2, <1>3

\* Every build computes the plaintext that CBC and OFB define, whatever the length of the
\* payload.
THEOREM BuildsComputeCbc ==
  ASSUME NEW b \in Builds, NEW p, IsPayload(p), NEW v, NEW key
  PROVE  DecryptCbcOfb(b, p, v, key) = Promise!Plain(p, v, key)
<1>1. PICK n \in Nat : n = p.size
  BY DEF IsPayload
<1>2. PICK q \in Nat : q = n \div 8
  OBVIOUS
<1>3. PICK w : w = p.words /\ w = [i \in 1 .. 2 * q |-> w[i]]
  BY <1>1, <1>2 DEF IsPayload
<1>4. PICK s : s = InitialState(v)
  OBVIOUS
<1> DEFINE start == [words |-> p.words, at |-> 0, state |-> s]
           run == DecryptAll(Plan(b, p.size), start, key)
<1>5. StartIs(start, p.words, s)
  BY DEF StartIs
<1> HIDE DEF start
<1>6. run.words = BlocksDone(w, 0, q, s, key) /\ run.state = StateAt(w, q, s)
  <2>1. /\ run.words = BlocksDone(p.words, 0, p.size \div 8, s, key)
        /\ run.state = StateAt(p.words, p.size \div 8, s)
    BY <1>5, BlocksDeciphered
  <2>2. QED
    BY <1>1, <1>2, <1>3, <2>1
<1>7. DecryptCbcOfb(b, p, v, key)
        = [p EXCEPT !.words = run.words, !.rest = JoinRest(p, run.state, key)]
  BY <1>4 DEF DecryptCbcOfb, start
<1> HIDE DEF run
<1>8. run.words = [j \in 1 .. 2 * q |-> Promise!PlainBlock(p, (j + 1) \div 2, v, key)[1 + ((j - 1) % 2)]]
  <2>1. DOMAIN w = 1 .. 2 * q
    BY <1>3
  <2>2. BlocksDone(w, 0, q, s, key)
          = [i \in 1 .. 2 * q |-> IF 0 < i /\ i <= 0 + 2 * q
                                    THEN JoinedWord(w, 0, s, key, i - 0) ELSE w[i]]
    BY <2>1 DEF BlocksDone
  <2>3. ASSUME NEW j \in Int, j \in 1 .. 2 * q
        PROVE  /\ 0 < j /\ j <= 0 + 2 * q
               /\ JoinedWord(w, 0, s, key, j - 0)
                    = Promise!PlainBlock(p, (j + 1) \div 2, v, key)[1 + ((j - 1) % 2)]
    <3>1. PICK e \in Nat : e = (j + 1) \div 2 /\ e > 0
      BY <2>3
    <3>2. Promise!PlainBlock(p, e, v, key) = JoinedBlock(w, 0, s, key, e)
      BY <1>3, <1>4, <3>1, SameBlocks
    <3>3. j - 0 = j
      OBVIOUS
    <3>4. JoinedWord(w, 0, s, key, j - 0) = JoinedBlock(w, 0, s, key, e)[1 + ((j - 1) % 2)]
      BY <3>1, <3>3 DEF JoinedWord
    <3>5. QED
      BY <2>3, <3>1, <3>2, <3>4
  <2> DEFINE P(j) == Promise!PlainBlock(p, (j + 1) \div 2, v, key)[1 + ((j - 1) % 2)]
  <2>4. \A j \in 1 .. 2 * q :
          /\ 0 < j /\ j <= 0 + 2 * q /\ JoinedWord(w, 0, s, key, j - 0) = P(j)
    BY <2>3
  <2> HIDE DEF P
  <2>5. BlocksDone(w, 0, q, s, key) = [j \in 1 .. 2 * q |-> P(j)]
    BY <2>2, <2>4
  <2>6. QED
    BY <1>6, <2>5 DEF P
<1>9. JoinRest(p, run.state, key)
        = IF p.size % 8 = 0 THEN p.rest
          ELSE Promise!Xor(p.rest,
                 {<<"rest", Promise!CipherEncrypt(Promise!Before(p, q + 1, v), key), p.size % 8>>})
  <2>1. Promise!Before(p, q + 1, v) = run.state
    BY <1>3, <1>4, <1>6, SameBlocks
  <2>2. QED
    BY <2>1, SameCipher DEF JoinRest
<1>10. Promise!Plain(p, v, key)
         = [p EXCEPT !.words = [j \in DOMAIN @ |->
                        Promise!PlainBlock(p, (j + 1) \div 2, v, key)[1 + ((j - 1) % 2)]],
                     !.rest = JoinRest(p, run.state, key)]
  BY <1>1, <1>2, <1>9 DEF Promise!Plain, IsPayload
<1>11. DOMAIN p.words = 1 .. 2 * q
  BY <1>3
<1>12. QED
  BY <1>7, <1>8, <1>10, <1>11 DEF IsPayload

----------------------------------------------------------------------------
\* Encryption, and how it is undone.
LEMMA CipherUndone ==
  ASSUME NEW b, NEW key
  PROVE  CipherDecrypt(CipherEncrypt(b, key), key) = b
<1> DEFINE e == CipherEncrypt(b, key)
           t == <<"el", b, key>>
<1>1. e[1] = {t} /\ t[1] = "el" /\ t[2] = b
  BY DEF CipherEncrypt
<1>2. \E x \in e[1] : x[1] = "el" /\ e = CipherEncrypt(x[2], key)
  <2>1. t \in e[1] /\ e = CipherEncrypt(t[2], key)
    BY <1>1
  <2> HIDE DEF e, t
  <2>2. QED
    BY <1>1, <2>1
<1> HIDE DEF e, t
<1>3. (CHOOSE x \in e[1] : TRUE) = t
  BY <1>1
<1>4. CipherDecrypt(e, key) = (CHOOSE x \in e[1] : TRUE)[2]
  BY <1>2 DEF CipherDecrypt
<1>5. QED
  BY <1>1, <1>3, <1>4 DEF e

\* Joining twice with the same is joining with nothing.
LEMMA XorUndone ==
  ASSUME NEW a, NEW b
  PROVE  Xor(Xor(a, b), b) = a
BY DEF Xor

LEMMA XorBlockUndone ==
  ASSUME NEW x, NEW y, NEW s
  PROVE  XorBlock(XorBlock(<<x, y>>, s), s) = <<x, y>>
BY XorUndone DEF XorBlock

\* The ciphertext blocks of encrypt(), the initial state before them.
Enciphered(c, n, w, v, key) ==
  c = [i \in 0 .. n |->
         IF i = 0 THEN InitialState(v)
         ELSE CipherEncrypt(XorBlock(<<w[2 * i - 1], w[2 * i]>>, c[i - 1]), key)]

\* The recursion along the blocks of a plaintext has a result.
LEMMA EncipheredExists ==
  ASSUME NEW n \in Nat, NEW w, NEW v, NEW key
  PROVE  \E c : Enciphered(c, n, w, v, key)
<1> DEFINE S == {m \in Nat : ~ \E c : Enciphered(c, m, w, v, key)}
           Block(m, s) == CipherEncrypt(XorBlock(<<w[2 * m - 1], w[2 * m]>>, s), key)
<1>1. ASSUME NEW m \in S, \A y \in S : m <= y
      PROVE  FALSE
  <2>1. m # 0
    <3>1. Enciphered([i \in 0 .. 0 |-> InitialState(v)], 0, w, v, key)
      BY DEF Enciphered
    <3>2. QED
      BY <3>1
  <2>2. m \in Nat /\ m - 1 \in Nat /\ ~(m <= m - 1)
    BY <2>1
  <2>3. PICK c : Enciphered(c, m - 1, w, v, key)
    BY <1>1, <2>2
  <2>4. c = [i \in 0 .. m - 1 |-> IF i = 0 THEN InitialState(v) ELSE Block(i, c[i - 1])]
    BY <2>3 DEF Enciphered
  <2> HIDE DEF Block
  <2> DEFINE g == [i \in 0 .. m |-> IF i = m THEN Block(m, c[m - 1]) ELSE c[i]]
  <2>5. \A i \in 0 .. m - 1 : g[i] = c[i] /\ i # m
    BY <2>2
  <2>6. ASSUME NEW i \in 0 .. m
        PROVE  g[i] = IF i = 0 THEN InitialState(v) ELSE Block(i, g[i - 1])
    <3>1. CASE i = m
      <4>1. g[i] = Block(m, c[m - 1])
        BY <3>1
      <4>2. g[m - 1] = c[m - 1]
        BY <2>2, <2>5
      <4>3. QED
        BY <2>1, <3>1, <4>1, <4>2
    <3>2. CASE i # m
      <4>1. i \in 0 .. m - 1 /\ (i # 0 => i - 1 \in 0 .. m - 1)
        BY <3>2
      <4>2. g[i] = c[i] /\ (i # 0 => g[i - 1] = c[i - 1])
        BY <2>5, <4>1
      <4> HIDE DEF g
      <4>3. c[i] = IF i = 0 THEN InitialState(v) ELSE Block(i, c[i - 1])
        BY <2>4, <4>1
      <4>4. QED
        BY <4>2, <4>3
    <3>3. QED
      BY <3>1, <3>2
  <2>7. g = [i \in 0 .. m |-> g[i]]
    OBVIOUS
  <2> HIDE DEF g
  <2>8. g = [i \in 0 .. m |-> IF i = 0 THEN InitialState(v) ELSE Block(i, g[i - 1])]
    BY <2>6, <2>7
  <2>9. Enciphered(g, m, w, v, key)
    BY <2>8 DEF Enciphered, Block
  <2>10. QED
    BY <2>9
<1>2. QED
  BY <1>1, LeastIn

\* What encrypt() leaves, by its blocks.
WordsOf(c, q) == [j \in 1 .. 2 * q |-> c[(j + 1) \div 2][1 + ((j - 1) % 2)]]
EncryptedBy(c, q, e, p, v, key) ==
  /\ c[0] = InitialState(v)
  /\ \A b \in 1 .. q :
       c[b] = CipherEncrypt(XorBlock(<<p.words[2 * b - 1], p.words[2 * b]>>, c[b - 1]), key)
  /\ e = [size |-> p.size, words |-> WordsOf(c, q), rest |-> JoinRest(p, c[q], key)]

\* encrypt() leaves the blocks of that recursion, and a payload.
LEMMA EncryptedIs ==
  ASSUME NEW p, IsPayload(p), NEW v, NEW key, NEW q \in Nat, q = p.size \div 8
  PROVE  \E c : EncryptedBy(c, q, EncryptCbcOfb(p, v, key), p, v, key)
<1> DEFINE c == CHOOSE f : Enciphered(f, q, p.words, v, key)
<1>1. Enciphered(c, q, p.words, v, key)
  BY EncipheredExists
<1>2. EncryptedBlocks(p, v, key) = c
  BY DEF EncryptedBlocks, Enciphered
<1> HIDE DEF c
<1>3. DOMAIN p.words = 1 .. 2 * q
  BY DEF IsPayload
<1> DEFINE rest == JoinRest(p, c[q], key)
<1>4. EncryptCbcOfb(p, v, key) = [p EXCEPT !.words = WordsOf(c, q), !.rest = rest]
  BY <1>2, <1>3 DEF EncryptCbcOfb, WordsOf
<1> HIDE DEF rest
<1>5. EncryptCbcOfb(p, v, key) = [size |-> p.size, words |-> WordsOf(c, q), rest |-> rest]
  BY <1>4 DEF IsPayload
<1>6. c[0] = InitialState(v)
  BY <1>1 DEF Enciphered
<1>7. \A b \in 1 .. q :
        c[b] = CipherEncrypt(XorBlock(<<p.words[2 * b - 1], p.words[2 * b]>>, c[b - 1]), key)
  BY <1>1 DEF Enciphered
<1>8. EncryptedBy(c, q, EncryptCbcOfb(p, v, key), p, v, key)
  BY <1>5, <1>6, <1>7 DEF EncryptedBy, rest
<1>9. QED
  BY <1>8

LEMMA EncryptedIsPayload ==
  ASSUME NEW p, IsPayload(p), NEW v, NEW key
  PROVE  IsPayload(EncryptCbcOfb(p, v, key))
<1>1. PICK q \in Nat : q = p.size \div 8 /\ p.size \in Nat
  BY DEF IsPayload
<1>2. PICK c : EncryptedBy(c, q, EncryptCbcOfb(p, v, key), p, v, key)
  BY <1>1, EncryptedIs
<1>3. WordsOf(c, q) = [j \in 1 .. 2 * q |-> WordsOf(c, q)[j]]
  BY DEF WordsOf
<1>4. QED
  BY <1>1, <1>2, <1>3 DEF EncryptedBy, IsPayload

\* The blocks of the ciphertext, and those that they are deciphered to.
TurnedBack(c, q, e, p, v, key) ==
  /\ \A b \in 0 .. q : StateAt(e.words, b, InitialState(v)) = c[b]
  /\ \A b \in 1 .. q : JoinedBlock(e.words, 0, InitialState(v), key, b)
                        = <<p.words[2 * b - 1], p.words[2 * b]>>

\* Each block of a ciphertext is deciphered to the block it was made of.
LEMMA BlocksUndone ==
  ASSUME NEW p, NEW v, NEW key, NEW q \in Nat, NEW c, NEW e,
         EncryptedBy(c, q, e, p, v, key)
  PROVE  TurnedBack(c, q, e, p, v, key)
<1>1. ASSUME NEW b \in Nat, b \in 1 .. q
      PROVE  Blk(e.words, 0, b) = c[b]
  <2>1. c[b] = <<c[b][1], c[b][2]>>
    <3>1. c[b] = CipherEncrypt(XorBlock(<<p.words[2 * b - 1], p.words[2 * b]>>, c[b - 1]), key)
      BY <1>1 DEF EncryptedBy
    <3>2. QED
      BY <3>1 DEF CipherEncrypt
  <2>2. 0 + 2 * b \in 1 .. 2 * q /\ 0 + 2 * b - 1 \in 1 .. 2 * q
    BY <1>1
  <2>3. /\ (0 + 2 * b + 1) \div 2 = b /\ 1 + ((0 + 2 * b - 1) % 2) = 2
        /\ (0 + 2 * b - 1 + 1) \div 2 = b /\ 1 + ((0 + 2 * b - 1 - 1) % 2) = 1
    OBVIOUS
  <2>4. e.words = WordsOf(c, q)
    BY DEF EncryptedBy
  <2>5. e.words[0 + 2 * b] = c[b][2] /\ e.words[0 + 2 * b - 1] = c[b][1]
    <3>1. PICK g \in Int, h \in Int : g = 0 + 2 * b /\ h = 0 + 2 * b - 1
      OBVIOUS
    <3>2. /\ g \in 1 .. 2 * q /\ (g + 1) \div 2 = b /\ 1 + ((g - 1) % 2) = 2
          /\ h \in 1 .. 2 * q /\ (h + 1) \div 2 = b /\ 1 + ((h - 1) % 2) = 1
      BY <2>2, <2>3, <3>1
    <3>3. /\ WordsOf(c, q)[g] = c[(g + 1) \div 2][1 + ((g - 1) % 2)]
          /\ WordsOf(c, q)[h] = c[(h + 1) \div 2][1 + ((h - 1) % 2)]
      BY <3>2 DEF WordsOf
    <3>4. WordsOf(c, q)[g] = c[b][2] /\ WordsOf(c, q)[h] = c[b][1]
      BY <3>2, <3>3
    <3>5. QED
      BY <2>4, <3>1, <3>4
  <2>6. QED
    BY <2>1, <2>5 DEF Blk
<1>2. ASSUME NEW b \in Nat, b \in 0 .. q
      PROVE  StateAt(e.words, b, InitialState(v)) = c[b]
  <2>1. CASE b = 0
    BY <2>1 DEF StateAt, EncryptedBy
  <2>2. CASE b # 0
    BY <1>1, <1>2, <2>2 DEF StateAt
  <2>3. QED
    BY <2>1, <2>2
<1>3. ASSUME NEW b \in Nat, b \in 1 .. q
      PROVE  JoinedBlock(e.words, 0, InitialState(v), key, b)
               = <<p.words[2 * b - 1], p.words[2 * b]>>
  <2>1. b - 1 \in Nat /\ b - 1 \in 0 .. q
    BY <1>3
  <2>2. (IF b = 1 THEN InitialState(v) ELSE Blk(e.words, 0, b - 1)) = c[b - 1]
    <3>1. StateAt(e.words, b - 1, InitialState(v)) = c[b - 1]
      BY <1>2, <2>1
    <3>2. (b - 1 = 0) <=> (b = 1)
      OBVIOUS
    <3>3. QED
      BY <3>1, <3>2 DEF StateAt
  <2> DEFINE plain == <<p.words[2 * b - 1], p.words[2 * b]>>
  <2>3. CipherDecrypt(Blk(e.words, 0, b), key) = XorBlock(plain, c[b - 1])
    <3>1. c[b] = CipherEncrypt(XorBlock(plain, c[b - 1]), key)
      BY <1>3 DEF EncryptedBy
    <3> HIDE DEF plain
    <3>2. QED
      BY <1>1, <1>3, <3>1, CipherUndone
  <2>4. XorBlock(XorBlock(plain, c[b - 1]), c[b - 1]) = plain
    BY XorBlockUndone
  <2> HIDE DEF plain
  <2>5. JoinedBlock(e.words, 0, InitialState(v), key, b) = plain
    BY <2>2, <2>3, <2>4 DEF JoinedBlock
  <2>6. QED
    BY <2>5 DEF plain
<1>4. QED
  BY <1>2, <1>3 DEF TurnedBack

\* Every build turns back what encryption makes, whatever the length of the payload.
THEOREM BuildsUndoEncryption ==
  ASSUME NEW b \in Builds, NEW p, IsPayload(p), NEW v, NEW key
  PROVE  DecryptCbcOfb(b, EncryptCbcOfb(p, v, key), v, key) = p
<1>1. PICK n \in Nat : n = p.size
  BY DEF IsPayload
<1>2. PICK q \in Nat : q = n \div 8
  OBVIOUS
<1>3. PICK e : e = EncryptCbcOfb(p, v, key)
  OBVIOUS
<1>4. IsPayload(e)
  BY <1>3, EncryptedIsPayload
<1>5. PICK c : EncryptedBy(c, q, e, p, v, key)
  BY <1>1, <1>2, <1>3, EncryptedIs
<1>6. /\ DOMAIN e.words = 1 .. 2 * q /\ e.size = n /\ e.rest = JoinRest(p, c[q], key)
  BY <1>1, <1>5 DEF EncryptedBy, WordsOf
<1>7. TurnedBack(c, q, e, p, v, key)
  BY <1>5, BlocksUndone
<1>8. ASSUME NEW j \in Int, j \in 1 .. 2 * q
      PROVE  Promise!PlainBlock(e, (j + 1) \div 2, v, key)[1 + ((j - 1) % 2)] = p.words[j]
  <2>1. PICK i \in Nat : i = (j + 1) \div 2 /\ i \in 1 .. q
    BY <1>8
  <2>2. Promise!PlainBlock(e, i, v, key) = JoinedBlock(e.words, 0, InitialState(v), key, i)
    BY <2>1, SameBlocks
  <2>3. JoinedBlock(e.words, 0, InitialState(v), key, i) = <<p.words[2 * i - 1], p.words[2 * i]>>
    BY <1>7, <2>1 DEF TurnedBack
  <2>4. \/ (j - 1) % 2 = 0 /\ j = 2 * i - 1
        \/ (j - 1) % 2 = 1 /\ j = 2 * i
    BY <1>7, <2>1
  <2>5. QED
    BY <2>1, <2>2, <2>3, <2>4
<1>9. Promise!Before(e, q + 1, v) = c[q]
  <2>1. Promise!Before(e, q + 1, v) = StateAt(e.words, q, InitialState(v))
    BY SameBlocks
  <2>2. q \in 0 .. q
    OBVIOUS
  <2>3. QED
    BY <1>7, <2>1, <2>2 DEF TurnedBack
<1>10. (IF e.size % 8 = 0 THEN e.rest
       ELSE Promise!Xor(e.rest, {<<"rest", Promise!CipherEncrypt(Promise!Before(e, q + 1, v), key),
                                   e.size % 8>>})) = p.rest
  <2> DEFINE x == {<<"rest", CipherEncrypt(c[q], key), n % 8>>}
  <2>1. e.rest = IF n % 8 = 0 THEN p.rest ELSE Xor(p.rest, x)
    BY <1>1, <1>6 DEF JoinRest
  <2>2. Promise!Xor(e.rest, {<<"rest", Promise!CipherEncrypt(Promise!Before(e, q + 1, v), key),
                               e.size % 8>>}) = Xor(e.rest, x)
    BY <1>6, <1>9, SameCipher
  <2>3. Xor(Xor(p.rest, x), x) = p.rest
    BY XorUndone
  <2> HIDE DEF x
  <2>4. QED
    BY <1>6, <2>1, <2>2, <2>3
<1> DEFINE Q(j) == Promise!PlainBlock(e, (j + 1) \div 2, v, key)[1 + ((j - 1) % 2)]
<1>11. Promise!Plain(e, v, key)
         = [e EXCEPT !.words = [j \in DOMAIN @ |-> Q(j)], !.rest = p.rest]
  BY <1>2, <1>6, <1>10 DEF Promise!Plain
<1>12. \A j \in 1 .. 2 * q : Q(j) = p.words[j]
  BY <1>8
<1> HIDE DEF Q
<1>13. [j \in DOMAIN e.words |-> Q(j)] = p.words
  BY <1>1, <1>2, <1>6, <1>12 DEF IsPayload
<1>14. [e EXCEPT !.words = [j \in DOMAIN @ |-> Q(j)], !.rest = p.rest] = p
  BY <1>1, <1>4, <1>6, <1>13 DEF IsPayload
<1>15. QED
  BY <1>3, <1>4, <1>11, <1>14, BuildsComputeCbc

----------------------------------------------------------------------------
\* The keys.
KeyTriples == DataKeys \X SystemKeys \X Rounds

\* What a caller may have deciphered: a payload, or what encrypt() left.
Ciphertexts ==
  Payloads \cup PlainPayloads
    \cup {EncryptCbcOfb(p, v, k) : p \in PlainPayloads, v \in IVs, k \in KeyTriples}

\* Whatever is deciphered is a payload.
LEMMA CiphertextsArePayloads == \A p \in Ciphertexts : IsPayload(p)
<1>1. \A p \in Payloads \cup PlainPayloads : IsPayload(p)
  BY Multi2Assumption
<1>2. ASSUME NEW p \in PlainPayloads, NEW v \in IVs, NEW k \in KeyTriples
      PROVE  IsPayload(EncryptCbcOfb(p, v, k))
  BY <1>1, EncryptedIsPayload
<1>3. QED
  BY <1>1, <1>2 DEF Ciphertexts

----------------------------------------------------------------------------
\* A work key is kept only as long as the data key it was derived from.
WorkKeysFit ==
  /\ work_key \in [1 .. 2 -> (DataKeys \X SystemKeys) \cup {None}]
  /\ \A i \in 1 .. 2 : work_key[i] # None => data_key[i] # None /\ system_key # None

\* What the last call of encrypt() made was made with the key the next one uses.
LastEncrypted ==
  last.op = "encrypt" =>
    /\ last.type \in 2 .. 3 /\ last.in \in PlainPayloads
    /\ last.code # "ok" => last.out = last.in
    /\ last.code = "ok" => /\ Refusal(last.type) = "ok"
                           /\ last.out = EncryptCbcOfb(last.in, iv, CipherKey(last.type))

KInv == TypeOK /\ WorkKeysFit /\ LastEncrypted

LEMMA AppendToPair ==
  ASSUME NEW a, NEW b, NEW c
  PROVE  Append(<<a, b>>, c) = <<a, b, c>>
<1> DEFINE S == {a, b, c}
<1>1. a \in S /\ b \in S /\ c \in S
  OBVIOUS
<1> HIDE DEF S
<1>2. PICK s \in Seq(S), t \in Seq(S) : s = <<a, b>> /\ t = <<a, b, c>>
  <2>1. <<a, b>> \in Seq(S) /\ <<a, b, c>> \in Seq(S)
    BY <1>1
  <2>2. QED
    BY <2>1
<1>3. /\ Len(s) = 2 /\ s[1] = a /\ s[2] = b
      /\ Len(t) = 3 /\ t[1] = a /\ t[2] = b /\ t[3] = c
  BY <1>2
<1>4. /\ Append(s, c) \in Seq(S) /\ Len(Append(s, c)) = 3
      /\ Append(s, c)[1] = a /\ Append(s, c)[2] = b /\ Append(s, c)[3] = c
  <2>1. PICK r : r = Append(s, c)
    OBVIOUS
  <2>2. /\ r \in Seq(S) /\ Len(r) = Len(s) + 1 /\ r[Len(s) + 1] = c
        /\ \A i \in 1 .. Len(s) : r[i] = s[i]
    BY <1>1, <2>1, AppendProperties
  <2>3. Len(r) = 3 /\ r[3] = c /\ r[1] = s[1] /\ r[2] = s[2]
    BY <1>3, <2>2
  <2>4. QED
    BY <1>3, <2>1, <2>2, <2>3
<1>5. \A i \in 1 .. 3 : Append(s, c)[i] = t[i]
  BY <1>3, <1>4
<1>6. QED
  BY <1>2, <1>3, <1>4, <1>5, SeqEqual

LEMMA HalfType == \A type : Half(type) \in 1 .. 2
  BY DEF Half

LEMMA DataKeyType ==
  ASSUME KInv, NEW i \in 1 .. 2
  PROVE  data_key[i] \in DataKeys \cup {None}
  BY DEF KInv, TypeOK

\* The key that the cipher is given: that of the promise, in use or not.
LEMMA CipherKeyIs ==
  ASSUME KInv, NEW type, Refusal(type) = "ok"
  PROVE  /\ iv \in IVs /\ CipherKey(type) \in KeyTriples
         /\ CipherKey(type) = Promise!Key(type)
         /\ WorkKey(type) = <<data_key[Half(type)], Promise!System(type)>>
         /\ WorkKey(type) \in DataKeys \X SystemKeys
<1>1. PICK h \in 1 .. 2 : h = Half(type)
  BY HalfType
<1>2. Promise!Half(type) = h
  BY <1>1 DEF Half, Promise!Half
<1>3. iv \in IVs /\ round \in Rounds
  BY DEF Refusal, KInv, TypeOK
<1>4. PICK d \in DataKeys, s \in SystemKeys :
         WorkKey(type) = <<d, s>> /\ d = data_key[h] /\ s = Promise!System(type)
  <2>1. CASE work_key[h] = None
    <3>1. Promise!System(type) = system_key
      BY <1>2, <2>1 DEF Promise!System, Bound
    <3>2. WorkKey(type) = <<data_key[h], system_key>>
      BY <1>1, <2>1 DEF WorkKey, Schedule
    <3>3. data_key[h] \in DataKeys /\ system_key \in SystemKeys
      BY <1>1, <2>1, DataKeyType DEF Refusal, KInv, TypeOK
    <3>4. QED
      BY <3>1, <3>2, <3>3
  <2>2. CASE work_key[h] # None
    <3>1. work_key[h] \in DataKeys \X SystemKeys /\ work_key[h][1] = data_key[h]
      BY <2>2 DEF KInv, TypeOK
    <3>2. Promise!System(type) = work_key[h][2]
      <4>1. work_key[h][2] # None
        BY <3>1, Multi2Assumption
      <4>2. QED
        BY <1>2, <2>2, <4>1 DEF Promise!System, Bound
    <3>3. WorkKey(type) = work_key[h]
      BY <1>1, <2>2 DEF WorkKey
    <3>4. QED
      BY <3>1, <3>2, <3>3
  <2>3. QED
    BY <2>1, <2>2
<1>5. Append(<<d, s>>, round) = <<d, s, round>>
  BY AppendToPair
<1>6. QED
  BY <1>1, <1>2, <1>3, <1>4, <1>5 DEF CipherKey, KeyTriples, Promise!Key

LEMMA InitKInv == Init => KInv
<1> SUFFICES ASSUME Init PROVE KInv
  OBVIOUS
<1>1. TypeOK
  BY Multi2Assumption DEF Init, TypeOK, Quiet
<1>2. WorkKeysFit /\ LastEncrypted
  BY DEF Init, WorkKeysFit, LastEncrypted, Quiet
<1>3. QED
  BY <1>1, <1>2 DEF KInv

\* The settings keep or forget the work keys.
LEMMA SettingKeepsKeys ==
  ASSUME KInv,
         \/ AddRef \/ Release \/ ClearScrambleKey
         \/ \E r \in Rounds : SetRound(r)
         \/ \E s \in SystemKeys : SetSystemKey(s)
         \/ \E v \in IVs : SetInitCbc(v)
         \/ \E k \in DataKeys \X DataKeys : SetScrambleKey(k)
  PROVE  KInv'
<1>1. LastEncrypted'
  BY DEF AddRef, Release, ClearScrambleKey, SetRound, SetSystemKey, SetInitCbc, SetScrambleKey,
         Setting, Quiet, LastEncrypted
<1>2. CASE \/ AddRef \/ Release
           \/ \E r \in Rounds : SetRound(r)
           \/ \E v \in IVs : SetInitCbc(v)
  <2>1. data_key' = data_key /\ work_key' = work_key /\ system_key' = system_key
    BY <1>2 DEF AddRef, Release, SetRound, SetInitCbc, keys
  <2>2. WorkKeysFit'
    BY <2>1 DEF KInv, WorkKeysFit
  <2>3. TypeOK'
    BY <1>2, <2>1, Multi2Assumption
    DEF KInv, TypeOK, AddRef, Release, SetRound, SetInitCbc, Setting, Called, Quiet, keys
  <2>4. QED
    BY <1>1, <2>2, <2>3 DEF KInv
<1>3. CASE \E s \in SystemKeys : SetSystemKey(s)
  <2>1. /\ work_key' = work_key /\ data_key' = data_key
        /\ system_key' \in SystemKeys /\ system_key' # None
    BY <1>3, Multi2Assumption DEF SetSystemKey
  <2>2. TypeOK' /\ WorkKeysFit'
    BY <1>3, <2>1 DEF SetSystemKey, Setting, Called, Quiet, KInv, TypeOK, WorkKeysFit
  <2>3. QED
    BY <1>1, <2>2 DEF KInv
<1>4. CASE ClearScrambleKey
  <2>1. \A i \in 1 .. 2 : work_key'[i] = None
    BY <1>4 DEF ClearScrambleKey
  <2>2. TypeOK' /\ WorkKeysFit'
    BY <1>4, <2>1 DEF ClearScrambleKey, Called, Quiet, KInv, TypeOK, WorkKeysFit
  <2>3. QED
    BY <1>1, <2>2 DEF KInv
<1>5. CASE \E k \in DataKeys \X DataKeys : SetScrambleKey(k)
  <2>1. PICK k \in DataKeys \X DataKeys : SetScrambleKey(k)
    BY <1>5
  <2>2. /\ data_key' = k /\ system_key' = system_key
        /\ work_key' = [i \in 1 .. 2 |-> IF k[i] = data_key[i] THEN work_key[i] ELSE None]
    BY <2>1 DEF SetScrambleKey
  <2>3. \A i \in 1 .. 2 : work_key'[i] # None => work_key'[i] = work_key[i] /\ k[i] = data_key[i]
    BY <2>2
  <2>4. WorkKeysFit'
    BY <2>2, <2>3 DEF KInv, WorkKeysFit
  <2>5. TypeOK'
    BY <2>1, <2>2, <2>3 DEF SetScrambleKey, Called, Quiet, KInv, TypeOK
  <2>6. QED
    BY <1>1, <2>4, <2>5 DEF KInv
<1>6. QED
  BY <1>2, <1>3, <1>4, <1>5

\* encrypt() and decrypt() derive a work key or use one that fits, and use it again.
LEMMA CryptDerives ==
  ASSUME KInv, NEW op, NEW type, NEW p, NEW result,
         Crypt(op, type, p, result), Refusal(type) = "ok"
  PROVE  /\ work_key' = [work_key EXCEPT ![Half(type)] = WorkKey(type)]
         /\ work_key'[Half(type)] # None
         /\ Refusal(type)' = "ok" /\ CipherKey(type)' = CipherKey(type)
<1>1. PICK h \in 1 .. 2 : h = Half(type)
  BY HalfType
<1>2. /\ work_key' = [work_key EXCEPT ![h] = WorkKey(type)]
      /\ iv' = iv /\ round' = round
  BY <1>1 DEF Crypt
<1>3. work_key'[h] = WorkKey(type) /\ WorkKey(type) # None
  BY <1>1, <1>2, CipherKeyIs, Multi2Assumption DEF KInv, WorkKeysFit
<1>4. WorkKey(type)' = WorkKey(type)
  BY <1>1, <1>3 DEF WorkKey, Half
<1>5. Refusal(type)' = "ok"
  BY <1>1, <1>2, <1>3, CipherKeyIs, Multi2Assumption DEF Refusal, Half
<1>6. QED
  BY <1>1, <1>2, <1>3, <1>4, <1>5 DEF CipherKey

LEMMA CryptKeepsKeys ==
  ASSUME KInv, NEW op \in {"encrypt", "decrypt"}, NEW type \in 2 .. 3, NEW p, NEW result,
         Crypt(op, type, p, result),
         op = "encrypt" => /\ p \in PlainPayloads
                           /\ result = EncryptCbcOfb(p, iv, CipherKey(type))
  PROVE  KInv'
<1>1. /\ build' = build /\ ref' = ref /\ round' = round /\ system_key' = system_key
      /\ iv' = iv /\ data_key' = data_key
  BY DEF Crypt
<1>2. PICK h \in 1 .. 2 : h = Half(type)
  BY HalfType
<1>3. CASE Refusal(type) = "ok"
  <2>1. /\ work_key' = [work_key EXCEPT ![h] = WorkKey(type)]
        /\ last' = [op |-> op, type |-> type, code |-> "ok", in |-> p, out |-> result]
    BY <1>2, <1>3 DEF Crypt
  <2>2. /\ WorkKey(type) \in DataKeys \X SystemKeys /\ WorkKey(type)[1] = data_key[h]
        /\ data_key[h] # None /\ system_key # None
    <3>1. WorkKey(type) \in DataKeys \X SystemKeys /\ WorkKey(type)[1] = data_key[h]
      BY <1>2, <1>3, CipherKeyIs
    <3>2. data_key[h] \in DataKeys
      BY <3>1
    <3>3. system_key # None
      BY <1>2, <1>3 DEF Refusal, KInv, WorkKeysFit
    <3>4. QED
      BY <3>1, <3>2, <3>3, Multi2Assumption
  <2>3. work_key'[h] = WorkKey(type) /\ \A i \in 1 .. 2 : i # h => work_key'[i] = work_key[i]
    BY <2>1 DEF KInv, WorkKeysFit
  <2>4. TypeOK'
    BY <1>1, <2>1, <2>2, <2>3 DEF KInv, TypeOK
  <2>5. WorkKeysFit'
    BY <1>1, <1>2, <2>1, <2>2, <2>3 DEF KInv, WorkKeysFit
  <2>6. LastEncrypted'
    <3>1. Refusal(type)' = "ok" /\ CipherKey(type)' = CipherKey(type)
      BY <1>3, CryptDerives
    <3>2. /\ last'.op = op /\ last'.type = type /\ last'.in = p /\ last'.code = "ok"
          /\ last'.out = result
      BY <2>1
    <3>3. QED
      BY <1>1, <3>1, <3>2 DEF LastEncrypted
  <2>7. QED
    BY <2>4, <2>5, <2>6 DEF KInv
<1>4. CASE Refusal(type) # "ok"
  <2>1. /\ work_key' = work_key
        /\ last' = [op |-> op, type |-> type, code |-> Refusal(type), in |-> p, out |-> p]
    BY <1>4 DEF Crypt
  <2>2. TypeOK' /\ WorkKeysFit' /\ LastEncrypted'
    BY <1>1, <1>4, <2>1 DEF KInv, TypeOK, WorkKeysFit, LastEncrypted
  <2>3. QED
    BY <2>2 DEF KInv
<1>5. QED
  BY <1>3, <1>4

----------------------------------------------------------------------------
\* The kept keys are of no consequence but for the system key they are in use with.

\* What is missing is told as if no key were kept.
LEMMA RefusalIsCode ==
  ASSUME KInv, NEW type
  PROVE  Refusal(type) = Promise!Code(type)
<1>1. Half(type) = Promise!Half(type)
  BY DEF Half, Promise!Half
<1>2. QED
  BY <1>1, HalfType DEF Refusal, Promise!Code, KInv, WorkKeysFit

\* A half that is used is in use with the system key its data key was first used with.
LEMMA CryptBinds ==
  ASSUME KInv, NEW op, NEW type, NEW p, NEW result, Crypt(op, type, p, result)
  PROVE  Promise!Bind(type)
<1>1. PICK h \in 1 .. 2 : h = Half(type) /\ h = Promise!Half(type)
  BY HalfType DEF Half, Promise!Half
<1>2. CASE Refusal(type) = "ok"
  <2>1. /\ work_key' = [work_key EXCEPT ![h] = WorkKey(type)]
        /\ work_key'[h] # None
    BY <1>1, <1>2, CryptDerives
  <2>2. WorkKey(type)[2] = Promise!System(type)
    BY <1>2, CipherKeyIs
  <2>3. /\ work_key'[h][2] = Promise!System(type)
        /\ \A i \in 1 .. 2 : i # h => work_key'[i] = work_key[i]
    BY <2>1, <2>2 DEF KInv, WorkKeysFit
  <2>4. Bound' = [Bound EXCEPT ![h] = Promise!System(type)]
    <3>1. \A i \in 1 .. 2 :
            (IF work_key'[i] = None THEN None ELSE work_key'[i][2])
              = IF i = h THEN Promise!System(type)
                ELSE IF work_key[i] = None THEN None ELSE work_key[i][2]
      BY <2>1, <2>3
    <3>2. Bound' = [i \in 1 .. 2 |-> IF i = h THEN Promise!System(type) ELSE Bound[i]]
      BY <3>1 DEF Bound
    <3>3. [Bound EXCEPT ![h] = Promise!System(type)]
            = [i \in 1 .. 2 |-> IF i = h THEN Promise!System(type) ELSE Bound[i]]
      BY DEF Bound
    <3>4. QED
      BY <3>2, <3>3
  <2>5. QED
    BY <1>1, <1>2, <2>4, RefusalIsCode DEF Promise!Bind
<1>3. CASE Refusal(type) # "ok"
  <2>1. Bound' = Bound
    BY <1>3 DEF Crypt, Bound
  <2>2. QED
    BY <1>3, <2>1, RefusalIsCode DEF Promise!Bind
<1>4. QED
  BY <1>2, <1>3

LEMMA InitPromise == Init => Promise!PInit
<1> SUFFICES ASSUME Init PROVE Promise!PInit
  OBVIOUS
<1>1. Bound = <<None, None>>
  BY DEF Init, Bound
<1>2. QED
  BY <1>1, Multi2Assumption DEF Init, Promise!PInit, Quiet, Promise!Quiet

LEMMA SettingPromise ==
  ASSUME KInv,
         \/ AddRef \/ Release \/ ClearScrambleKey
         \/ \E r \in Rounds : SetRound(r)
         \/ \E s \in SystemKeys : SetSystemKey(s)
         \/ \E v \in IVs : SetInitCbc(v)
         \/ \E k \in DataKeys \X DataKeys : SetScrambleKey(k)
  PROVE  Promise!PNext
<1>1. ref \in Int /\ ref - 1 \in ref - 1 .. ref + 1 /\ ref \in ref - 1 .. ref + 1
      /\ ref + 1 \in ref - 1 .. ref + 1 /\ round \in Rounds
  BY Multi2Assumption DEF KInv, TypeOK
<1>2. CASE \/ AddRef \/ Release
           \/ \E r \in Rounds : SetRound(r)
           \/ \E s \in SystemKeys : SetSystemKey(s)
           \/ \E v \in IVs : SetInitCbc(v)
  <2>1. /\ last' = Quiet("set") /\ data_key' = data_key /\ ref' \in ref - 1 .. ref + 1
        /\ system_key' \in SystemKeys \cup {system_key} /\ iv' \in IVs \cup {iv}
        /\ round' \in Rounds
    BY <1>1, <1>2 DEF AddRef, Release, SetRound, SetSystemKey, SetInitCbc, Setting, keys
  <2>2. Bound' = Bound
    BY <1>2 DEF AddRef, Release, SetRound, SetSystemKey, SetInitCbc, keys, Bound
  <2>3. Promise!PSet
    BY <2>1, <2>2 DEF Promise!PSet, Quiet, Promise!Quiet
  <2>4. QED
    BY <2>3 DEF Promise!PNext
<1>3. CASE ClearScrambleKey
  <2>1. Bound' = <<None, None>>
    BY <1>3 DEF ClearScrambleKey, Bound
  <2>2. QED
    BY <1>3, <2>1
    DEF ClearScrambleKey, Called, Quiet, Promise!PNext, Promise!PClear, Promise!Quiet
<1>4. CASE \E k \in DataKeys \X DataKeys : SetScrambleKey(k)
  <2>1. PICK k \in DataKeys \X DataKeys : SetScrambleKey(k)
    BY <1>4
  <2>2. Bound' = [i \in 1 .. 2 |-> IF k[i] = data_key[i] THEN Bound[i] ELSE None]
    BY <2>1 DEF SetScrambleKey, Bound
  <2>3. Promise!PSetKeys(k)
    BY <2>1, <2>2 DEF SetScrambleKey, Called, Quiet, Promise!PSetKeys, Promise!Quiet
  <2>4. QED
    BY <2>3 DEF Promise!PNext
<1>5. QED
  BY <1>2, <1>3, <1>4

LEMMA EncryptPromise ==
  ASSUME KInv, NEW type \in 2 .. 3, NEW p \in PlainPayloads, Encrypt(type, p)
  PROVE  Promise!PNext
<1>1. /\ last'.op = "encrypt" /\ last'.type = type /\ last'.code = Refusal(type)
      /\ last'.in = p
      /\ ref' = ref /\ round' = round /\ system_key' = system_key /\ iv' = iv
      /\ data_key' = data_key
  BY DEF Encrypt, Crypt
<1>2. Promise!Bind(type)
  BY CryptBinds DEF Encrypt
<1>3. Promise!PEncrypt(type)
  BY <1>1, <1>2, RefusalIsCode DEF Promise!PEncrypt
<1>4. QED
  BY <1>3 DEF Promise!PNext

LEMMA DecryptPromise ==
  ASSUME KInv, NEW type \in 2 .. 3, NEW p \in Payloads \cup {last.out},
         p \in Ciphertexts, Decrypt(type, p)
  PROVE  Promise!PNext
<1>1. PICK result : result = DecryptCbcOfb(build, p, iv, CipherKey(type))
  OBVIOUS
<1>2. /\ last'.op = "decrypt" /\ last'.type = type /\ last'.code = Refusal(type)
      /\ last'.in = p /\ last'.out = IF Refusal(type) = "ok" THEN result ELSE p
      /\ ref' = ref /\ round' = round /\ system_key' = system_key /\ iv' = iv
      /\ data_key' = data_key
  BY <1>1 DEF Decrypt, Crypt
<1>3. ASSUME Refusal(type) = "ok"
      PROVE  result = Promise!Plain(p, iv, Promise!Key(type))
  <2>1. CipherKey(type) = Promise!Key(type)
    BY <1>3, CipherKeyIs
  <2>2. build \in Builds
    BY DEF KInv, TypeOK
  <2>3. QED
    BY <1>1, <2>1, <2>2, CiphertextsArePayloads, BuildsComputeCbc
<1>4. Promise!Bind(type)
  BY CryptBinds DEF Decrypt
<1>5. Promise!PDecrypt(type)
  BY <1>2, <1>3, <1>4, RefusalIsCode DEF Promise!PDecrypt
<1>6. QED
  BY <1>5 DEF Promise!PNext

----------------------------------------------------------------------------
\* What encrypt() leaves is a ciphertext.
LEMMA LastIsCiphertext ==
  ASSUME KInv, last.op = "encrypt"
  PROVE  last.out \in Ciphertexts
<1>1. CASE last.code = "ok"
  <2>1. /\ last.in \in PlainPayloads /\ Refusal(last.type) = "ok"
        /\ last.out = EncryptCbcOfb(last.in, iv, CipherKey(last.type))
    BY <1>1 DEF KInv, LastEncrypted
  <2>2. iv \in IVs /\ CipherKey(last.type) \in KeyTriples
    BY <2>1, CipherKeyIs
  <2>3. QED
    BY <2>1, <2>2 DEF Ciphertexts
<1>2. CASE last.code # "ok"
  BY <1>2 DEF KInv, LastEncrypted, Ciphertexts
<1>3. QED
  BY <1>1, <1>2

\* The actions of Next by what they are about.
LEMMA NextIs ==
  ASSUME Next
  PROVE  \/ \/ AddRef \/ Release \/ ClearScrambleKey
            \/ \E r \in Rounds : SetRound(r)
            \/ \E s \in SystemKeys : SetSystemKey(s)
            \/ \E v \in IVs : SetInitCbc(v)
            \/ \E k \in DataKeys \X DataKeys : SetScrambleKey(k)
         \/ \E type \in 2 .. 3, p \in PlainPayloads : Encrypt(type, p)
         \/ \E type \in 2 .. 3, p \in Payloads \cup {last.out} :
              /\ p \in Payloads \/ last.op = "encrypt"
              /\ Decrypt(type, p)
  BY DEF Next

LEMMA NextKInv == KInv /\ [Next]_vars => KInv'
<1> SUFFICES ASSUME KInv, [Next]_vars PROVE KInv'
  OBVIOUS
<1>1. CASE UNCHANGED vars
  BY <1>1 DEF vars, keys, KInv, TypeOK, WorkKeysFit, LastEncrypted, Refusal, CipherKey,
             WorkKey, Schedule
<1>2. CASE \E type \in 2 .. 3, p \in PlainPayloads : Encrypt(type, p)
  <2>1. PICK type \in 2 .. 3, p \in PlainPayloads : Encrypt(type, p)
    BY <1>2
  <2>2. Crypt("encrypt", type, p, EncryptCbcOfb(p, iv, CipherKey(type)))
    BY <2>1 DEF Encrypt
  <2>3. QED
    BY <2>2, CryptKeepsKeys
<1>3. CASE \E type \in 2 .. 3, p \in Payloads \cup {last.out} : Decrypt(type, p)
  <2>1. PICK type \in 2 .. 3, p \in Payloads \cup {last.out} : Decrypt(type, p)
    BY <1>3
  <2>2. Crypt("decrypt", type, p, DecryptCbcOfb(build, p, iv, CipherKey(type)))
    BY <2>1 DEF Decrypt
  <2>3. QED
    BY <2>2, CryptKeepsKeys
<1>4. QED
  BY <1>1, <1>2, <1>3, NextIs, SettingKeepsKeys

LEMMA NextPromise ==
  ASSUME KInv, [Next]_vars
  PROVE  [Promise!PNext]_Promise!pvars
<1>1. CASE UNCHANGED vars
  BY <1>1 DEF vars, keys, Promise!pvars, Bound
<1>2. CASE \E type \in 2 .. 3, p \in PlainPayloads : Encrypt(type, p)
  BY <1>2, EncryptPromise
<1>3. CASE \E type \in 2 .. 3, p \in Payloads \cup {last.out} :
             (p \in Payloads \/ last.op = "encrypt") /\ Decrypt(type, p)
  <2>1. PICK type \in 2 .. 3, p \in Payloads \cup {last.out} :
           (p \in Payloads \/ last.op = "encrypt") /\ Decrypt(type, p)
    BY <1>3
  <2>2. p \in Ciphertexts
    BY <2>1, LastIsCiphertext DEF Ciphertexts
  <2>3. QED
    BY <2>1, <2>2, DecryptPromise
<1>4. QED
  BY <1>1, <1>2, <1>3, NextIs, SettingPromise

\* A work key never outlives the data key it was derived from, and what encrypt() made
\* was made with the key that is used next.
THEOREM KeysInvariantHolds == Spec => []KInv
  BY InitKInv, NextKInv, PTL DEF Spec

\* The variables have their types, and every work key that is kept is that of the data
\* key in its place and of some system key.
THEOREM Multi2TypeCorrect == Spec => []TypeOK
<1>1. KInv => TypeOK
  BY DEF KInv
<1>2. QED
  BY <1>1, KeysInvariantHolds, PTL

\* In any order of calls, decrypt() gives the plaintext for the data key set last and the
\* system key it was first used with, or says which key is missing.
THEOREM Multi2KeepsPromise == Spec => ImplementsPromise
<1>1. Init => Promise!PInit
  BY InitPromise
<1>2. KInv /\ [Next]_vars => [Promise!PNext]_Promise!pvars
  BY NextPromise
<1>3. QED
  BY <1>1, <1>2, KeysInvariantHolds, PTL DEF Spec, ImplementsPromise, Promise!PSpec

\* What encrypt() made, decrypt() turns back with the same type, although the keys may
\* have been derived for one of the calls and kept for the other.
THEOREM EncryptionIsUndone == Spec => RoundTrip
<1> DEFINE Undone ==
      /\ last.op = "encrypt" /\ last.code = "ok"
      /\ last'.op = "decrypt" /\ last'.type = last.type /\ last'.in = last.out
      => last'.code = "ok" /\ last'.out = last.in
<1>1. KInv /\ [Next]_vars => Undone
  <2> SUFFICES ASSUME KInv, Next,
                      last.op = "encrypt", last.code = "ok", last'.op = "decrypt",
                      last'.type = last.type, last'.in = last.out
               PROVE  last'.code = "ok" /\ last'.out = last.in
    BY DEF vars
  <2>1. PICK type, p : type \in 2 .. 3 /\ Decrypt(type, p)
    BY NextIs DEF AddRef, Release, ClearScrambleKey, SetRound, SetSystemKey, SetInitCbc,
                  SetScrambleKey, Setting, Quiet, Encrypt, Crypt
  <2>2. type = last.type /\ p = last.out
    BY <2>1 DEF Decrypt, Crypt
  <2>3. /\ last.in \in PlainPayloads /\ Refusal(type) = "ok"
        /\ last.out = EncryptCbcOfb(last.in, iv, CipherKey(type))
    BY <2>2 DEF KInv, LastEncrypted
  <2>4. DecryptCbcOfb(build, p, iv, CipherKey(type)) = last.in
    <3>1. IsPayload(last.in) /\ build \in Builds
      BY <2>3, Multi2Assumption DEF KInv, TypeOK
    <3>2. QED
      BY <2>2, <2>3, <3>1, BuildsUndoEncryption
  <2>5. last'.code = "ok" /\ last'.out = DecryptCbcOfb(build, p, iv, CipherKey(type))
    BY <2>1, <2>3 DEF Decrypt, Crypt
  <2>6. QED
    BY <2>4, <2>5
<1> HIDE DEF Undone
<1>2. Spec => [][Undone]_vars
  <2>1. KInv /\ [Next]_vars => [Undone]_vars
    BY <1>1
  <2>2. QED
    BY <2>1, KeysInvariantHolds, PTL DEF Spec
<1>3. QED
  BY <1>2 DEF Undone, RoundTrip

=============================================================================
