----------------------------- MODULE Multi2Cipher -----------------------------
(***************************************************************************)
(* multi2_cipher.h and the vector types it is instantiated with: a payload *)
(* is deciphered in batches of 1 to 15 blocks, each loaded into registers, *)
(* deciphered lane by lane, joined with the ciphertext of the block before *)
(* it and stored in place.  Which batches there are depends on the build   *)
(* and on the length of the payload.                                       *)
(*                                                                         *)
(* A word of memory is 32 bits.  What is joined by exclusive or is a set   *)
(* of terms, and joining is the symmetric difference.  The rounds of the   *)
(* cipher are not spelled out: encryption is an uninterpreted term that    *)
(* decryption with the same key undoes.  Bytes are reversed in every word  *)
(* at load and at store, which is left out.                                *)
(***************************************************************************)
EXTENDS Integers, Sequences

Xor(a, b) == (a \ b) \cup (b \ a)
XorBlock(a, b) == <<Xor(a[1], b[1]), Xor(a[2], b[2])>>

CipherEncrypt(b, key) == <<{<<"el", b, key>>}, {<<"er", b, key>>}>>

CipherDecrypt(b, key) ==
  IF \E t \in b[1] : t[1] = "el" /\ b = CipherEncrypt(t[2], key)
    THEN (CHOOSE t \in b[1] : TRUE)[2]
    ELSE <<{<<"dl", b, key>>}, {<<"dr", b, key>>}>>

----------------------------------------------------------------------------
\* Instructions on vectors of words, 128 bits at a time.
InHalf(i) == (i - 1) % 4
UnpackLo(a, b) ==
  [i \in DOMAIN a |-> LET j == i - InHalf(i) + InHalf(i) \div 2
                      IN  IF InHalf(i) % 2 = 0 THEN a[j] ELSE b[j]]
UnpackHi(a, b) ==
  [i \in DOMAIN a |-> LET j == i - InHalf(i) + InHalf(i) \div 2 + 2
                      IN  IF InHalf(i) % 2 = 0 THEN a[j] ELSE b[j]]
Permute(v, s) == [i \in DOMAIN v |-> v[s[i]]]
SwapMiddle(v) == [i \in DOMAIN v |-> v[i - InHalf(i) + <<0, 2, 1, 3>>[InHalf(i) + 1]]]
Words(w, p, n) == [i \in 1 .. n |-> w[p + i]]

\* A register pair left, right as lanes of one block each.
Lanes(left, right) == [i \in DOMAIN left |-> <<left[i], right[i]>>]

\* block<T>::load from word p on.
LoadVector(shape, w, p) ==
  CASE shape = "word" -> Lanes(Words(w, p, 1), Words(w, p + 1, 1))
    [] shape \in {"xmm", "ymm"} ->
         LET n == IF shape = "xmm" THEN 4 ELSE 8
             a0 == SwapMiddle(Words(w, p, n))
             a1 == SwapMiddle(Words(w, p + n, n))
         IN  Lanes(UnpackLo(a0, a1), UnpackHi(a0, a1))
    [] shape = "sse2" ->
         LET b0 == UnpackLo(Words(w, p, 4), Words(w, p + 4, 4))
             b1 == UnpackHi(Words(w, p, 4), Words(w, p + 4, 4))
         IN  Lanes(UnpackLo(b0, b1), UnpackHi(b0, b1))
    [] shape = "neon" ->
         Lanes([i \in 1 .. 4 |-> w[p + 2 * i - 1]], [i \in 1 .. 4 |-> w[p + 2 * i]])

\* block<T>::store, the words in the order of memory.
StoreVector(shape, lanes) ==
  LET left  == [i \in DOMAIN lanes |-> lanes[i][1]]
      right == [i \in DOMAIN lanes |-> lanes[i][2]]
  IN  CASE shape \in {"xmm", "ymm"} ->
             UnpackLo(SwapMiddle(left), SwapMiddle(right))
               \o UnpackHi(SwapMiddle(left), SwapMiddle(right))
        [] shape = "sse2" -> UnpackLo(left, right) \o UnpackHi(left, right)
        [] OTHER -> [j \in 1 .. 2 * Len(lanes) |-> lanes[(j + 1) \div 2][1 + ((j - 1) % 2)]]

\* Mutant: the lanes of SSE2 are taken to be in the order of SSSE3.
RotationOfSsse3 == [word |-> <<1>>, xmm |-> <<4, 3, 1, 2>>, sse2 |-> <<4, 3, 1, 2>>,
                    neon |-> <<4, 1, 2, 3>>, ymm |-> <<8, 7, 1, 2, 3, 4, 5, 6>>]

\* The lanes cbc_post_decrypt joins with: each lane's predecessor; the state
\* belongs into the first one.
Rotation == [word |-> <<1>>, xmm |-> <<4, 3, 1, 2>>, sse2 |-> <<4, 1, 2, 3>>,
             neon |-> <<4, 1, 2, 3>>, ymm |-> <<8, 7, 1, 2, 3, 4, 5, 6>>]

----------------------------------------------------------------------------
\* The types of a batch: vectors of a shape at these words; ymm2 and neon2<7>
\* have two vectors that overlap in one block.
Batches ==
  [word    |-> [shape |-> "word", at |-> <<0>>, bytes |-> 8],
   xmm     |-> [shape |-> "xmm", at |-> <<0>>, bytes |-> 32],
   sse2    |-> [shape |-> "sse2", at |-> <<0>>, bytes |-> 32],
   ymm     |-> [shape |-> "ymm", at |-> <<0>>, bytes |-> 64],
   ymm2    |-> [shape |-> "ymm", at |-> <<0, 14>>, bytes |-> 120],
   neon    |-> [shape |-> "neon", at |-> <<0>>, bytes |-> 32],
   neon2_7 |-> [shape |-> "neon", at |-> <<0, 6>>, bytes |-> 56],
   neon2_8 |-> [shape |-> "neon", at |-> <<0, 8>>, bytes |-> 64]]

Load(batch, w, p) ==
  [v \in DOMAIN batch.at |-> LoadVector(batch.shape, w, p + batch.at[v])]

\* What the lanes are joined with.  The first lane of the second vector of
\* ymm2 and neon2<7> is the overlapping block, whose result is not used.
Chain(batch, c, state) ==
  LET s == Rotation[batch.shape]
      first == [Permute(c[1], s) EXCEPT ![1] = state]
  IN  IF Len(batch.at) = 1 THEN <<first>>
      ELSE IF batch.shape = "ymm" THEN <<first, Permute(c[2], s)>>
      ELSE <<first, [i \in 1 .. 4 |-> IF i = 1 THEN c[1][4] ELSE c[2][i - 1]]>>

Overwrite(w, p, s) == [i \in DOMAIN w |-> IF i - p \in DOMAIN s THEN s[i - p] ELSE w[i]]

\* The four stores of ymm2, half a vector each.
StoreHalves(w, p, q, v) ==
  LET w1 == Overwrite(w, p, Words(v[1], 0, 8))
      w2 == Overwrite(w1, q, Words(v[2], 0, 8))
      w3 == Overwrite(w2, p + 8, Words(v[1], 8, 8))
  IN  Overwrite(w3, q + 8, Words(v[2], 8, 8))

\* Mutant: neon2 stores its vectors in the order of memory.
StoreInOrder(batch, w, p, v) ==
  IF Len(batch.at) = 1 THEN Overwrite(w, p, v[1])
  ELSE IF batch.shape = "ymm" THEN StoreHalves(w, p, p + batch.at[2], v)
  ELSE Overwrite(Overwrite(w, p, v[1]), p + batch.at[2], v[2])

\* The order of the stores decides which copy of the overlapping block stays.
Store(batch, w, p, v) ==
  IF Len(batch.at) = 1 THEN Overwrite(w, p, v[1])
  ELSE IF batch.shape = "ymm" THEN StoreHalves(w, p, p + batch.at[2], v)
  ELSE Overwrite(Overwrite(w, p + batch.at[2], v[2]), p, v[1])

\* decrypt_block<T>: run is the memory, the position and the CBC state.
DecryptBlock(run, kind, key) ==
  LET batch == Batches[kind]
      c == Load(batch, run.words, run.at)
      x == Chain(batch, c, run.state)
      p == [v \in DOMAIN batch.at |->
              [i \in DOMAIN c[v] |-> XorBlock(CipherDecrypt(c[v][i], key), x[v][i])]]
      last == c[Len(batch.at)]
  IN  [words |-> Store(batch, run.words, run.at,
                   [v \in DOMAIN batch.at |-> StoreVector(batch.shape, p[v])]),
       at |-> run.at + batch.bytes \div 4,
       state |-> last[Len(last)]]

----------------------------------------------------------------------------
Builds == {"avx2", "ssse3", "sse2", "neon", "plain"}

\* `if (block_size <= n)` and `while (block_size <= n)`: the batches so far and n.
Once(plan, kind) ==
  IF Batches[kind].bytes <= plan.n
    THEN [kinds |-> Append(plan.kinds, kind), n |-> plan.n - Batches[kind].bytes]
    ELSE plan
Repeated(plan, kind) ==
  [kinds |-> plan.kinds \o [i \in 1 .. plan.n \div Batches[kind].bytes |-> kind],
   n |-> plan.n % Batches[kind].bytes]

Vectors(build, n) ==
  LET none == [kinds |-> <<>>, n |-> n]
  IN  CASE build = "avx2" /\ n = 184 -> [kinds |-> <<"ymm2", "ymm">>, n |-> 0]
        [] build = "avx2" /\ n # 184 -> Once(Once(Once(none, "ymm2"), "ymm"), "xmm")
        [] build = "ssse3" -> Repeated(none, "xmm")
        [] build = "sse2" -> Repeated(none, "sse2")
        [] build = "neon" /\ n = 184 ->
               [kinds |-> <<"neon2_7", "neon2_8", "neon2_8">>, n |-> 0]
        [] build = "neon" /\ n # 184 -> Once(Repeated(none, "neon2_8"), "neon")
        [] build = "plain" -> none

Plan(build, n) == Repeated(Vectors(build, n), "word").kinds

\* A payload: whole words and the rest of less than a block.
IsPayload(p) ==
  /\ p = [size |-> p.size, words |-> p.words, rest |-> p.rest]
  /\ p.size \in Nat /\ p.words = [i \in 1 .. 2 * (p.size \div 8) |-> p.words[i]]

InitialState(iv) == <<{<<"iv", iv, 1>>}, {<<"iv", iv, 2>>}>>

\* The rest in OFB mode: the first bytes of the encrypted state.
JoinRest(payload, state, key) ==
  IF payload.size % 8 = 0 THEN payload.rest
  ELSE Xor(payload.rest, {<<"rest", CipherEncrypt(state, key), payload.size % 8>>})

\* Batch after batch.
DecryptAll(kinds, start, key) ==
  LET run[i \in 0 .. Len(kinds)] ==
        IF i = 0 THEN start ELSE DecryptBlock(run[i - 1], kinds[i], key)
  IN  run[Len(kinds)]

DecryptCbcOfb(build, payload, iv, key) ==
  LET start == [words |-> payload.words, at |-> 0, state |-> InitialState(iv)]
      run == DecryptAll(Plan(build, payload.size), start, key)
  IN  [payload EXCEPT !.words = run.words, !.rest = JoinRest(payload, run.state, key)]

\* encrypt_cbc_ofb is the same in every build: the state before and after each block.
EncryptedBlocks(payload, iv, key) ==
  LET c[i \in 0 .. payload.size \div 8] ==
        IF i = 0 THEN InitialState(iv)
        ELSE CipherEncrypt(
               XorBlock(<<payload.words[2 * i - 1], payload.words[2 * i]>>, c[i - 1]), key)
  IN  c

EncryptCbcOfb(payload, iv, key) ==
  LET c == EncryptedBlocks(payload, iv, key)
  IN  [payload EXCEPT
         !.words = [j \in DOMAIN @ |-> c[(j + 1) \div 2][1 + ((j - 1) % 2)]],
         !.rest = JoinRest(payload, c[payload.size \div 8], key)]
=============================================================================
