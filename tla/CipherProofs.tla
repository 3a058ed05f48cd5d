---------------------------- MODULE CipherProofs ----------------------------
(***************************************************************************)
(* Proofs about the computations of Algorithms that encipher: the modes of *)
(* operation over any block cipher that its inverse undoes, the sectors,   *)
(* areas and boot stages under the counter mode, the cipher of the         *)
(* cartridge bus with the secure area, and the sealed texts; for texts of  *)
(* every length.                                                           *)
(***************************************************************************)
EXTENDS AlgorithmsProofs

(* A number below sixteen is its four bits.                                *)
LEMMA FourBits ==
  ASSUME NEW a \in 0..15
  PROVE  /\ a = (a % 2) + (2 * ((a \div 2) % 2)) + (4 * ((a \div 4) % 2))
                 + (8 * ((a \div 8) % 2))
         /\ a % 2 \in 0..1 /\ (a \div 2) % 2 \in 0..1
         /\ (a \div 4) % 2 \in 0..1 /\ (a \div 8) % 2 \in 0..1
  OBVIOUS

(* Two nibbles, bit by bit.                                                *)
Bits(a, b, n) == ((a \div n) + (b \div n)) % 2

(* The table of the exclusive or is that of the sum of each two bits       *)
(* (Bytes).                                                                *)
LEMMA NibbleXorIs ==
  ASSUME NEW a \in 0..15, NEW b \in 0..15
  PROVE  NibbleXor[a][b] = Bits(a, b, 1) + (2 * Bits(a, b, 2)) + (4 * Bits(a, b, 4))
                             + (8 * Bits(a, b, 8))
  BY DEF NibbleXor, Bits

(* Each of them is a bit.                                                  *)
LEMMA BitsAre ==
  ASSUME NEW a \in 0..15, NEW b \in 0..15
  PROVE  /\ Bits(a, b, 1) \in 0..1 /\ Bits(a, b, 2) \in 0..1
         /\ Bits(a, b, 4) \in 0..1 /\ Bits(a, b, 8) \in 0..1
  BY DEF Bits

(* Four bits make a nibble, which has them again.                          *)
LEMMA BitsOf ==
  ASSUME NEW x \in 0..1, NEW y \in 0..1, NEW z \in 0..1, NEW t \in 0..1, NEW c,
         c = x + (2 * y) + (4 * z) + (8 * t)
  PROVE  /\ c \in 0..15 /\ c % 2 = x /\ (c \div 2) % 2 = y
         /\ (c \div 4) % 2 = z /\ (c \div 8) % 2 = t
  OBVIOUS

(* The exclusive or of nibbles does not mind their order, and a second     *)
(* time undoes the first.                                                  *)
LEMMA NibblesCancel ==
  ASSUME NEW a \in 0..15, NEW b \in 0..15
  PROVE  /\ NibbleXor[a][b] \in 0..15 /\ NibbleXor[a][b] = NibbleXor[b][a]
         /\ NibbleXor[NibbleXor[a][b]][b] = a
<1> DEFINE c == NibbleXor[a][b]
<1>1. c = Bits(a, b, 1) + (2 * Bits(a, b, 2)) + (4 * Bits(a, b, 4)) + (8 * Bits(a, b, 8))
  BY NibbleXorIs
<1>2. /\ c \in 0..15 /\ c % 2 = Bits(a, b, 1) /\ (c \div 2) % 2 = Bits(a, b, 2)
      /\ (c \div 4) % 2 = Bits(a, b, 4) /\ (c \div 8) % 2 = Bits(a, b, 8)
  BY <1>1, BitsAre, BitsOf
<1>3. c = NibbleXor[b][a]
  <2>1. /\ Bits(a, b, 1) = Bits(b, a, 1) /\ Bits(a, b, 2) = Bits(b, a, 2)
        /\ Bits(a, b, 4) = Bits(b, a, 4) /\ Bits(a, b, 8) = Bits(b, a, 8)
    BY DEF Bits
  <2> QED
    BY <1>1, <2>1, NibbleXorIs
<1> HIDE DEF c
<1>4. NibbleXor[c][b] = Bits(c, b, 1) + (2 * Bits(c, b, 2)) + (4 * Bits(c, b, 4))
                          + (8 * Bits(c, b, 8))
  BY <1>2, NibbleXorIs
<1>5. Bits(c, b, 1) = a % 2
  BY <1>2 DEF Bits
<1>6. Bits(c, b, 2) = (a \div 2) % 2
  BY <1>2 DEF Bits
<1>7. Bits(c, b, 4) = (a \div 4) % 2
  BY <1>2 DEF Bits
<1>8. Bits(c, b, 8) = (a \div 8) % 2
  BY <1>2 DEF Bits
<1>9. NibbleXor[c][b] = a
  BY <1>4, <1>5, <1>6, <1>7, <1>8, FourBits
<1> QED
  BY <1>2, <1>3, <1>9 DEF c

(* A byte is its two nibbles.                                              *)
LEMMA TwoNibbles ==
  ASSUME NEW x \in 0..15, NEW y \in 0..15, NEW c, c = (16 * x) + y
  PROVE  c \in Byte /\ c \div 16 = x /\ c % 16 = y
  BY DEF Byte

(* The same of bytes: what C's ^ does twice leaves nothing changed.        *)
LEMMA XorCancels ==
  ASSUME NEW a \in Byte, NEW b \in Byte
  PROVE  Xor(a, b) \in Byte /\ Xor(a, b) = Xor(b, a) /\ Xor(Xor(a, b), b) = a
<1> DEFINE a1 == a \div 16  a2 == a % 16  b1 == b \div 16  b2 == b % 16
           x == NibbleXor[a1][b1]
           y == NibbleXor[a2][b2]
           c == Xor(a, b)
<1>1. /\ a1 \in 0..15 /\ a2 \in 0..15 /\ a = (16 * a1) + a2
      /\ b1 \in 0..15 /\ b2 \in 0..15 /\ b = (16 * b1) + b2
  BY DEF Byte
<1>2. Xor(b, a) = (16 * NibbleXor[b1][a1]) + NibbleXor[b2][a2]
  BY DEF Xor
<1>3. c = (16 * x) + y
  BY DEF Xor
<1>4. Xor(c, b) = (16 * NibbleXor[c \div 16][b1]) + NibbleXor[c % 16][b2]
  BY DEF Xor
<1> HIDE DEF a1, a2, b1, b2, c
<1>5. /\ x \in 0..15 /\ x = NibbleXor[b1][a1] /\ NibbleXor[x][b1] = a1
      /\ y \in 0..15 /\ y = NibbleXor[b2][a2] /\ NibbleXor[y][b2] = a2
  BY <1>1, NibblesCancel
<1> HIDE DEF x, y
<1>6. c \in Byte /\ c \div 16 = x /\ c % 16 = y
  BY <1>3, <1>5, TwoNibbles
<1>7. Xor(b, a) = (16 * x) + y
  BY <1>2, <1>5
<1>8. Xor(c, b) = (16 * a1) + a2
  BY <1>4, <1>5, <1>6
<1> QED
  BY <1>1, <1>3, <1>6, <1>7, <1>8 DEF c

-----------------------------------------------------------------------------
(* A string of n bytes.                                                    *)
Str(v, n) == v \in Seq(Byte) /\ Len(v) = n

(* What a string of n bytes is made of.                                    *)
LEMMA StrIs ==
  ASSUME NEW v, NEW n, Str(v, n)
  PROVE  /\ n \in Nat /\ v \in Seq(Nat) /\ v \in Seq(Byte) /\ Len(v) = n
         /\ \A i \in 1..n : v[i] \in Byte
<1>1. v \in Seq(Byte) /\ Len(v) = n
  BY DEF Str
<1>2. n \in Nat
  BY <1>1
<1>3. \A i \in 1..n : v[i] \in Byte
  BY <1>1
<1>4. \A i \in 1..n : v[i] \in Nat
  BY <1>3 DEF Byte
<1>5. v \in Seq(Nat)
  BY <1>1, <1>4
<1> QED
  BY <1>1, <1>2, <1>3, <1>5

(* Two strings with the same bytes are the same string.                    *)
LEMMA StrEqual ==
  ASSUME NEW v, NEW w, NEW n, Str(v, n), Str(w, n), \A i \in 1..n : v[i] = w[i]
  PROVE  v = w
  BY DEF Str

(* A string given byte by byte.                                            *)
LEMMA StrMade ==
  ASSUME NEW n \in Nat, NEW e \in [1..n -> Byte], NEW v, v = <<>> \o e
  PROVE  Str(v, n) /\ \A i \in 1..n : v[i] = e[i]
<1>1. e \in Seq(Byte) /\ Len(e) = n
  OBVIOUS
<1>2. v = e
  BY <1>1
<1> QED
  BY <1>1, <1>2 DEF Str

(* The exclusive or of strings, byte by byte (u128_xor and the loops of    *)
(* aes.c).                                                                 *)
LEMMA XorAllIs ==
  ASSUME NEW v, NEW w, NEW n, Str(v, n), Str(w, n)
  PROVE  Str(XorAll(v, w), n) /\ \A i \in 1..n : XorAll(v, w)[i] = Xor(v[i], w[i])
<1> DEFINE e == [i \in 1..n |-> Xor(v[i], w[i])]
<1>1. n \in Nat /\ \A i \in 1..n : v[i] \in Byte /\ w[i] \in Byte
  BY StrIs
<1>2. e \in [1..n -> Byte]
  BY <1>1, XorCancels
<1>3. XorAll(v, w) = <<>> \o e
  BY DEF XorAll, Str
<1>4. \A i \in 1..n : e[i] = Xor(v[i], w[i])
  OBVIOUS
<1> HIDE DEF e
<1>5. Str(XorAll(v, w), n) /\ \A i \in 1..n : XorAll(v, w)[i] = e[i]
  BY <1>1, <1>2, <1>3, StrMade
<1> QED
  BY <1>4, <1>5

(* A second time undoes it.                                                *)
LEMMA XorAllTwice ==
  ASSUME NEW v, NEW w, NEW n, Str(v, n), Str(w, n)
  PROVE  XorAll(XorAll(v, w), w) = v /\ XorAll(w, XorAll(w, v)) = v
<1> DEFINE x == XorAll(v, w)
           y == XorAll(w, v)
<1>1. /\ Str(x, n) /\ \A i \in 1..n : x[i] = Xor(v[i], w[i])
      /\ Str(y, n) /\ \A i \in 1..n : y[i] = Xor(w[i], v[i])
  BY XorAllIs
<1> HIDE DEF x, y
<1>2. /\ Str(XorAll(x, w), n) /\ \A i \in 1..n : XorAll(x, w)[i] = Xor(x[i], w[i])
      /\ Str(XorAll(w, y), n) /\ \A i \in 1..n : XorAll(w, y)[i] = Xor(w[i], y[i])
  <2>1. Str(x, n) /\ Str(y, n)
    BY <1>1
  <2> QED
    BY <2>1, XorAllIs
<1>3. \A i \in 1..n : v[i] \in Byte /\ w[i] \in Byte
  BY StrIs
<1>4. \A i \in 1..n : XorAll(x, w)[i] = v[i] /\ XorAll(w, y)[i] = v[i]
  BY <1>1, <1>2, <1>3, XorCancels
<1> QED
  BY <1>2, <1>4, StrEqual DEF x, y

(* A string back to front (u128_swap).                                     *)
LEMMA BackwardsIs ==
  ASSUME NEW v, NEW n, Str(v, n)
  PROVE  Str(Backwards(v), n) /\ \A i \in 1..n : Backwards(v)[i] = v[(n + 1) - i]
<1> DEFINE e == [i \in 1..n |-> v[(n + 1) - i]]
<1>1. n \in Nat /\ \A i \in 1..n : v[i] \in Byte
  BY StrIs
<1>2. \A i \in 1..n : (n + 1) - i \in 1..n
  BY <1>1
<1>3. e \in [1..n -> Byte]
  BY <1>1, <1>2
<1>4. Backwards(v) = <<>> \o e
  BY DEF Backwards, Str
<1>5. \A i \in 1..n : e[i] = v[(n + 1) - i]
  OBVIOUS
<1> HIDE DEF e
<1>6. Str(Backwards(v), n) /\ \A i \in 1..n : Backwards(v)[i] = e[i]
  BY <1>1, <1>3, <1>4, StrMade
<1> QED
  BY <1>5, <1>6

(* Twice is the string itself.                                             *)
LEMMA BackwardsTwice ==
  ASSUME NEW v, NEW n, Str(v, n)
  PROVE  Backwards(Backwards(v)) = v
<1> DEFINE w == Backwards(v)
<1>1. Str(w, n) /\ \A i \in 1..n : w[i] = v[(n + 1) - i]
  BY BackwardsIs
<1> HIDE DEF w
<1>2. Str(Backwards(w), n) /\ \A i \in 1..n : Backwards(w)[i] = w[(n + 1) - i]
  BY <1>1, BackwardsIs
<1>3. \A i \in 1..n : (n + 1) - i \in 1..n /\ (n + 1) - ((n + 1) - i) = i
  BY StrIs
<1>4. \A i \in 1..n : Backwards(w)[i] = v[i]
  BY <1>1, <1>2, <1>3
<1> QED
  BY <1>2, <1>4, StrEqual DEF w

(* A part of a string.                                                     *)
LEMMA StrPart ==
  ASSUME NEW v, NEW n, NEW p \in Int, NEW q \in Int, Str(v, n), p >= 1, q >= p - 1,
         q <= n
  PROVE  /\ Str(SubSeq(v, p, q), (q - p) + 1)
         /\ \A i \in 1..((q - p) + 1) : SubSeq(v, p, q)[i] = v[(p - 1) + i]
<1>1. v \in Seq(Byte) /\ Len(v) = n
  BY DEF Str
<1>2. SubSeq(v, p, q) \in Seq(Byte)
  BY <1>1
<1>3. Len(SubSeq(v, p, q)) = (q - p) + 1
  BY <1>1
<1>4. \A i \in 1..((q - p) + 1) : SubSeq(v, p, q)[i] = v[(p - 1) + i]
  BY <1>1
<1> QED
  BY <1>2, <1>3, <1>4 DEF Str

(* x has the n bytes of v and then the m bytes of w.                       *)
Appended(x, v, w, n, m) ==
  /\ Str(x, n + m) /\ n \in Nat /\ m \in Nat
  /\ \A i \in 1..n : x[i] = v[i]
  /\ \A i \in 1..m : x[n + i] = w[i]

(* Strings joined.                                                         *)
LEMMA StrJoined ==
  ASSUME NEW v, NEW w, NEW n, NEW m, Str(v, n), Str(w, m)
  PROVE  Appended(v \o w, v, w, n, m)
<1>1. v \in Seq(Byte) /\ Len(v) = n /\ w \in Seq(Byte) /\ Len(w) = m
  BY DEF Str
<1>2. v \o w \in Seq(Byte)
  BY <1>1
<1>3. Len(v \o w) = n + m
  BY <1>1
<1>4. \A i \in 1..n : (v \o w)[i] = v[i]
  BY <1>1
<1>5. \A i \in 1..m : (v \o w)[n + i] = w[i]
  BY <1>1
<1>6. Str(v \o w, n + m) /\ n \in Nat /\ m \in Nat
  BY <1>1, <1>2, <1>3 DEF Str
<1> QED
  BY <1>4, <1>5, <1>6 DEF Appended

-----------------------------------------------------------------------------
(* Recursion over the numbers up to n.                                     *)
LEMMA UpTo ==
  ASSUME NEW n \in Nat, NEW T, 0 \in T, \A i \in 1..n : i - 1 \in T => i \in T
  PROVE  \A i \in 0..n : i \in T
<1> DEFINE rest == {i \in 0..n : i \notin T}
<1>1. ASSUME rest # {} PROVE FALSE
  <2>1. rest \in SUBSET Nat
    OBVIOUS
  <2> HIDE DEF rest
  <2>2. PICK x \in rest : \A y \in rest : x <= y
    BY <1>1, <2>1, LeastOne
  <2>3. x \in 0..n /\ x \notin T
    BY <2>2 DEF rest
  <2>4. x \in 1..n /\ x - 1 \in 0..n
    BY <2>3
  <2>5. x - 1 \in T
    <3>1. x - 1 \notin rest
      BY <2>1, <2>2, <2>4
    <3> QED
      BY <2>4, <3>1 DEF rest
  <2> QED
    BY <2>3, <2>4, <2>5
<1> QED
  BY <1>1

(* A function that is made step by step.                                   *)
Runs(f, n, a, step) == f[0] = a /\ \A i \in 1..n : f[i] = step[i][f[i - 1]]

(* There is one for any steps: so a loop that hands a state from turn to   *)
(* turn has its states.                                                    *)
LEMMA RunsExist ==
  ASSUME NEW n \in Nat, NEW S, NEW a \in S, NEW step \in [1..n -> [S -> S]]
  PROVE  \E f \in [0..n -> S] : Runs(f, n, a, step)
<1> DEFINE T == {h \in 0..n : \E f \in [0..h -> S] : Runs(f, h, a, step)}
<1>1. 0 \in T
  <2>1. [i \in 0..0 |-> a] \in [0..0 -> S]
    OBVIOUS
  <2>2. Runs([i \in 0..0 |-> a], 0, a, step)
    BY DEF Runs
  <2> QED
    BY <2>1, <2>2
<1>2. ASSUME NEW h \in 1..n, h - 1 \in T
      PROVE  h \in T
  <2>1. PICK f \in [0..(h - 1) -> S] : Runs(f, h - 1, a, step)
    BY <1>2
  <2> DEFINE g == [i \in 0..h |-> IF i = h THEN step[h][f[h - 1]] ELSE f[i]]
  <2>2. step[h][f[h - 1]] \in S
    <3>1. f[h - 1] \in S
      BY <2>1
    <3> QED
      BY <3>1
  <2>3. g \in [0..h -> S]
    BY <2>1, <2>2
  <2>4. g[0] = a
    BY <2>1 DEF Runs
  <2>5. ASSUME NEW i \in 1..h
        PROVE  g[i] = step[i][g[i - 1]]
    <3>1. CASE i = h
      BY <3>1
    <3>2. CASE i # h
      <4>1. i \in 1..(h - 1) /\ g[i] = f[i] /\ g[i - 1] = f[i - 1]
        BY <3>2
      <4> QED
        BY <2>1, <4>1 DEF Runs
    <3> QED
      BY <3>1, <3>2
  <2>6. Runs(g, h, a, step)
    BY <2>4, <2>5 DEF Runs
  <2> QED
    BY <2>3, <2>6
<1> HIDE DEF T
<1>3. \A i \in 0..n : i \in T
  BY <1>1, <1>2, UpTo
<1>4. n \in T
  BY <1>3
<1> QED
  BY <1>4 DEF T

(* Blocks one after the other.                                             *)
LEMMA JoinRuns ==
  ASSUME NEW N \in Nat, NEW f, \A n \in 1..N : Str(f[n], 16)
  PROVE  \E j \in [0..N -> Seq(Byte)] :
           /\ j[0] = <<>> /\ \A n \in 1..N : j[n] = j[n - 1] \o f[n]
           /\ Join(f, N) = j[N]
<1> DEFINE step == [i \in 1..N |-> [x \in Seq(Byte) |-> x \o f[i]]]
           joined[i \in 0..N] == IF i = 0 THEN <<>> ELSE joined[i - 1] \o f[i]
<1>1. N \in Nat /\ <<>> \in Seq(Byte)
  OBVIOUS
<1>2. ASSUME NEW i \in 1..N, NEW x \in Seq(Byte)
      PROVE  x \o f[i] \in Seq(Byte)
  BY StrIs
<1>3. step \in [1..N -> [Seq(Byte) -> Seq(Byte)]]
  BY <1>2
<1>4. PICK j \in [0..N -> Seq(Byte)] : Runs(j, N, <<>>, step)
  <2> HIDE DEF step
  <2> QED
    BY <1>1, <1>3, RunsExist
<1>5. ASSUME NEW i \in 1..N
      PROVE  j[i - 1] \in Seq(Byte) /\ j[i] = j[i - 1] \o f[i]
  <2>1. j[i - 1] \in Seq(Byte)
    BY <1>1
  <2>2. j[i] = step[i][j[i - 1]]
    BY <1>4 DEF Runs
  <2> QED
    BY <2>1, <2>2
<1>6. j[0] = <<>>
  BY <1>4 DEF Runs
<1> HIDE DEF step
<1>7. j = [i \in 0..N |-> IF i = 0 THEN <<>> ELSE j[i - 1] \o f[i]]
  <2> DEFINE g == [i \in 0..N |-> IF i = 0 THEN <<>> ELSE j[i - 1] \o f[i]]
  <2>1. ASSUME NEW i \in 0..N PROVE j[i] = g[i]
    <3>1. CASE i = 0
      BY <1>6, <3>1
    <3>2. CASE i # 0
      <4>1. i \in 1..N
        BY <1>1, <3>2
      <4> QED
        BY <1>5, <3>2, <4>1
    <3> QED
      BY <3>1, <3>2
  <2>2. j = [i \in 0..N |-> j[i]] /\ g = [i \in 0..N |-> g[i]]
    OBVIOUS
  <2> HIDE DEF g
  <2>3. j = g
    BY <2>1, <2>2
  <2> QED
    BY <2>3 DEF g
<1>8. joined = [i \in 0..N |-> IF i = 0 THEN <<>> ELSE joined[i - 1] \o f[i]]
  BY <1>7
<1>9. Join(f, N) = joined[N]
  BY DEF Join
<1> HIDE DEF joined
<1>10. ASSUME NEW i \in 1..N PROVE joined[i] = joined[i - 1] \o f[i]
  <2> DEFINE g == [y \in 0..N |-> IF y = 0 THEN <<>> ELSE joined[y - 1] \o f[y]]
  <2>1. i \in 0..N /\ i # 0
    BY <1>1
  <2>2. g[i] = joined[i - 1] \o f[i]
    BY <2>1
  <2>3. joined = g
    BY <1>8, Zenon
  <2> HIDE DEF g
  <2> QED
    BY <2>2, <2>3, Zenon
<1>11. joined[0] = <<>>
  <2> DEFINE g == [i \in 0..N |-> IF i = 0 THEN <<>> ELSE joined[i - 1] \o f[i]]
  <2>1. 0 \in 0..N
    BY <1>1
  <2>2. g[0] = <<>>
    BY <2>1
  <2>3. joined = g
    BY <1>8, Zenon
  <2> HIDE DEF g
  <2> QED
    BY <2>2, <2>3, Zenon
<1>12. \A i \in 0..N : joined[i] \in Seq(Byte)
  <2> DEFINE T == {i \in 0..N : joined[i] \in Seq(Byte)}
  <2>1. 0 \in T
    BY <1>1, <1>11
  <2>2. ASSUME NEW i \in 1..N, i - 1 \in T PROVE i \in T
    <3>1. joined[i - 1] \in Seq(Byte) /\ i \in 0..N
      BY <1>1, <2>2
    <3> QED
      BY <1>2, <1>10, <3>1
  <2> HIDE DEF T
  <2>3. \A i \in 0..N : i \in T
    BY <1>1, <2>1, <2>2, UpTo
  <2> QED
    BY <2>3 DEF T
<1>13. joined \in [0..N -> Seq(Byte)]
  BY <1>8, <1>12
<1> QED
  BY <1>9, <1>10, <1>11, <1>13

(* A block of a string, and a string of its blocks.                        *)
LEMMA BlockIs ==
  ASSUME NEW v, NEW m, NEW n \in Int, Str(v, m), n >= 1, 16 * n <= m
  PROVE  /\ Str(Block(v, n), 16)
         /\ \A i \in 1..16 : Block(v, n)[i] = v[(16 * (n - 1)) + i]
<1> DEFINE p == (16 * n) - 15
           q == 16 * n
<1>1. /\ p \in Int /\ q \in Int /\ p >= 1 /\ q >= p - 1 /\ q <= m
      /\ (q - p) + 1 = 16 /\ p - 1 = 16 * (n - 1)
  OBVIOUS
<1>2. Block(v, n) = SubSeq(v, p, q)
  BY DEF Block
<1> HIDE DEF p, q
<1>3. /\ Str(SubSeq(v, p, q), (q - p) + 1)
      /\ \A i \in 1..((q - p) + 1) : SubSeq(v, p, q)[i] = v[(p - 1) + i]
  BY <1>1, StrPart
<1> QED
  BY <1>1, <1>2, <1>3

(* Every place of whole blocks is one of a block's sixteen.                *)
LEMMA PlaceOf ==
  ASSUME NEW N \in Nat, NEW i \in 1..(16 * N)
  PROVE  \E n \in 1..N, h \in 1..16 : i = (16 * (n - 1)) + h
<1> DEFINE n == ((i - 1) \div 16) + 1
           h == ((i - 1) % 16) + 1
<1>1. n \in 1..N /\ h \in 1..16 /\ i = (16 * (n - 1)) + h
  OBVIOUS
<1> QED
  BY <1>1

(* Strings of the same blocks are the same.                                *)
LEMMA BlocksEqual ==
  ASSUME NEW v, NEW w, NEW N \in Nat, Str(v, 16 * N), Str(w, 16 * N),
         \A n \in 1..N : Block(v, n) = Block(w, n)
  PROVE  v = w
<1>1. ASSUME NEW i \in 1..(16 * N)
      PROVE  v[i] = w[i]
  <2>1. PICK n \in 1..N, h \in 1..16 : i = (16 * (n - 1)) + h
    BY PlaceOf
  <2>2. n \in Int /\ n >= 1 /\ 16 * n <= 16 * N
    OBVIOUS
  <2>3. Block(v, n)[h] = v[(16 * (n - 1)) + h] /\ Block(w, n)[h] = w[(16 * (n - 1)) + h]
    BY <2>2, BlockIs
  <2>4. Block(v, n) = Block(w, n)
    OBVIOUS
  <2> QED
    BY <2>1, <2>3, <2>4
<1> QED
  BY <1>1, StrEqual

(* Blocks that are joined are the blocks of what they make.                *)
LEMMA JoinIs ==
  ASSUME NEW N \in Nat, NEW f, \A n \in 1..N : Str(f[n], 16)
  PROVE  /\ Str(Join(f, N), 16 * N)
         /\ \A n \in 1..N : Block(Join(f, N), n) = f[n]
<1>1. PICK j \in [0..N -> Seq(Byte)] :
        /\ j[0] = <<>> /\ \A n \in 1..N : j[n] = j[n - 1] \o f[n]
        /\ Join(f, N) = j[N]
  BY JoinRuns
<1> DEFINE T == {m \in 0..N : /\ Str(j[m], 16 * m)
                              /\ \A n \in 1..m : Block(j[m], n) = f[n]}
<1>2. 0 \in T
  <2>1. Str(<<>>, 0)
    BY DEF Str
  <2> QED
    BY <1>1, <2>1
<1>3. ASSUME NEW m \in 1..N, m - 1 \in T
      PROVE  m \in T
  <2> DEFINE u == j[m - 1]
             l == 16 * (m - 1)
  <2>1. /\ Str(u, l) /\ \A n \in 1..(m - 1) : Block(u, n) = f[n]
        /\ Str(f[m], 16) /\ j[m] = u \o f[m]
    BY <1>1, <1>3
  <2>2. m \in 0..N /\ l \in Nat /\ l + 16 = 16 * m
    OBVIOUS
  <2> HIDE DEF u, l
  <2> DEFINE w == u \o f[m]
  <2>3. Appended(w, u, f[m], l, 16)
    BY <2>1, StrJoined
  <2> HIDE DEF w
  <2>4. Str(w, 16 * m) /\ \A i \in 1..l : w[i] = u[i]
    BY <2>2, <2>3 DEF Appended
  <2>5. \A i \in 1..16 : w[l + i] = f[m][i]
    BY <2>3 DEF Appended
  <2>6. ASSUME NEW n \in 1..m
        PROVE  Block(w, n) = f[n]
    <3>1. n \in Int /\ n >= 1 /\ 16 * n <= 16 * m
      OBVIOUS
    <3>2. Str(Block(w, n), 16) /\ \A i \in 1..16 : Block(w, n)[i] = w[(16 * (n - 1)) + i]
      BY <2>4, <3>1, BlockIs
    <3>3. CASE n = m
      <4>1. \A i \in 1..16 : Block(w, n)[i] = f[m][i]
        BY <2>5, <3>2, <3>3 DEF l
      <4> QED
        BY <2>1, <3>2, <3>3, <4>1, StrEqual
    <3>4. CASE n # m
      <4>1. n \in 1..(m - 1) /\ 16 * n <= l
        BY <3>4 DEF l
      <4>2. Str(Block(u, n), 16) /\ \A i \in 1..16 : Block(u, n)[i] = u[(16 * (n - 1)) + i]
        BY <2>1, <3>1, <4>1, BlockIs
      <4>3. ASSUME NEW i \in 1..16
            PROVE  Block(w, n)[i] = Block(u, n)[i]
        <5>1. (16 * (n - 1)) + i \in 1..l
          BY <4>1, <2>2
        <5> QED
          BY <2>4, <3>2, <4>2, <5>1
      <4>4. Block(w, n) = Block(u, n)
        BY <3>2, <4>2, <4>3, StrEqual
      <4> QED
        BY <2>1, <4>1, <4>4
    <3> QED
      BY <3>3, <3>4
  <2> QED
    BY <2>1, <2>2, <2>4, <2>6 DEF w
<1> HIDE DEF T
<1>4. \A m \in 0..N : m \in T
  BY <1>2, <1>3, UpTo
<1>5. N \in T
  BY <1>4
<1> QED
  BY <1>1, <1>5 DEF T

-----------------------------------------------------------------------------
(* The counter mode.                                                       *)

Contexts == [key : Blocks16, ctr : Blocks16]

(* A string of zeros.                                                      *)
LEMMA ZerosAre ==
  ASSUME NEW n \in Nat
  PROVE  Str(Zeros(n), n) /\ \A i \in 1..n : Zeros(n)[i] = 0
<1> DEFINE e == [i \in 1..n |-> 0]
<1>1. e \in [1..n -> Byte] /\ \A i \in 1..n : e[i] = 0
  BY DEF Byte
<1>2. Zeros(n) = <<>> \o e
  BY DEF Zeros
<1> HIDE DEF e
<1> QED
  BY <1>1, <1>2, StrMade

(* Turned around, a block is a block.                                      *)
LEMMA SwapIs ==
  ASSUME NEW v, v \in Blocks16
  PROVE  Backwards(v) \in Blocks16 /\ u128_swap(v) \in Blocks16
<1>1. Str(v, 16)
  BY DEF Str, Blocks16
<1>2. Str(Backwards(v), 16)
  BY <1>1, BackwardsIs
<1> QED
  BY <1>2 DEF u128_swap, Str, Blocks16

(* The counter with one added at its end (dsi_add_ctr).                    *)
LEMMA AddCtrIs ==
  ASSUME NEW ctx \in Contexts
  PROVE  /\ dsi_add_ctr(ctx) \in Contexts
         /\ dsi_add_ctr(ctx).key = ctx.key
         /\ \A i \in 1..16 : dsi_add_ctr(ctx).ctr[i] =
              IF \A j \in (i + 1)..16 : ctx.ctr[j] = 255
              THEN (ctx.ctr[i] + 1) % 256 ELSE ctx.ctr[i]
<1> DEFINE e == [i \in 1..16 |-> IF \A j \in (i + 1)..16 : ctx.ctr[j] = 255
                                THEN (ctx.ctr[i] + 1) % 256 ELSE ctx.ctr[i]]
           w == <<>> \o e
<1>1. Str(ctx.ctr, 16)
  BY DEF Contexts, Blocks16, Str
<1>2. ASSUME NEW i \in 1..16
      PROVE  e[i] \in Byte
  <2>1. ctx.ctr[i] \in Byte
    BY <1>1, StrIs
  <2>2. (ctx.ctr[i] + 1) % 256 \in Byte
    BY <2>1 DEF Byte
  <2> QED
    BY <2>1, <2>2
<1>3. e = [i \in 1..16 |-> e[i]]
  OBVIOUS
<1>4. \A i \in 1..16 : e[i] = IF \A j \in (i + 1)..16 : ctx.ctr[j] = 255
                             THEN (ctx.ctr[i] + 1) % 256 ELSE ctx.ctr[i]
  OBVIOUS
<1>5. dsi_add_ctr(ctx) = [ctx EXCEPT !.ctr = w]
  BY DEF dsi_add_ctr
<1> HIDE DEF e
<1>6. e \in [1..16 -> Byte]
  BY <1>2, <1>3
<1>7. Str(w, 16) /\ \A i \in 1..16 : w[i] = e[i]
  BY <1>6, StrMade
<1> HIDE DEF w
<1>8. w \in Blocks16
  BY <1>7 DEF Str, Blocks16
<1>9. dsi_add_ctr(ctx) \in Contexts /\ dsi_add_ctr(ctx).key = ctx.key
      /\ dsi_add_ctr(ctx).ctr = w
  BY <1>5, <1>8 DEF Contexts
<1> QED
  BY <1>4, <1>7, <1>9

(* The contexts of the blocks of a string, and the key stream of each.     *)
Counts(at, ctx, N) ==
  /\ at \in [0..N -> Contexts] /\ at[0] = ctx
  /\ \A n \in 1..N : at[n] = dsi_add_ctr(at[n - 1])

Streamed(at, input, n) ==
  XorAll(Backwards(Cipher(at[n - 1].key, at[n - 1].ctr)), Block(input, n))

(* They are determined by the first.                                       *)
LEMMA CountsOnce ==
  ASSUME NEW at, NEW bt, NEW ctx, NEW N \in Nat, Counts(at, ctx, N), Counts(bt, ctx, N)
  PROVE  at = bt
<1> DEFINE T == {n \in 0..N : at[n] = bt[n]}
<1>1. 0 \in T
  BY DEF Counts
<1>2. ASSUME NEW n \in 1..N, n - 1 \in T PROVE n \in T
  BY <1>2 DEF Counts
<1> HIDE DEF T
<1>3. \A n \in 0..N : n \in T
  BY <1>1, <1>2, UpTo
<1>4. \A n \in 0..N : at[n] = bt[n]
  BY <1>3 DEF T
<1>5. at \in [0..N -> Contexts] /\ bt \in [0..N -> Contexts]
  BY DEF Counts
<1> QED
  BY <1>4, <1>5

(* What a call of the counter mode writes under some such contexts.        *)
CtrRun(output, ctx, input, N) ==
  \E at : /\ Counts(at, ctx, N)
          /\ output = Join([n \in 1..N |-> Streamed(at, input, n)], N)

(* dsi_crypt_ctr writes that (twltool/dsi.c).                              *)
LEMMA CryptCtrIs ==
  ASSUME NEW ctx \in Contexts, NEW input, NEW N, N = Len(input) \div 16, N \in Nat
  PROVE  CtrRun(dsi_crypt_ctr(ctx, input).output, ctx, input, N)
<1> DEFINE M == Len(input) \div 16
<1> SUFFICES ASSUME M \in Nat
             PROVE  CtrRun(dsi_crypt_ctr(ctx, input).output, ctx, input, M)
  OBVIOUS
<1> HIDE DEF M
<1> DEFINE step == [n \in 1..M |-> [x \in Contexts |-> dsi_add_ctr(x)]]
           at[n \in 0..M] == IF n = 0 THEN ctx ELSE dsi_add_ctr(at[n - 1])
<1>1. M \in Nat /\ ctx \in Contexts
  OBVIOUS
<1>2. ASSUME NEW n \in 1..M, NEW x \in Contexts
      PROVE  dsi_add_ctr(x) \in Contexts
  BY AddCtrIs
<1>3. step \in [1..M -> [Contexts -> Contexts]]
  BY <1>2
<1>4. PICK j \in [0..M -> Contexts] : Runs(j, M, ctx, step)
  <2> HIDE DEF step
  <2> QED
    BY <1>1, <1>3, RunsExist
<1>5. ASSUME NEW n \in 1..M
      PROVE  j[n - 1] \in Contexts /\ j[n] = dsi_add_ctr(j[n - 1])
  <2>1. j[n - 1] \in Contexts
    BY <1>1
  <2>2. j[n] = step[n][j[n - 1]]
    BY <1>4 DEF Runs
  <2> QED
    BY <2>1, <2>2
<1>6. j[0] = ctx
  BY <1>4 DEF Runs
<1> HIDE DEF step
<1>7. j = [n \in 0..M |-> IF n = 0 THEN ctx ELSE dsi_add_ctr(j[n - 1])]
  <2> DEFINE g == [n \in 0..M |-> IF n = 0 THEN ctx ELSE dsi_add_ctr(j[n - 1])]
  <2>1. ASSUME NEW n \in 0..M PROVE j[n] = g[n]
    <3>1. CASE n = 0
      BY <1>6, <3>1
    <3>2. CASE n # 0
      <4>1. n \in 1..M
        BY <1>1, <3>2
      <4> QED
        BY <1>5, <3>2, <4>1
    <3> QED
      BY <3>1, <3>2
  <2>2. j = [n \in 0..M |-> j[n]] /\ g = [n \in 0..M |-> g[n]]
    OBVIOUS
  <2> HIDE DEF g
  <2>3. j = g
    BY <2>1, <2>2
  <2> QED
    BY <2>3 DEF g
<1>8. at = [n \in 0..M |-> IF n = 0 THEN ctx ELSE dsi_add_ctr(at[n - 1])]
  BY <1>7

<1> DEFINE o == [n \in 1..M |-> dsi_crypt_ctr_block(at[n - 1], Block(input, n)).output]
<1>20. dsi_crypt_ctr(ctx, input).output = Join(o, M)
  BY DEF dsi_crypt_ctr, M
<1> HIDE DEF at
<1>9. ASSUME NEW n \in 1..M PROVE at[n] = dsi_add_ctr(at[n - 1])
  <2> DEFINE g == [y \in 0..M |-> IF y = 0 THEN ctx ELSE dsi_add_ctr(at[y - 1])]
  <2>1. n \in 0..M /\ n # 0
    BY <1>1
  <2>2. g[n] = dsi_add_ctr(at[n - 1])
    BY <2>1
  <2>3. at = g
    BY <1>8, Zenon
  <2> HIDE DEF g
  <2> QED
    BY <2>2, <2>3, Zenon
<1>10. at[0] = ctx
  <2> DEFINE g == [n \in 0..M |-> IF n = 0 THEN ctx ELSE dsi_add_ctr(at[n - 1])]
  <2>1. 0 \in 0..M
    BY <1>1
  <2>2. g[0] = ctx
    BY <2>1
  <2>3. at = g
    BY <1>8, Zenon
  <2> HIDE DEF g
  <2> QED
    BY <2>2, <2>3, Zenon
<1>11. \A n \in 0..M : at[n] \in Contexts
  <2> DEFINE T == {n \in 0..M : at[n] \in Contexts}
  <2>1. 0 \in T
    BY <1>1, <1>10
  <2>2. ASSUME NEW n \in 1..M, n - 1 \in T PROVE n \in T
    <3>1. at[n - 1] \in Contexts /\ n \in 0..M
      BY <1>1, <2>2
    <3> QED
      BY <1>2, <1>9, <3>1
  <2> HIDE DEF T
  <2>3. \A n \in 0..M : n \in T
    BY <1>1, <2>1, <2>2, UpTo
  <2> QED
    BY <2>3 DEF T
<1>12. at \in [0..M -> Contexts]
  BY <1>8, <1>11
<1>13. Counts(at, ctx, M)
  BY <1>9, <1>10, <1>12 DEF Counts
<1>14. o = [n \in 1..M |-> Streamed(at, input, n)]
  BY DEF dsi_crypt_ctr_block, Streamed
<1> QED
  BY <1>13, <1>14, <1>20 DEF CtrRun

(* m bytes written over the n of v at place p.                             *)
Written(x, v, p, w, n, m) ==
  /\ Str(x, n)
  /\ \A i \in 1..n : x[i] = IF p < i /\ i <= p + m THEN w[i - p] ELSE v[i]

(* Over, byte by byte.                                                     *)
LEMMA StrOver ==
  ASSUME NEW v, NEW w, NEW n, NEW m, NEW p \in Int, Str(v, n), Str(w, m), p >= 0,
         p + m <= n
  PROVE  Written(Over(v, p, w), v, p, w, n, m)
<1> DEFINE x == Over(v, p, w)
<1>1. /\ v \in Seq(Nat) /\ w \in Seq(Nat) /\ Len(v) = n /\ Len(w) = m
      /\ n \in Nat /\ m \in Nat
  BY StrIs
<1>2. /\ x \in Seq(Nat) /\ Len(x) = Len(v)
      /\ \A i \in 1..Len(v) :
           x[i] = IF p < i /\ i <= p + Len(w) THEN w[i - p] ELSE v[i]
  <2>1. p \in Nat /\ p + Len(w) <= Len(v)
    BY <1>1
  <2> QED
    BY <1>1, <2>1, OverIs
<1> HIDE DEF x
<1>3. \A i \in 1..n : x[i] = IF p < i /\ i <= p + m THEN w[i - p] ELSE v[i]
  BY <1>1, <1>2
<1>4. Len(x) = n
  BY <1>1, <1>2
<1>5. ASSUME NEW i \in 1..n
      PROVE  x[i] \in Byte
  <2>1. v[i] \in Byte
    BY StrIs
  <2>2. CASE p < i /\ i <= p + m
    <3>1. i - p \in 1..m
      BY <1>1, <2>2
    <3>2. w[i - p] \in Byte
      BY <3>1, StrIs
    <3> QED
      BY <1>3, <2>2, <3>2
  <2>3. CASE ~(p < i /\ i <= p + m)
    BY <1>3, <2>1, <2>3
  <2> QED
    BY <2>2, <2>3
<1>6. x \in Seq(Byte)
  BY <1>2, <1>4, <1>5
<1>7. Str(x, n)
  BY <1>4, <1>6 DEF Str
<1> QED
  BY <1>3, <1>7 DEF Written, x

(* Under the key stream a block is a block,                                *)
LEMMA StreamedIs ==
  ASSUME CipherInverts, NEW at, NEW ctx, NEW N \in Nat, Counts(at, ctx, N),
         NEW input, NEW n \in 1..N, Str(Block(input, n), 16)
  PROVE  Str(Streamed(at, input, n), 16)
<1> DEFINE c == Cipher(at[n - 1].key, at[n - 1].ctr)
<1>1. at[n - 1] \in Contexts
  BY DEF Counts
<1>2. c \in Blocks16
  BY <1>1 DEF CipherInverts, Contexts
<1>3. Streamed(at, input, n) = XorAll(Backwards(c), Block(input, n))
  BY DEF Streamed
<1> HIDE DEF c
<1>4. Backwards(c) \in Blocks16
  BY <1>2, SwapIs
<1>5. Str(Backwards(c), 16)
  BY <1>4 DEF Str, Blocks16
<1> QED
  BY <1>3, <1>5, XorAllIs

(* and twice under it is itself.                                           *)
LEMMA StreamedTwice ==
  ASSUME CipherInverts, NEW at, NEW ctx, NEW N \in Nat, Counts(at, ctx, N),
         NEW input, NEW output, NEW n \in 1..N, Str(Block(input, n), 16),
         Block(output, n) = Streamed(at, input, n)
  PROVE  Streamed(at, output, n) = Block(input, n)
<1> DEFINE c == Cipher(at[n - 1].key, at[n - 1].ctr)
<1>1. at[n - 1] \in Contexts
  BY DEF Counts
<1>2. c \in Blocks16
  BY <1>1 DEF CipherInverts, Contexts
<1>3. Streamed(at, input, n) = XorAll(Backwards(c), Block(input, n))
  BY DEF Streamed
<1>4. Streamed(at, output, n) = XorAll(Backwards(c), Block(output, n))
  BY DEF Streamed
<1> HIDE DEF c
<1>5. Backwards(c) \in Blocks16
  BY <1>2, SwapIs
<1>6. Str(Backwards(c), 16)
  BY <1>5 DEF Str, Blocks16
<1>7. XorAll(Backwards(c), XorAll(Backwards(c), Block(input, n))) = Block(input, n)
  BY <1>6, XorAllTwice
<1> QED
  BY <1>3, <1>4, <1>7

(* What the counter mode writes, block by block.                           *)
LEMMA CtrBlocks ==
  ASSUME CipherInverts, NEW at, NEW ctx \in Contexts, NEW N \in Nat, Counts(at, ctx, N),
         NEW input, NEW L \in Int, Str(input, L), N = L \div 16
  PROVE  /\ Str(dsi_crypt_ctr(ctx, input).output, 16 * N)
         /\ \A n \in 1..N :
              Block(dsi_crypt_ctr(ctx, input).output, n) = Streamed(at, input, n)
<1> DEFINE f == [n \in 1..N |-> Streamed(at, input, n)]
<1>1. N = Len(input) \div 16 /\ L \in Nat
  BY DEF Str
<1>2. PICK bt : /\ Counts(bt, ctx, N)
                /\ dsi_crypt_ctr(ctx, input).output =
                      Join([n \in 1..N |-> Streamed(bt, input, n)], N)
  <2>1. CtrRun(dsi_crypt_ctr(ctx, input).output, ctx, input, N)
    BY <1>1, CryptCtrIs
  <2> QED
    BY <2>1 DEF CtrRun
<1>3. bt = at
  BY <1>2, CountsOnce
<1>4. dsi_crypt_ctr(ctx, input).output = Join(f, N)
  BY <1>2, <1>3
<1>5. \A n \in 1..N : f[n] = Streamed(at, input, n)
  OBVIOUS
<1> HIDE DEF f
<1>6. ASSUME NEW n \in 1..N
      PROVE  Str(f[n], 16)
  <2>1. n \in Int /\ n >= 1 /\ 16 * n <= L
    BY <1>1
  <2>2. Str(Block(input, n), 16)
    BY <2>1, BlockIs
  <2>3. Str(Streamed(at, input, n), 16)
    BY <2>2, StreamedIs
  <2> QED
    BY <1>5, <2>3
<1>7. Str(Join(f, N), 16 * N) /\ \A n \in 1..N : Block(Join(f, N), n) = f[n]
  BY <1>6, JoinIs
<1> QED
  BY <1>4, <1>5, <1>7

-----------------------------------------------------------------------------
(* An area of a cartridge: whole blocks, and what follows them.            *)

Area(x, text, at, N, L) ==
  /\ Str(x, L)
  /\ \A n \in 1..N : Block(x, n) = Streamed(at, text, n)
  /\ \A i \in ((16 * N) + 1)..L : x[i] = text[i]

(* The whole blocks at the start of a string are its blocks.               *)
LEMMA PartBlocks ==
  ASSUME NEW v, NEW L \in Int, NEW N \in Nat, Str(v, L), 16 * N <= L
  PROVE  /\ Str(SubSeq(v, 1, 16 * N), 16 * N)
         /\ \A n \in 1..N : Block(SubSeq(v, 1, 16 * N), n) = Block(v, n)
<1> DEFINE m == 16 * N
           w == SubSeq(v, 1, m)
<1>1. m \in Int /\ m >= 1 - 1 /\ m <= L /\ (m - 1) + 1 = m /\ 1 \in Int /\ 1 >= 1
  OBVIOUS
<1>2. Str(w, m) /\ \A i \in 1..m : w[i] = v[i]
  <2> HIDE DEF m
  <2>1. /\ Str(w, (m - 1) + 1)
        /\ \A i \in 1..((m - 1) + 1) : w[i] = v[(1 - 1) + i]
    BY <1>1, StrPart
  <2>2. \A i \in 1..m : (1 - 1) + i = i
    BY <1>1
  <2> QED
    BY <1>1, <2>1, <2>2
<1> HIDE DEF w
<1>3. ASSUME NEW n \in 1..N
      PROVE  Block(w, n) = Block(v, n)
  <2>1. n \in Int /\ n >= 1 /\ 16 * n <= m /\ 16 * n <= L
    BY DEF m
  <2>2. Str(Block(w, n), 16) /\ \A i \in 1..16 : Block(w, n)[i] = w[(16 * (n - 1)) + i]
    BY <1>2, <2>1, BlockIs
  <2>3. Str(Block(v, n), 16) /\ \A i \in 1..16 : Block(v, n)[i] = v[(16 * (n - 1)) + i]
    BY <2>1, BlockIs
  <2>4. ASSUME NEW i \in 1..16
        PROVE  Block(w, n)[i] = Block(v, n)[i]
    <3>1. (16 * (n - 1)) + i \in 1..m
      BY <2>1 DEF m
    <3> QED
      BY <1>2, <2>2, <2>3, <3>1
  <2> QED
    BY <2>2, <2>3, <2>4, StrEqual
<1> QED
  BY <1>2, <1>3 DEF m, w

(* decrypt_modcrypt_area leaves such an area (main.arm7.c).                *)
LEMMA ModcryptIs ==
  ASSUME CipherInverts, NEW at, NEW ctx \in Contexts, NEW N \in Nat, Counts(at, ctx, N),
         NEW text, NEW L \in Int, Str(text, L), N = L \div 16
  PROVE  Area(decrypt_modcrypt_area(ctx, text).output, text, at, N, L)
<1> DEFINE M == L \div 16
           m == 16 * M
           whole == SubSeq(text, 1, m)
           out == dsi_crypt_ctr(ctx, whole).output
           x == Over(text, 0, out)
<1>1. Len(text) = L /\ L \in Nat /\ M = N
  BY StrIs
<1>2. decrypt_modcrypt_area(ctx, text).output = x
  <2>1. decrypt_modcrypt_area(ctx, text).output =
          Over(text, 0, dsi_crypt_ctr(ctx,
            SubSeq(text, 1, 16 * (Len(text) \div 16))).output)
    BY DEF decrypt_modcrypt_area
  <2> QED
    BY <1>1, <2>1
<1>3. m \in Int /\ m \div 16 = M /\ m <= L /\ M \in Nat /\ m = 16 * M
  BY <1>1
<1>4. Str(whole, m) /\ \A n \in 1..M : Block(whole, n) = Block(text, n)
  <2> HIDE DEF M
  <2> QED
    BY <1>3, PartBlocks
<1>5. Counts(at, ctx, M)
  BY <1>1
<1> HIDE DEF M, m, whole, out
<1>6. Str(out, 16 * M) /\ \A n \in 1..M : Block(out, n) = Streamed(at, whole, n)
  <2>1. M = m \div 16
    BY <1>3
  <2> QED
    BY <1>3, <1>4, <1>5, <2>1, CtrBlocks DEF out
<1>7. Written(x, text, 0, out, L, m)
  <2>1. 0 \in Int /\ 0 >= 0 /\ 0 + m <= L /\ Str(out, m)
    BY <1>3, <1>6
  <2> QED
    BY <2>1, StrOver
<1> HIDE DEF x
<1>8. Str(x, L) /\ \A i \in 1..L : x[i] = IF i <= m THEN out[i] ELSE text[i]
  <2>1. Str(x, L) /\ \A i \in 1..L :
          x[i] = IF 0 < i /\ i <= 0 + m THEN out[i - 0] ELSE text[i]
    BY <1>7 DEF Written
  <2>2. \A i \in 1..L : 0 < i /\ i - 0 = i /\ 0 + m = m
    BY <1>3
  <2> QED
    BY <2>1, <2>2
<1>9. ASSUME NEW n \in 1..M
      PROVE  Block(x, n) = Streamed(at, text, n)
  <2>1. n \in Int /\ n >= 1 /\ 16 * n <= m /\ 16 * n <= L
    BY <1>3
  <2>2. Str(Block(x, n), 16) /\ \A i \in 1..16 : Block(x, n)[i] = x[(16 * (n - 1)) + i]
    BY <1>8, <2>1, BlockIs
  <2>3. Str(out, m)
    BY <1>3, <1>6
  <2>4. /\ Str(Block(out, n), 16)
        /\ \A i \in 1..16 : Block(out, n)[i] = out[(16 * (n - 1)) + i]
    BY <2>1, <2>3, BlockIs
  <2>5. ASSUME NEW i \in 1..16
        PROVE  Block(x, n)[i] = Block(out, n)[i]
    <3>1. (16 * (n - 1)) + i \in 1..L /\ (16 * (n - 1)) + i <= m
      BY <1>3, <2>1
    <3> QED
      BY <1>8, <2>2, <2>4, <3>1
  <2>6. Block(x, n) = Block(out, n)
    BY <2>2, <2>4, <2>5, StrEqual
  <2>7. Streamed(at, whole, n) = Streamed(at, text, n)
    BY <1>4 DEF Streamed
  <2> QED
    BY <1>6, <2>6, <2>7
<1>10. ASSUME NEW i \in ((16 * M) + 1)..L
       PROVE  x[i] = text[i]
  <2>1. i \in 1..L /\ ~(i <= m)
    BY <1>3
  <2> QED
    BY <1>8, <2>1
<1>11. Area(x, text, at, M, L)
  BY <1>8, <1>9, <1>10 DEF Area
<1>12. Area(x, text, at, N, L)
  BY <1>1, <1>11
<1> QED
  BY <1>2, <1>12

(* An area that goes twice through the same key stream is what it was.     *)
LEMMA AreaTwice ==
  ASSUME CipherInverts, NEW at, NEW ctx, NEW N \in Nat, Counts(at, ctx, N),
         NEW text, NEW x, NEW y, NEW L \in Int, Str(text, L), 16 * N <= L,
         Area(x, text, at, N, L), Area(y, x, at, N, L)
  PROVE  y = text
<1>1. /\ Str(x, L) /\ Str(y, L)
      /\ \A i \in ((16 * N) + 1)..L : x[i] = text[i] /\ y[i] = x[i]
      /\ \A n \in 1..N : Block(x, n) = Streamed(at, text, n)
      /\ \A n \in 1..N : Block(y, n) = Streamed(at, x, n)
  BY DEF Area
<1>2. ASSUME NEW n \in 1..N
      PROVE  Block(y, n) = Block(text, n)
  <2>1. n \in Int /\ n >= 1 /\ 16 * n <= L
    OBVIOUS
  <2>2. Str(Block(text, n), 16)
    BY <2>1, BlockIs
  <2>3. Block(x, n) = Streamed(at, text, n) /\ Block(y, n) = Streamed(at, x, n)
    BY <1>1
  <2>4. Streamed(at, x, n) = Block(text, n)
    BY <2>2, <2>3, StreamedTwice
  <2> QED
    BY <2>3, <2>4
<1>3. ASSUME NEW i \in 1..L
      PROVE  y[i] = text[i]
  <2>1. CASE i <= 16 * N
    <3>1. i \in 1..(16 * N)
      BY <2>1
    <3>2. PICK n \in 1..N, h \in 1..16 : i = (16 * (n - 1)) + h
      BY <3>1, PlaceOf
    <3>3. n \in Int /\ n >= 1 /\ 16 * n <= L
      OBVIOUS
    <3>4. /\ \A j \in 1..16 : Block(y, n)[j] = y[(16 * (n - 1)) + j]
          /\ \A j \in 1..16 : Block(text, n)[j] = text[(16 * (n - 1)) + j]
      BY <1>1, <3>3, BlockIs
    <3>5. Block(y, n) = Block(text, n)
      BY <1>2
    <3> QED
      BY <3>2, <3>4, <3>5
  <2>2. CASE ~(i <= 16 * N)
    <3>1. i \in ((16 * N) + 1)..L
      BY <2>2
    <3> QED
      BY <1>1, <3>1
  <2> QED
    BY <2>1, <2>2
<1> QED
  BY <1>1, <1>3, StrEqual

-----------------------------------------------------------------------------
(* Sums, byte by byte.                                                     *)

(* x is the sum of v and w, and c what is carried.                         *)
SumOf(x, v, w, n, c) ==
  /\ Str(x, n)
  /\ c \in [0..n -> 0..1] /\ c[0] = 0
  /\ \A i \in 1..n : x[i] + (256 * c[i]) = v[i] + w[i] + c[i - 1]

(* One byte of a sum, and the carry.                                       *)
LEMMA Carries ==
  ASSUME NEW a \in Byte, NEW b \in Byte, NEW c \in 0..1
  PROVE  /\ (a + b + c) \div 256 \in 0..1 /\ (a + b + c) % 256 \in Byte
         /\ ((a + b + c) % 256) + (256 * ((a + b + c) \div 256)) = a + b + c
  BY DEF Byte

(* u128_add makes a sum (u128_math.c).                                     *)
LEMMA SumExists ==
  ASSUME NEW v, NEW w, NEW n, Str(v, n), Str(w, n)
  PROVE  \E c : SumOf(u128_add(v, w), v, w, n, c)
<1> DEFINE N == Len(v)
<1>20. Len(v) = n /\ n \in Nat /\ \A i \in 1..n : v[i] \in Byte /\ w[i] \in Byte
  BY StrIs
<1> SUFFICES ASSUME N = n, N \in Nat, \A i \in 1..N : v[i] \in Byte /\ w[i] \in Byte
             PROVE  \E c : SumOf(u128_add(v, w), v, w, N, c)
  BY <1>20
<1> HIDE DEF N
<1> DEFINE step == [i \in 1..N |-> [x \in 0..1 |-> (v[i] + w[i] + x) \div 256]]
           carry[i \in 0..N] == IF i = 0 THEN 0 ELSE (v[i] + w[i] + carry[i - 1]) \div 256
<1>1. N \in Nat /\ 0 \in 0..1
  OBVIOUS
<1>2. ASSUME NEW i \in 1..N, NEW x \in 0..1
      PROVE  (v[i] + w[i] + x) \div 256 \in 0..1
  BY Carries
<1>3. step \in [1..N -> [0..1 -> 0..1]]
  BY <1>2
<1>4. PICK j \in [0..N -> 0..1] : Runs(j, N, 0, step)
  <2> HIDE DEF step
  <2> QED
    BY <1>1, <1>3, RunsExist
<1>5. ASSUME NEW i \in 1..N
      PROVE  j[i - 1] \in 0..1 /\ j[i] = (v[i] + w[i] + j[i - 1]) \div 256
  <2>1. j[i - 1] \in 0..1
    BY <1>1
  <2>2. j[i] = step[i][j[i - 1]]
    BY <1>4 DEF Runs
  <2> QED
    BY <2>1, <2>2
<1>6. j[0] = 0
  BY <1>4 DEF Runs
<1> HIDE DEF step
<1>7. j = [i \in 0..N |-> IF i = 0 THEN 0 ELSE (v[i] + w[i] + j[i - 1]) \div 256]
  <2> DEFINE g == [i \in 0..N |-> IF i = 0 THEN 0 ELSE (v[i] + w[i] + j[i - 1]) \div 256]
  <2>1. ASSUME NEW i \in 0..N PROVE j[i] = g[i]
    <3>1. CASE i = 0
      BY <1>6, <3>1
    <3>2. CASE i # 0
      <4>1. i \in 1..N
        BY <1>1, <3>2
      <4> QED
        BY <1>5, <3>2, <4>1
    <3> QED
      BY <3>1, <3>2
  <2>2. j = [i \in 0..N |-> j[i]] /\ g = [i \in 0..N |-> g[i]]
    OBVIOUS
  <2> HIDE DEF g
  <2>3. j = g
    BY <2>1, <2>2
  <2> QED
    BY <2>3 DEF g
<1>8. carry = [i \in 0..N |-> IF i = 0 THEN 0 ELSE (v[i] + w[i] + carry[i - 1]) \div 256]
  BY <1>7, SMTT(30)

<1> DEFINE e == [i \in 1..N |-> (v[i] + w[i] + carry[i - 1]) % 256]
<1>21. u128_add(v, w) = <<>> \o e
  BY DEF u128_add, N
<1>22. \A i \in 1..N : e[i] = (v[i] + w[i] + carry[i - 1]) % 256
  OBVIOUS
<1>23. e = [i \in 1..N |-> e[i]]
  OBVIOUS
<1> HIDE DEF carry, e
<1>9. ASSUME NEW i \in 1..N PROVE carry[i] = (v[i] + w[i] + carry[i - 1]) \div 256
  <2> DEFINE g == [y \in 0..N |-> IF y = 0 THEN 0 ELSE (v[y] + w[y] + carry[y - 1]) \div 256]
  <2>1. i \in 0..N /\ i # 0
    BY <1>1
  <2>2. g[i] = (v[i] + w[i] + carry[i - 1]) \div 256
    BY <2>1
  <2>3. carry = g
    BY <1>8, Zenon
  <2> HIDE DEF g
  <2> QED
    BY <2>2, <2>3, Zenon
<1>10. carry[0] = 0
  <2> DEFINE g == [i \in 0..N |-> IF i = 0 THEN 0 ELSE (v[i] + w[i] + carry[i - 1]) \div 256]
  <2>1. 0 \in 0..N
    BY <1>1
  <2>2. g[0] = 0
    BY <2>1
  <2>3. carry = g
    BY <1>8, Zenon
  <2> HIDE DEF g
  <2> QED
    BY <2>2, <2>3, Zenon
<1>11. \A i \in 0..N : carry[i] \in 0..1
  <2> DEFINE T == {i \in 0..N : carry[i] \in 0..1}
  <2>1. 0 \in T
    BY <1>1, <1>10
  <2>2. ASSUME NEW i \in 1..N, i - 1 \in T PROVE i \in T
    <3>1. carry[i - 1] \in 0..1 /\ i \in 0..N
      BY <1>1, <2>2
    <3>2. v[i] \in Byte /\ w[i] \in Byte
      BY <1>2
    <3>3. carry[i] \in 0..1
      BY <1>9, <3>1, <3>2, Carries
    <3> QED
      BY <3>1, <3>3
  <2> HIDE DEF T
  <2>3. \A i \in 0..N : i \in T
    BY <1>1, <2>1, <2>2, UpTo
  <2> QED
    BY <2>3 DEF T
<1>12. carry \in [0..N -> 0..1]
  BY <1>8, <1>11
<1>13. ASSUME NEW i \in 1..N
       PROVE  /\ e[i] \in Byte
              /\ e[i] + (256 * carry[i]) = v[i] + w[i] + carry[i - 1]
  <2>1. carry[i - 1] \in 0..1
    BY <1>12
  <2>2. v[i] \in Byte /\ w[i] \in Byte
    OBVIOUS
  <2>3. /\ carry[i] = (v[i] + w[i] + carry[i - 1]) \div 256
        /\ e[i] = (v[i] + w[i] + carry[i - 1]) % 256
    BY <1>9, <1>22
  <2> QED
    BY <2>1, <2>2, <2>3, Carries
<1>14. e \in [1..N -> Byte]
  BY <1>13, <1>23
<1>15. Str(<<>> \o e, N) /\ \A i \in 1..N : (<<>> \o e)[i] = e[i]
  <2> DEFINE x == <<>> \o e
  <2>1. x = <<>> \o e
    OBVIOUS
  <2> HIDE DEF x
  <2>2. Str(x, N) /\ \A i \in 1..N : x[i] = e[i]
    BY <1>14, <2>1, StrMade
  <2> QED
    BY <2>2 DEF x
<1> DEFINE x == u128_add(v, w)
<1>16. Str(x, N) /\ \A i \in 1..N : x[i] = e[i]
  BY <1>15, <1>21
<1> HIDE DEF x
<1>17. SumOf(x, v, w, N, carry)
  BY <1>10, <1>12, <1>13, <1>16 DEF SumOf
<1> QED
  BY <1>17 DEF x

(* There is one sum.                                                       *)
LEMMA SumOnce ==
  ASSUME NEW x, NEW y, NEW v, NEW w, NEW n, NEW c, NEW d,
         SumOf(x, v, w, n, c), SumOf(y, v, w, n, d)
  PROVE  x = y
<1>1. /\ Str(x, n) /\ Str(y, n) /\ c[0] = 0 /\ d[0] = 0
      /\ \A i \in 0..n : c[i] \in 0..1 /\ d[i] \in 0..1
      /\ \A i \in 1..n : x[i] + (256 * c[i]) = v[i] + w[i] + c[i - 1]
      /\ \A i \in 1..n : y[i] + (256 * d[i]) = v[i] + w[i] + d[i - 1]
  BY DEF SumOf
<1>2. n \in Nat /\ \A i \in 1..n : x[i] \in Byte /\ y[i] \in Byte
  BY <1>1, StrIs
<1>3. ASSUME NEW i \in 1..n, c[i - 1] = d[i - 1]
      PROVE  c[i] = d[i] /\ x[i] = y[i]
  <2> DEFINE p == x[i]  q == y[i]  e == c[i]  f == d[i]
  <2>1. p + (256 * e) = q + (256 * f)
    BY <1>1, <1>3
  <2>2. e \in 0..1 /\ f \in 0..1 /\ p \in 0..255 /\ q \in 0..255
    BY <1>1, <1>2 DEF Byte
  <2>3. e = f /\ p = q
    <3> HIDE DEF p, q, e, f
    <3> QED
      BY <2>1, <2>2
  <2> QED
    BY <2>3
<1> DEFINE T == {i \in 0..n : c[i] = d[i]}
<1>4. \A i \in 0..n : i \in T
  <2>1. 0 \in T
    BY <1>1, <1>2
  <2>2. ASSUME NEW i \in 1..n, i - 1 \in T PROVE i \in T
    BY <1>2, <1>3, <2>2
  <2>3. n \in Nat
    BY <1>2
  <2> HIDE DEF T
  <2> QED
    BY <2>1, <2>2, <2>3, UpTo
<1>5. ASSUME NEW i \in 1..n
      PROVE  x[i] = y[i]
  <2>1. i - 1 \in 0..n
    BY <1>2
  <2>2. c[i - 1] = d[i - 1]
    BY <1>4, <2>1
  <2> QED
    BY <1>3, <2>2
<1> QED
  BY <1>1, <1>5, StrEqual

(* Sums of three do not mind which two are taken first.                    *)
LEMMA SumsAssociate ==
  ASSUME NEW v, NEW w, NEW x, NEW s, NEW t, NEW r, NEW u, NEW n,
         NEW c1, NEW c2, NEW c3, NEW c4,
         Str(v, n), Str(w, n), Str(x, n),
         SumOf(s, v, w, n, c1), SumOf(t, s, x, n, c2),
         SumOf(r, w, x, n, c3), SumOf(u, v, r, n, c4)
  PROVE  t = u
<1>1. /\ Str(s, n) /\ Str(t, n) /\ Str(r, n) /\ Str(u, n)
      /\ c1[0] = 0 /\ c2[0] = 0 /\ c3[0] = 0 /\ c4[0] = 0
      /\ \A i \in 0..n : c1[i] \in 0..1 /\ c2[i] \in 0..1 /\ c3[i] \in 0..1 /\ c4[i] \in 0..1
  BY DEF SumOf
<1>2. \A i \in 1..n : /\ s[i] + (256 * c1[i]) = v[i] + w[i] + c1[i - 1]
                      /\ t[i] + (256 * c2[i]) = s[i] + x[i] + c2[i - 1]
                      /\ r[i] + (256 * c3[i]) = w[i] + x[i] + c3[i - 1]
                      /\ u[i] + (256 * c4[i]) = v[i] + r[i] + c4[i - 1]
  BY DEF SumOf
<1>3. n \in Nat /\ \A i \in 1..n : s[i] \in Byte /\ t[i] \in Byte /\ r[i] \in Byte
        /\ u[i] \in Byte /\ v[i] \in Byte /\ w[i] \in Byte /\ x[i] \in Byte
  BY <1>1, StrIs
<1> DEFINE T == {i \in 0..n : c1[i] + c2[i] = c3[i] + c4[i]}
<1>4. ASSUME NEW i \in 1..n, c1[i - 1] + c2[i - 1] = c3[i - 1] + c4[i - 1]
      PROVE  c1[i] + c2[i] = c3[i] + c4[i] /\ t[i] = u[i]
  <2> DEFINE a1 == c1[i]  a2 == c2[i]  a3 == c3[i]  a4 == c4[i]
             b1 == c1[i - 1]  b2 == c2[i - 1]  b3 == c3[i - 1]  b4 == c4[i - 1]
             si == s[i]  ti == t[i]  ri == r[i]  ui == u[i]
             vi == v[i]  wi == w[i]  xi == x[i]
  <2>1. i \in 0..n /\ i - 1 \in 0..n
    BY <1>3
  <2>2. /\ a1 \in 0..1 /\ a2 \in 0..1 /\ a3 \in 0..1 /\ a4 \in 0..1
        /\ b1 \in 0..1 /\ b2 \in 0..1 /\ b3 \in 0..1 /\ b4 \in 0..1
    BY <1>1, <2>1
  <2>3. /\ si \in 0..255 /\ ti \in 0..255 /\ ri \in 0..255 /\ ui \in 0..255
        /\ vi \in 0..255 /\ wi \in 0..255 /\ xi \in 0..255
    BY <1>3 DEF Byte
  <2>4. /\ si + (256 * a1) = vi + wi + b1 /\ ti + (256 * a2) = si + xi + b2
        /\ ri + (256 * a3) = wi + xi + b3 /\ ui + (256 * a4) = vi + ri + b4
    BY <1>2
  <2>5. b1 + b2 = b3 + b4
    BY <1>4
  <2>6. a1 + a2 = a3 + a4 /\ ti = ui
    <3> HIDE DEF a1, a2, a3, a4, b1, b2, b3, b4, si, ti, ri, ui, vi, wi, xi
    <3> QED
      BY <2>2, <2>3, <2>4, <2>5
  <2> QED
    BY <2>6
<1>5. \A i \in 0..n : i \in T
  <2>1. 0 \in T
    BY <1>1, <1>3
  <2>2. ASSUME NEW i \in 1..n, i - 1 \in T PROVE i \in T
    BY <1>3, <1>4, <2>2
  <2>3. n \in Nat
    BY <1>3
  <2> HIDE DEF T
  <2> QED
    BY <2>1, <2>2, <2>3, UpTo
<1>6. ASSUME NEW i \in 1..n
      PROVE  t[i] = u[i]
  <2>1. i - 1 \in 0..n
    BY <1>3
  <2>2. c1[i - 1] + c2[i - 1] = c3[i - 1] + c4[i - 1]
    BY <1>5, <2>1
  <2> QED
    BY <1>4, <2>2
<1> QED
  BY <1>1, <1>6, StrEqual

(* A number of 32 bits among 128.                                          *)
Number(a) == Bytes32(a) \o Zeros(12)

(* The bytes of such a number (u128_add32).                                *)
LEMMA NumberIs ==
  ASSUME NEW a \in Nat
  PROVE  /\ Str(Number(a), 16)
         /\ Number(a)[1] = a % 256 /\ Number(a)[2] = (a \div 256) % 256
         /\ Number(a)[3] = (a \div 65536) % 256 /\ Number(a)[4] = (a \div 16777216) % 256
         /\ \A i \in 5..16 : Number(a)[i] = 0
<1> DEFINE b == Bytes32(a)
<1>1. /\ b[1] = a % 256 /\ b[2] = (a \div 256) % 256
      /\ b[3] = (a \div 65536) % 256 /\ b[4] = (a \div 16777216) % 256
  BY DEF Bytes32
<1>2. Str(b, 4)
  <2>1. a % 256 \in Byte /\ (a \div 256) % 256 \in Byte
        /\ (a \div 65536) % 256 \in Byte /\ (a \div 16777216) % 256 \in Byte
    BY DEF Byte
  <2>2. b \in Seq(Byte)
    BY <2>1 DEF Bytes32
  <2>3. Len(b) = 4
    BY DEF Bytes32
  <2> QED
    BY <2>2, <2>3 DEF Str
<1>3. Str(Zeros(12), 12) /\ \A i \in 1..12 : Zeros(12)[i] = 0
  BY ZerosAre
<1> HIDE DEF b
<1> DEFINE z == Zeros(12)
           x == b \o z
<1>4. Str(z, 12) /\ \A i \in 1..12 : z[i] = 0
  BY <1>3
<1> HIDE DEF z
<1>5. Appended(x, b, z, 4, 12)
  BY <1>2, <1>4, StrJoined
<1>6. Number(a) = x
  BY DEF Number, x, b, z
<1> HIDE DEF x
<1>7. Str(x, 16) /\ (\A i \in 1..4 : x[i] = b[i]) /\ \A i \in 1..12 : x[4 + i] = z[i]
  BY <1>5 DEF Appended
<1>8. ASSUME NEW i \in 5..16
      PROVE  x[i] = 0
  <2>1. i - 4 \in 1..12 /\ 4 + (i - 4) = i
    OBVIOUS
  <2> QED
    BY <1>4, <1>7, <2>1
<1> QED
  BY <1>1, <1>6, <1>7, <1>8

(* What u128_add32 adds is that number.                                    *)
LEMMA Add32Is ==
  ASSUME NEW v, NEW a, Str(v, 16)
  PROVE  u128_add32(v, a) = u128_add(v, Number(a))
<1>1. Len(v) - 4 = 12
  BY DEF Str
<1> QED
  BY <1>1 DEF u128_add32, Number

(* One byte of a number and of the next.                                   *)
LEMMA ByteOfNext ==
  ASSUME NEW q \in Nat, NEW r \in Nat, NEW e \in 0..1, r = q + e
  PROVE  /\ (r \div 256) - (q \div 256) \in 0..1
         /\ (r % 256) + (256 * ((r \div 256) - (q \div 256))) = (q % 256) + e
  OBVIOUS

(* Higher bytes from lower ones.                                           *)
LEMMA ShiftedUp ==
  ASSUME NEW a \in Nat
  PROVE  /\ a \div 65536 = (a \div 256) \div 256
         /\ a \div 16777216 = (a \div 65536) \div 256
  OBVIOUS

(* One more, below 2 to the 32.                                            *)
LEMMA NumberNext ==
  ASSUME NEW a \in Nat, a + 1 < 65536 * 65536
  PROVE  \E c : SumOf(Number(a + 1), Number(a), Number(1), 16, c)
<1> DEFINE q0 == a
           q1 == a \div 256
           q2 == a \div 65536
           q3 == a \div 16777216
           r0 == a + 1
           r1 == (a + 1) \div 256
           r2 == (a + 1) \div 65536
           r3 == (a + 1) \div 16777216
           c == [i \in 0..16 |-> CASE i = 0 -> 0
                                   [] i = 1 -> r1 - q1
                                   [] i = 2 -> r2 - q2
                                   [] i = 3 -> r3 - q3
                                   [] OTHER -> 0]
<1>1. /\ q0 \in Nat /\ q1 \in Nat /\ q2 \in Nat /\ q3 \in Nat /\ q1 = q0 \div 256
      /\ q2 = q1 \div 256 /\ q3 = q2 \div 256 /\ a \in Nat
  BY ShiftedUp
<1>2. /\ r0 \in Nat /\ r1 \in Nat /\ r2 \in Nat /\ r3 \in Nat /\ r1 = r0 \div 256
      /\ r2 = r1 \div 256 /\ r3 = r2 \div 256 /\ r0 = q0 + 1
  BY ShiftedUp
<1>3. r3 < 256 /\ q3 < 256
  OBVIOUS
<1>4. /\ Str(Number(a), 16) /\ Number(a)[1] = q0 % 256 /\ Number(a)[2] = q1 % 256
      /\ Number(a)[3] = q2 % 256 /\ Number(a)[4] = q3 % 256
      /\ \A i \in 5..16 : Number(a)[i] = 0
  BY NumberIs
<1>5. /\ Str(Number(a + 1), 16)
      /\ Number(a + 1)[1] = r0 % 256 /\ Number(a + 1)[2] = r1 % 256
      /\ Number(a + 1)[3] = r2 % 256 /\ Number(a + 1)[4] = r3 % 256
      /\ \A i \in 5..16 : Number(a + 1)[i] = 0
  <2> DEFINE b == a + 1
  <2>1. b \in Nat
    OBVIOUS
  <2>2. /\ Str(Number(b), 16)
        /\ Number(b)[1] = b % 256 /\ Number(b)[2] = (b \div 256) % 256
        /\ Number(b)[3] = (b \div 65536) % 256 /\ Number(b)[4] = (b \div 16777216) % 256
        /\ \A i \in 5..16 : Number(b)[i] = 0
    <3> HIDE DEF b
    <3> QED
      BY <2>1, NumberIs
  <2> QED
    BY <2>2
<1>6. Str(Number(1), 16) /\ Number(1)[1] = 1 /\ \A i \in 2..16 : Number(1)[i] = 0
  <2>1. /\ Str(Number(1), 16)
        /\ Number(1)[1] = 1 % 256 /\ Number(1)[2] = (1 \div 256) % 256
        /\ Number(1)[3] = (1 \div 65536) % 256 /\ Number(1)[4] = (1 \div 16777216) % 256
        /\ \A i \in 5..16 : Number(1)[i] = 0
    <3> DEFINE b == 1
    <3>1. b \in Nat
      OBVIOUS
    <3>2. /\ Str(Number(b), 16)
          /\ Number(b)[1] = b % 256 /\ Number(b)[2] = (b \div 256) % 256
          /\ Number(b)[3] = (b \div 65536) % 256 /\ Number(b)[4] = (b \div 16777216) % 256
          /\ \A i \in 5..16 : Number(b)[i] = 0
      <4> HIDE DEF b
      <4> QED
        BY <3>1, NumberIs
    <3> QED
      BY <3>2
  <2>2. 1 % 256 = 1 /\ (1 \div 256) % 256 = 0 /\ (1 \div 65536) % 256 = 0
        /\ (1 \div 16777216) % 256 = 0
    OBVIOUS
  <2>3. ASSUME NEW i \in 2..16 PROVE Number(1)[i] = 0
    <3>1. i = 2 \/ i = 3 \/ i = 4 \/ i \in 5..16
      OBVIOUS
    <3> QED
      BY <2>1, <2>2, <3>1
  <2> QED
    BY <2>1, <2>2, <2>3
<1>7. /\ c[0] = 0 /\ c[1] = r1 - q1 /\ c[2] = r2 - q2 /\ c[3] = r3 - q3
      /\ \A i \in 4..16 : c[i] = 0
  OBVIOUS
<1>8. c = [i \in 0..16 |-> c[i]]
  OBVIOUS
<1> DEFINE x == Number(a + 1)  v == Number(a)  w == Number(1)
<1>9. /\ x[1] = r0 % 256 /\ x[2] = r1 % 256 /\ x[3] = r2 % 256 /\ x[4] = r3 % 256
      /\ Str(x, 16) /\ \A i \in 5..16 : x[i] = 0
  BY <1>5
<1>10. /\ v[1] = q0 % 256 /\ v[2] = q1 % 256 /\ v[3] = q2 % 256 /\ v[4] = q3 % 256
       /\ \A i \in 5..16 : v[i] = 0
  BY <1>4
<1>11. w[1] = 1 /\ \A i \in 2..16 : w[i] = 0
  BY <1>6
<1>12. x = Number(a + 1) /\ v = Number(a) /\ w = Number(1)
  OBVIOUS
<1> HIDE DEF q0, q1, q2, q3, r0, r1, r2, r3, c, x, v, w
<1>13. r1 - q1 \in 0..1 /\ (r0 % 256) + (256 * (r1 - q1)) = (q0 % 256) + 1
  BY <1>1, <1>2, ByteOfNext
<1>14. r2 - q2 \in 0..1 /\ (r1 % 256) + (256 * (r2 - q2)) = (q1 % 256) + (r1 - q1)
  <2> DEFINE e == r1 - q1
  <2>1. e \in 0..1 /\ r1 = q1 + e
    BY <1>1, <1>2, <1>13
  <2> HIDE DEF e
  <2>2. r2 - q2 \in 0..1 /\ (r1 % 256) + (256 * (r2 - q2)) = (q1 % 256) + e
    BY <1>1, <1>2, <2>1, ByteOfNext
  <2> QED
    BY <2>2 DEF e
<1>15. r3 - q3 \in 0..1 /\ (r2 % 256) + (256 * (r3 - q3)) = (q2 % 256) + (r2 - q2)
  <2> DEFINE e == r2 - q2
  <2>1. e \in 0..1 /\ r2 = q2 + e
    BY <1>1, <1>2, <1>14
  <2> HIDE DEF e
  <2>2. r3 - q3 \in 0..1 /\ (r2 % 256) + (256 * (r3 - q3)) = (q2 % 256) + e
    BY <1>1, <1>2, <2>1, ByteOfNext
  <2> QED
    BY <2>2 DEF e
<1>16. (r3 % 256) = (q3 % 256) + (r3 - q3)
  BY <1>1, <1>2, <1>3
<1>17. ASSUME NEW i \in 0..16 PROVE c[i] \in 0..1
  <2>1. i = 0 \/ i = 1 \/ i = 2 \/ i = 3 \/ i \in 4..16
    OBVIOUS
  <2> QED
    BY <1>7, <1>13, <1>14, <1>15, <2>1
<1>18. c \in [0..16 -> 0..1]
  BY <1>8, <1>17
<1>19. ASSUME NEW i \in 1..16
       PROVE  x[i] + (256 * c[i]) = v[i] + w[i] + c[i - 1]
  <2>1. CASE i = 1
    <3>1. i - 1 = 0
      BY <2>1
    <3>2. x[i] = r0 % 256 /\ v[i] = q0 % 256 /\ w[i] = 1 /\ c[i] = r1 - q1 /\ c[i - 1] = 0
      BY <1>7, <1>9, <1>10, <1>11, <2>1, <3>1
    <3>3. q0 % 256 \in Int /\ r0 % 256 \in Int
      BY <1>1, <1>2
    <3> QED
      BY <1>13, <3>2, <3>3
  <2>2. CASE i = 2
    BY <1>1, <1>2, <1>7, <1>9, <1>10, <1>11, <1>14, <2>2
  <2>3. CASE i = 3
    BY <1>1, <1>2, <1>7, <1>9, <1>10, <1>11, <1>15, <2>3
  <2>4. CASE i = 4
    BY <1>1, <1>2, <1>7, <1>9, <1>10, <1>11, <1>16, <2>4
  <2>5. CASE i \in 5..16
    <3>1. i - 1 \in 4..16 /\ i \in 4..16 /\ i \in 2..16
      BY <2>5
    <3>2. x[i] = 0 /\ v[i] = 0 /\ w[i] = 0 /\ c[i] = 0 /\ c[i - 1] = 0
      BY <1>7, <1>9, <1>10, <1>11, <2>5, <3>1
    <3> QED
      BY <3>2
  <2>6. i = 1 \/ i = 2 \/ i = 3 \/ i = 4 \/ i \in 5..16
    OBVIOUS
  <2> QED
    BY <2>1, <2>2, <2>3, <2>4, <2>5, <2>6
<1>20. SumOf(x, v, w, 16, c)
  BY <1>7, <1>9, <1>18, <1>19 DEF SumOf
<1> QED
  BY <1>12, <1>20

(* A counter moved on by offset, and by one more.                          *)
LEMMA CountsOn ==
  ASSUME NEW v, Str(v, 16), NEW a \in Nat, a + 1 < 65536 * 65536
  PROVE  u128_add32(u128_add32(v, a), 1) = u128_add32(v, a + 1)
<1> DEFINE s == u128_add(v, Number(a))
           t == u128_add(s, Number(1))
           u == u128_add(v, Number(a + 1))
<1>1. Str(Number(a), 16) /\ Str(Number(1), 16) /\ Str(Number(a + 1), 16)
  <2>1. a \in Nat /\ 1 \in Nat /\ a + 1 \in Nat
    OBVIOUS
  <2>2. \A b \in Nat : Str(Number(b), 16)
    BY NumberIs
  <2> QED
    BY <2>1, <2>2
<1>2. PICK c1 : SumOf(s, v, Number(a), 16, c1)
  BY <1>1, SumExists
<1>3. Str(s, 16)
  BY <1>2 DEF SumOf
<1>4. PICK c4 : SumOf(u, v, Number(a + 1), 16, c4)
  BY <1>1, SumExists
<1>5. PICK c3 : SumOf(Number(a + 1), Number(a), Number(1), 16, c3)
  BY NumberNext
<1>6. u128_add32(v, a) = s /\ u128_add32(v, a + 1) = u
  BY Add32Is
<1> HIDE DEF s, u
<1>7. PICK c2 : SumOf(t, s, Number(1), 16, c2)
  BY <1>1, <1>3, SumExists
<1>8. u128_add32(s, 1) = t
  BY <1>3, Add32Is
<1> HIDE DEF t
<1>9. t = u
  BY <1>1, <1>2, <1>4, <1>5, <1>7, SumsAssociate
<1> QED
  BY <1>6, <1>8, <1>9

(* A counter moved on is a string of sixteen bytes.                        *)
LEMMA CountsTyped ==
  ASSUME NEW v, Str(v, 16), NEW a \in Nat
  PROVE  Str(u128_add32(v, a), 16)
<1> DEFINE s == u128_add(v, Number(a))
<1>1. Str(Number(a), 16)
  BY NumberIs
<1>2. PICK c1 : SumOf(s, v, Number(a), 16, c1)
  BY <1>1, SumExists
<1>3. Str(s, 16)
  BY <1>2 DEF SumOf
<1>4. u128_add32(v, a) = s
  BY Add32Is
<1> QED
  BY <1>3, <1>4

(* The counter that is kept backwards counts on.                           *)
LEMMA OneMore ==
  ASSUME NEW v, Str(v, 16), NEW ctx \in Contexts, ctx.ctr = Backwards(v)
  PROVE  dsi_add_ctr(ctx).ctr = Backwards(u128_add32(v, 1))
<1> DEFINE w == Number(1)
           x == u128_add32(v, 1)
           y == dsi_add_ctr(ctx).ctr
           full(i) == \A j \in 1..i : v[j] = 255
           in(i) == IF full(i - 1) THEN 1 ELSE 0
<1>1. Str(w, 16) /\ w[1] = 1 /\ \A i \in 2..16 : w[i] = 0
  <2> DEFINE b == 1
  <2>1. b \in Nat
    OBVIOUS
  <2>2. /\ Str(Number(b), 16)
        /\ Number(b)[1] = b % 256 /\ Number(b)[2] = (b \div 256) % 256
        /\ Number(b)[3] = (b \div 65536) % 256 /\ Number(b)[4] = (b \div 16777216) % 256
        /\ \A i \in 5..16 : Number(b)[i] = 0
    <3> HIDE DEF b
    <3> QED
      BY <2>1, NumberIs
  <2>3. 1 % 256 = 1 /\ (1 \div 256) % 256 = 0 /\ (1 \div 65536) % 256 = 0
        /\ (1 \div 16777216) % 256 = 0
    OBVIOUS
  <2>4. ASSUME NEW i \in 2..16 PROVE w[i] = 0
    <3>1. i = 2 \/ i = 3 \/ i = 4 \/ i \in 5..16
      OBVIOUS
    <3> QED
      BY <2>2, <2>3, <3>1
  <2> QED
    BY <2>2, <2>3, <2>4
<1>2. PICK c : SumOf(x, v, w, 16, c)
  <2>1. x = u128_add(v, w)
    BY Add32Is
  <2> HIDE DEF x, w
  <2> QED
    BY <1>1, <2>1, SumExists
<1>3. Str(y, 16) /\ \A i \in 1..16 : y[i] = IF \A j \in (i + 1)..16 : ctx.ctr[j] = 255
                                            THEN (ctx.ctr[i] + 1) % 256 ELSE ctx.ctr[i]
  <2>1. dsi_add_ctr(ctx) \in Contexts
    BY AddCtrIs
  <2>2. Str(y, 16)
    BY <2>1 DEF Contexts, Blocks16, Str
  <2> QED
    BY <2>2, AddCtrIs
<1>4. \A i \in 1..16 : ctx.ctr[i] = v[17 - i]
  <2>1. Str(Backwards(v), 16) /\ \A i \in 1..16 : Backwards(v)[i] = v[(16 + 1) - i]
    BY BackwardsIs
  <2>2. \A i \in 1..16 : (16 + 1) - i = 17 - i
    OBVIOUS
  <2> QED
    BY <2>1, <2>2
<1>5. \A i \in 1..16 : v[i] \in 0..255
  BY StrIs DEF Byte
<1>6. /\ Str(x, 16) /\ c[0] = 0 /\ \A i \in 0..16 : c[i] \in 0..1
      /\ \A i \in 1..16 : x[i] + (256 * c[i]) = v[i] + w[i] + c[i - 1]
      /\ \A i \in 1..16 : x[i] \in 0..255
  <2>1. Str(x, 16) /\ c \in [0..16 -> 0..1] /\ c[0] = 0
        /\ \A i \in 1..16 : x[i] + (256 * c[i]) = v[i] + w[i] + c[i - 1]
    BY <1>2 DEF SumOf
  <2>2. \A i \in 1..16 : x[i] \in 0..255
    BY <2>1, StrIs DEF Byte
  <2>3. \A i \in 0..16 : c[i] \in 0..1
    <3> HIDE DEF x, w, y
    <3> QED
      BY <2>1
  <2> HIDE DEF x, w, y
  <2> QED
    BY <2>1, <2>2, <2>3
<1>7. in(1) = 1
  OBVIOUS
<1>8. ASSUME NEW i \in 1..16
      PROVE  in(i) \in 0..1 /\ in(i + 1) = IF v[i] = 255 /\ in(i) = 1 THEN 1 ELSE 0
  <2>1. full((i + 1) - 1) <=> (v[i] = 255 /\ full(i - 1))
    <3>1. (i + 1) - 1 = i
      OBVIOUS
    <3>2. full(i) <=> (v[i] = 255 /\ full(i - 1))
      <4>1. \A j \in 1..i : j = i \/ j \in 1..(i - 1)
        OBVIOUS
      <4>2. i \in 1..i /\ \A j \in 1..(i - 1) : j \in 1..i
        OBVIOUS
      <4> QED
        BY <4>1, <4>2, SMTT(30)
    <3> QED
      BY <3>1, <3>2
  <2> QED
    BY <2>1
<1> HIDE DEF w, x, y, full
<1>9. ASSUME NEW i \in 1..16
      PROVE  w[i] + c[i - 1] = in(i) /\ x[i] = (v[i] + in(i)) % 256
  <2> DEFINE T == {n \in 0..16 : n = 16 \/ w[n + 1] + c[n] = in(n + 1)}
  <2>1. 0 \in T
    BY <1>1, <1>6, <1>7
  <2>2. ASSUME NEW n \in 1..16, n - 1 \in T
        PROVE  n \in T
    <3>1. CASE n = 16
      BY <3>1
    <3>2. CASE n # 16
      <4> DEFINE p == in(n)  q == in(n + 1)  xn == x[n]  vn == v[n]  cn == c[n]
      <4>1. w[n] + c[n - 1] = p
        <5>1. n - 1 # 16 /\ (n - 1) + 1 = n
          OBVIOUS
        <5> QED
          BY <2>2, <5>1
      <4>2. w[n + 1] = 0
        <5>1. n + 1 \in 2..16
          BY <3>2
        <5> QED
          BY <1>1, <5>1
      <4>3. p \in 0..1 /\ q = IF vn = 255 /\ p = 1 THEN 1 ELSE 0
        BY <1>8
      <4>4. xn \in 0..255 /\ vn \in 0..255 /\ cn \in 0..1
        BY <1>5, <1>6
      <4>5. xn + (256 * cn) = vn + p
        <5>1. xn + (256 * cn) = v[n] + w[n] + c[n - 1]
          BY <1>6
        <5>2. w[n] \in Int /\ c[n - 1] \in Int /\ v[n] \in Int
          <6>1. n = 1 \/ n \in 2..16
            OBVIOUS
          <6>2. w[n] \in Int
            BY <1>1, <6>1
          <6>3. n - 1 \in 0..16
            OBVIOUS
          <6>4. c[n - 1] \in 0..1 /\ v[n] \in 0..255
            BY <1>5, <1>6, <6>3
          <6> QED
            BY <6>2, <6>4
        <5> HIDE DEF p, xn, cn
        <5> QED
          BY <4>1, <5>1, <5>2
      <4>6. cn = q
        <5> HIDE DEF p, q, xn, vn, cn
        <5> QED
          BY <4>3, <4>4, <4>5
      <4>7. w[n + 1] + c[n] = in(n + 1)
        BY <4>2, <4>4, <4>6
      <4> QED
        BY <4>7
    <3> QED
      BY <3>1, <3>2
  <2>3. 16 \in Nat
    OBVIOUS
  <2>4. \A n \in 0..16 : n \in T
    <3> HIDE DEF T
    <3> QED
      BY <2>1, <2>2, <2>3, UpTo
  <2>5. w[i] + c[i - 1] = in(i)
    <3>1. i - 1 \in 0..16 /\ i - 1 # 16 /\ (i - 1) + 1 = i
      OBVIOUS
    <3> QED
      BY <2>4, <3>1
  <2>6. x[i] = (v[i] + in(i)) % 256
    <3> DEFINE p == in(i)  xi == x[i]  vi == v[i]  ci == c[i]
    <3>1. xi \in 0..255 /\ vi \in 0..255 /\ ci \in 0..1 /\ p \in 0..1
      BY <1>5, <1>6, <1>8
    <3>2. xi + (256 * ci) = vi + p
      <4>1. xi + (256 * ci) = v[i] + w[i] + c[i - 1]
        BY <1>6
      <4>2. w[i] \in Int /\ c[i - 1] \in Int /\ v[i] \in Int
        <5>1. i = 1 \/ i \in 2..16
          OBVIOUS
        <5>2. w[i] \in Int
          BY <1>1, <5>1
        <5>3. i - 1 \in 0..16
          OBVIOUS
        <5>4. c[i - 1] \in 0..1 /\ v[i] \in 0..255
          BY <1>5, <1>6, <5>3
        <5> QED
          BY <5>2, <5>4
      <4> HIDE DEF p, xi, ci
      <4> QED
        BY <2>5, <4>1, <4>2 DEF p
    <3>3. xi = (vi + p) % 256
      <4> HIDE DEF p, xi, vi, ci
      <4> QED
        BY <3>1, <3>2
    <3> QED
      BY <3>3
  <2> QED
    BY <2>5, <2>6
<1>10. ASSUME NEW i \in 1..16
       PROVE  y[i] = x[17 - i]
  <2> DEFINE h == 17 - i
  <2>1. h \in 1..16 /\ h = 17 - i
    OBVIOUS
  <2>2. (\A j \in (i + 1)..16 : ctx.ctr[j] = 255) <=> full(h - 1)
    <3>1. ASSUME \A j \in (i + 1)..16 : ctx.ctr[j] = 255
          PROVE  full(h - 1)
      <4>1. ASSUME NEW j \in 1..(h - 1) PROVE v[j] = 255
        <5>1. 17 - j \in (i + 1)..16 /\ 17 - (17 - j) = j /\ 17 - j \in 1..16
          BY <2>1
        <5> QED
          BY <1>4, <3>1, <5>1
      <4> QED
        BY <4>1 DEF full
    <3>2. ASSUME full(h - 1), NEW j \in (i + 1)..16
          PROVE  ctx.ctr[j] = 255
      <4>1. 17 - j \in 1..(h - 1) /\ j \in 1..16
        BY <2>1
      <4> QED
        BY <1>4, <3>2, <4>1 DEF full
    <3> QED
      BY <3>1, <3>2
  <2>3. ctx.ctr[i] = v[h]
    BY <1>4
  <2>4. y[i] = IF full(h - 1) THEN (v[h] + 1) % 256 ELSE v[h]
    BY <1>3, <2>2, <2>3
  <2> HIDE DEF h
  <2>5. x[h] = (v[h] + in(h)) % 256
    BY <1>9, <2>1
  <2>6. v[h] \in 0..255
    BY <1>5, <2>1
  <2>7. CASE full(h - 1)
    BY <2>4, <2>5, <2>7, <2>1
  <2>8. CASE ~full(h - 1)
    <3>1. x[h] = (v[h] + 0) % 256 /\ y[i] = v[h]
      BY <2>4, <2>5, <2>8
    <3>2. (v[h] + 0) % 256 = v[h]
      BY <2>6
    <3> QED
      BY <2>1, <3>1, <3>2
  <2> QED
    BY <2>7, <2>8
<1>11. Str(Backwards(x), 16) /\ \A i \in 1..16 : Backwards(x)[i] = x[17 - i]
  <2>1. Str(Backwards(x), 16) /\ \A i \in 1..16 : Backwards(x)[i] = x[(16 + 1) - i]
    <3>1. Str(x, 16)
      BY <1>6
    <3> QED
      BY <3>1, BackwardsIs
  <2>2. \A i \in 1..16 : (16 + 1) - i = 17 - i
    OBVIOUS
  <2> QED
    BY <2>1, <2>2
<1>12. y = Backwards(x)
  BY <1>3, <1>10, <1>11, StrEqual
<1> QED
  BY <1>12 DEF x, y

(* The counters of one block after the other.                              *)
CtrBody(f, a, M) == f = [n \in 1..M |-> IF n = 1 THEN a ELSE u128_add32(f[n - 1], 1)]
Ctrs(f, a, M) ==
  /\ \A n \in 1..M : f[n] = IF n = 1 THEN a ELSE u128_add32(f[n - 1], 1)
  /\ \A n \in 1..M : Str(f[n], 16)

(* There are such counters.                                                *)
LEMMA CtrsExist ==
  ASSUME NEW a, Str(a, 16), NEW M \in Nat
  PROVE  \E f : CtrBody(f, a, M)
<1> DEFINE step == [i \in 1..M |-> [x \in Blocks16 |-> u128_add32(x, 1)]]
<1>1. a \in Blocks16
  BY DEF Blocks16, Str
<1>2. ASSUME NEW x \in Blocks16 PROVE u128_add32(x, 1) \in Blocks16
  <2>1. Str(x, 16) /\ 1 \in Nat
    BY DEF Blocks16, Str
  <2>2. Str(u128_add32(x, 1), 16)
    BY <2>1, CountsTyped
  <2> QED
    BY <2>2 DEF Blocks16, Str
<1>3. step \in [1..M -> [Blocks16 -> Blocks16]]
  BY <1>2
<1>4. PICK j \in [0..M -> Blocks16] : Runs(j, M, a, step)
  <2> HIDE DEF step
  <2> QED
    BY <1>1, <1>3, RunsExist
<1> DEFINE f == [n \in 1..M |-> j[n - 1]]
           g == [n \in 1..M |-> IF n = 1 THEN a ELSE u128_add32(f[n - 1], 1)]
<1>5. ASSUME NEW n \in 1..M
      PROVE  f[n] = g[n]
  <2>1. CASE n = 1
    BY <1>4, <2>1 DEF Runs
  <2>2. CASE n # 1
    <3>1. n - 1 \in 1..M /\ (n - 1) - 1 \in 0..M
      BY <2>2
    <3>2. j[n - 1] = step[n - 1][j[(n - 1) - 1]]
      BY <1>4, <3>1 DEF Runs
    <3>3. j[(n - 1) - 1] \in Blocks16
      BY <1>4, <3>1
    <3>4. j[n - 1] = u128_add32(j[(n - 1) - 1], 1)
      BY <3>1, <3>2, <3>3
    <3>5. f[n - 1] = j[(n - 1) - 1] /\ f[n] = j[n - 1]
      BY <3>1
    <3> QED
      BY <2>2, <3>4, <3>5
  <2> QED
    BY <2>1, <2>2
<1>6. f = [n \in 1..M |-> f[n]] /\ g = [n \in 1..M |-> g[n]]
  OBVIOUS
<1>7. f = g
  <2> HIDE DEF f, g
  <2> QED
    BY <1>5, <1>6
<1> QED
  BY <1>7 DEF CtrBody

(* They are what the recursion of dsi_nand_crypt and dsi_boot2_crypt       *)
(* gives.                                                                  *)
LEMMA CtrsAre ==
  ASSUME NEW a, Str(a, 16), NEW M \in Nat, NEW f, CtrBody(f, a, M)
  PROVE  Ctrs(f, a, M)
<1>1. \A n \in 1..M : f[n] = IF n = 1 THEN a ELSE u128_add32(f[n - 1], 1)
  <2> DEFINE g == [n \in 1..M |-> IF n = 1 THEN a ELSE u128_add32(f[n - 1], 1)]
  <2>1. \A n \in 1..M : g[n] = IF n = 1 THEN a ELSE u128_add32(f[n - 1], 1)
    OBVIOUS
  <2>2. f = g
    BY Zenon DEF CtrBody
  <2> HIDE DEF g
  <2> QED
    BY <2>1, <2>2, Zenon
<1>2. \A n \in 1..M : Str(f[n], 16)
  <2> DEFINE T == {n \in 0..M : n = 0 \/ Str(f[n], 16)}
  <2>1. 0 \in T
    OBVIOUS
  <2>2. ASSUME NEW n \in 1..M, n - 1 \in T PROVE n \in T
    <3>1. CASE n = 1
      BY <1>1, <3>1
    <3>2. CASE n # 1
      <4>1. Str(f[n - 1], 16) /\ 1 \in Nat
        BY <2>2, <3>2
      <4>2. Str(u128_add32(f[n - 1], 1), 16)
        BY <4>1, CountsTyped
      <4> QED
        BY <1>1, <3>2, <4>2
    <3> QED
      BY <3>1, <3>2
  <2>3. \A n \in 0..M : n \in T
    <3> HIDE DEF T
    <3> QED
      BY <2>1, <2>2, UpTo
  <2> QED
    BY <2>3
<1> QED
  BY <1>1, <1>2 DEF Ctrs

(* Counters that begin with the second go on as those that begin with the  *)
(* first.                                                                  *)
LEMMA CtrsFollow ==
  ASSUME NEW a, NEW f, NEW g, NEW M \in Nat, NEW K \in Nat, K < M,
         Ctrs(f, a, M), Ctrs(g, u128_add32(a, 1), K)
  PROVE  \A n \in 1..K : g[n] = f[n + 1]
<1> DEFINE T == {n \in 0..K : n = 0 \/ g[n] = f[n + 1]}
<1>1. 0 \in T
  OBVIOUS
<1>2. ASSUME NEW n \in 1..K, n - 1 \in T PROVE n \in T
  <2>1. n + 1 \in 1..M /\ n + 1 # 1 /\ (n + 1) - 1 = n /\ n \in 1..M
    OBVIOUS
  <2>2. f[n + 1] = u128_add32(f[n], 1)
    BY <2>1 DEF Ctrs
  <2>3. CASE n = 1
    <3>1. f[1] = a /\ g[1] = u128_add32(a, 1)
      BY <2>1, <2>3 DEF Ctrs
    <3> QED
      BY <2>2, <2>3, <3>1
  <2>4. CASE n # 1
    <3>1. g[n] = u128_add32(g[n - 1], 1)
      BY <2>4 DEF Ctrs
    <3>2. n - 1 # 0 /\ (n - 1) + 1 = n
      BY <2>4
    <3>3. g[n - 1] = f[n]
      BY <1>2, <3>2
    <3> QED
      BY <2>2, <3>1, <3>3
  <2> QED
    BY <2>3, <2>4
<1>3. \A n \in 0..K : n \in T
  <2> HIDE DEF T
  <2> QED
    BY <1>1, <1>2, UpTo
<1> QED
  BY <1>3

(* Counters of consecutive sectors.                                        *)
LEMMA CtrsOfSectors ==
  ASSUME NEW iv, Str(iv, 16), NEW o \in Nat, NEW M \in Nat, o + M <= 65536 * 65536,
         NEW f, Ctrs(f, u128_add32(iv, o), M)
  PROVE  \A n \in 1..M : f[n] = u128_add32(iv, (o + n) - 1)
<1> DEFINE T == {n \in 0..M : n = 0 \/ f[n] = u128_add32(iv, (o + n) - 1)}
<1>1. 0 \in T
  OBVIOUS
<1>2. ASSUME NEW n \in 1..M, n - 1 \in T PROVE n \in T
  <2>1. CASE n = 1
    <3>1. (o + n) - 1 = o
      BY <2>1
    <3>2. f[n] = u128_add32(iv, o)
      BY <2>1 DEF Ctrs
    <3> QED
      BY <3>1, <3>2
  <2>2. CASE n # 1
    <3> DEFINE a == (o + (n - 1)) - 1
    <3>1. a \in Nat /\ a + 1 < 65536 * 65536 /\ a + 1 = (o + n) - 1 /\ n - 1 # 0
      BY <2>2
    <3>2. f[n - 1] = u128_add32(iv, a)
      BY <1>2, <3>1
    <3>3. f[n] = u128_add32(f[n - 1], 1)
      BY <2>2 DEF Ctrs
    <3> HIDE DEF a
    <3>4. f[n] = u128_add32(iv, a + 1)
      BY <3>1, <3>2, <3>3, CountsOn
    <3> QED
      BY <3>1, <3>4
  <2> QED
    BY <2>1, <2>2
<1>3. \A n \in 0..M : n \in T
  <2> HIDE DEF T
  <2> QED
    BY <1>1, <1>2, UpTo
<1> QED
  BY <1>3

-----------------------------------------------------------------------------
(* One block under one counter.                                            *)
OneBlock(ctx, v, b) == XorAll(Backwards(Cipher(ctx.key, Backwards(v))), b)

(* A context with another counter (dsi_set_ctr).                           *)
LEMMA SetCtrIs ==
  ASSUME NEW ctx \in Contexts, NEW v, Str(v, 16)
  PROVE  /\ dsi_set_ctr(ctx, v) \in Contexts /\ dsi_set_ctr(ctx, v).key = ctx.key
         /\ dsi_set_ctr(ctx, v).ctr = Backwards(v)
<1>1. v \in Blocks16
  BY DEF Blocks16, Str
<1>2. Backwards(v) \in Blocks16
  BY <1>1, SwapIs
<1> QED
  BY <1>2 DEF dsi_set_ctr, Contexts

(* There are contexts for any number of blocks.                            *)
LEMMA CountsExist ==
  ASSUME NEW ctx \in Contexts, NEW N \in Nat
  PROVE  \E at : Counts(at, ctx, N)
<1> DEFINE z == Zeros(16 * N)
<1>1. Len(z) \div 16 = N
  <2> DEFINE m == 16 * N
  <2>1. m \in Nat /\ m \div 16 = N
    OBVIOUS
  <2>2. Len(Zeros(m)) = m
    <3> HIDE DEF m
    <3>1. Str(Zeros(m), m)
      BY <2>1, ZerosAre
    <3> QED
      BY <3>1 DEF Str
  <2>3. z = Zeros(m)
    OBVIOUS
  <2> HIDE DEF m, z
  <2> QED
    BY <2>1, <2>2, <2>3
<1> HIDE DEF z
<1>2. CtrRun(dsi_crypt_ctr(ctx, z).output, ctx, z, N)
  BY <1>1, CryptCtrIs
<1> QED
  BY <1>2 DEF CtrRun

(* A string of one block is its block.                                     *)
LEMMA OwnBlock ==
  ASSUME NEW u, Str(u, 16)
  PROVE  Block(u, 1) = u
<1>1. /\ Str(Block(u, 1), 16)
      /\ \A i \in 1..16 : Block(u, 1)[i] = u[(16 * (1 - 1)) + i]
  <2>1. 1 \in Int /\ 1 >= 1 /\ 16 * 1 <= 16
    OBVIOUS
  <2> QED
    BY <2>1, BlockIs
<1>2. \A i \in 1..16 : (16 * (1 - 1)) + i = i
  OBVIOUS
<1> QED
  BY <1>1, <1>2, StrEqual

(* A call of the counter mode for one block.                               *)
LEMMA OneBlockIs ==
  ASSUME CipherInverts, NEW ctx \in Contexts, NEW v, Str(v, 16), NEW b, Str(b, 16)
  PROVE  /\ dsi_crypt_ctr(dsi_set_ctr(ctx, v), b).output = OneBlock(ctx, v, b)
         /\ Str(OneBlock(ctx, v, b), 16)
<1> DEFINE d == dsi_set_ctr(ctx, v)
           x == dsi_crypt_ctr(d, b).output
<1>1. d \in Contexts /\ d.key = ctx.key /\ d.ctr = Backwards(v)
  BY SetCtrIs
<1> HIDE DEF d
<1>2. PICK at : Counts(at, d, 1)
  BY <1>1, CountsExist
<1>3. 1 = 16 \div 16 /\ 16 \in Int /\ 1 \in Nat /\ 16 * 1 = 16
  OBVIOUS
<1>4. Str(x, 16 * 1) /\ \A n \in 1..1 : Block(x, n) = Streamed(at, b, n)
  <2> DEFINE N == 1  L == 16
  <2>1. N = L \div 16 /\ L \in Int /\ N \in Nat /\ Counts(at, d, N) /\ Str(b, L)
    BY <1>2
  <2> HIDE DEF N, L
  <2>2. Str(x, 16 * N) /\ \A n \in 1..N : Block(x, n) = Streamed(at, b, n)
    BY <1>1, <2>1, CtrBlocks
  <2> QED
    BY <2>2 DEF N
<1> HIDE DEF x
<1>6. Block(x, 1) = x /\ Block(b, 1) = b
  <2>1. Str(x, 16) /\ Str(b, 16)
    BY <1>3, <1>4
  <2> QED
    BY <2>1, OwnBlock
<1>7. at[1 - 1] = d
  BY <1>2 DEF Counts
<1>8. Streamed(at, b, 1) = OneBlock(ctx, v, b)
  BY <1>1, <1>6, <1>7 DEF Streamed, OneBlock
<1>9. x = OneBlock(ctx, v, b)
  BY <1>4, <1>6, <1>8
<1>10. Str(x, 16)
  BY <1>3, <1>4
<1> QED
  BY <1>9, <1>10 DEF x, d

(* Blocks under counters.                                                  *)
Each(ctx, f, in, N) ==
  [n \in 1..N |-> dsi_crypt_ctr(dsi_set_ctr(ctx, f[n]), Block(in, n)).output]
UnderCtrs(ctx, f, in, N) == Join([n \in 1..N |-> OneBlock(ctx, f[n], Block(in, n))], N)

(* Blocks that are each under a counter of their own.                      *)
UnderEach(u, ctx, f, in, N) ==
  /\ u = Join(Each(ctx, f, in, N), N) /\ Str(u, 16 * N)
  /\ \A n \in 1..N : Block(u, n) = OneBlock(ctx, f[n], Block(in, n))

(* It does not matter whether a block is enciphered by a call of its own.  *)
LEMMA UnderCtrsIs ==
  ASSUME CipherInverts, NEW ctx \in Contexts, NEW N \in Nat,
         NEW in, NEW L \in Int, Str(in, L), 16 * N <= L,
         NEW f, \A n \in 1..N : Str(f[n], 16)
  PROVE  UnderEach(UnderCtrs(ctx, f, in, N), ctx, f, in, N)
<1> DEFINE g == [n \in 1..N |-> OneBlock(ctx, f[n], Block(in, n))]
           h == Each(ctx, f, in, N)
<1>1. ASSUME NEW n \in 1..N
      PROVE  /\ g[n] = OneBlock(ctx, f[n], Block(in, n)) /\ Str(g[n], 16)
             /\ h[n] = g[n]
  <2>1. Str(f[n], 16)
    OBVIOUS
  <2>2. Str(Block(in, n), 16)
    <3>1. n \in Int /\ n >= 1 /\ 16 * n <= L
      OBVIOUS
    <3> QED
      BY <3>1, BlockIs
  <2>3. /\ dsi_crypt_ctr(dsi_set_ctr(ctx, f[n]), Block(in, n)).output
             = OneBlock(ctx, f[n], Block(in, n))
        /\ Str(OneBlock(ctx, f[n], Block(in, n)), 16)
    BY <2>1, <2>2, OneBlockIs
  <2>4. h[n] = dsi_crypt_ctr(dsi_set_ctr(ctx, f[n]), Block(in, n)).output
    BY DEF Each
  <2> QED
    BY <2>3, <2>4
<1>2. g = [n \in 1..N |-> g[n]] /\ h = [n \in 1..N |-> h[n]]
  BY DEF Each
<1>3. UnderCtrs(ctx, f, in, N) = Join(g, N)
  BY DEF UnderCtrs
<1>4. g = h
  <2> HIDE DEF g, h
  <2> QED
    BY <1>1, <1>2
<1>5. Join(h, N) = Join(g, N)
  <2> HIDE DEF g, h
  <2> QED
    BY <1>4
<1>6. Str(Join(g, N), 16 * N) /\ \A n \in 1..N : Block(Join(g, N), n) = g[n]
  <2> HIDE DEF g, h
  <2> QED
    BY <1>1, JoinIs
<1>7. \A n \in 1..N : Block(Join(g, N), n) = OneBlock(ctx, f[n], Block(in, n))
  <2> HIDE DEF g, h
  <2> QED
    BY <1>1, <1>6
<1> QED
  BY <1>3, <1>5, <1>6, <1>7 DEF UnderEach

(* Sectors together, one at a time, and as one counter.                    *)
SectorCtrs(iv, o, N) == [n \in 1..N |-> u128_add32(iv, (o + n) - 1)]

(* The counter of a sector is that of its number.                          *)
LEMMA SectorCtrsAre ==
  ASSUME NEW iv, Str(iv, 16), NEW o \in Nat, NEW N \in Nat
  PROVE  \A n \in 1..N : /\ SectorCtrs(iv, o, N)[n] = u128_add32(iv, (o + n) - 1)
                         /\ Str(SectorCtrs(iv, o, N)[n], 16)
<1> SUFFICES ASSUME NEW n \in 1..N
             PROVE  /\ SectorCtrs(iv, o, N)[n] = u128_add32(iv, (o + n) - 1)
                    /\ Str(SectorCtrs(iv, o, N)[n], 16)
  OBVIOUS
<1> DEFINE a == (o + n) - 1
           c == SectorCtrs(iv, o, N)[n]
<1>1. a \in Nat
  OBVIOUS
<1>2. c = u128_add32(iv, a)
  BY DEF SectorCtrs
<1> HIDE DEF a, c
<1>3. Str(u128_add32(iv, a), 16)
  BY <1>1, CountsTyped
<1>4. c = u128_add32(iv, a) /\ Str(c, 16)
  BY <1>2, <1>3
<1> QED
  BY <1>4 DEF a, c

(* The counters of dsi_nand_crypt, each one more than the last.            *)
LEMMA TogetherRuns ==
  ASSUME NEW ctx, NEW N \in Nat, NEW in, NEW iv, NEW o, Str(u128_add32(iv, o), 16)
  PROVE  \E ctr : /\ Ctrs(ctr, u128_add32(iv, o), N)
                  /\ dsi_nand_crypt(ctx, iv, in, o, N)
                       = Join(Each(ctx, ctr, in, N), N)
<1> DEFINE a == u128_add32(iv, o)
           ctr[n \in 1..N] == IF n = 1 THEN a ELSE u128_add32(ctr[n - 1], 1)
<1>1. dsi_nand_crypt(ctx, iv, in, o, N) = Join(Each(ctx, ctr, in, N), N)
  BY DEF dsi_nand_crypt, Each
<1>2. PICK j : CtrBody(j, a, N)
  <2> HIDE DEF a
  <2> QED
    BY CtrsExist DEF a
<1>3. j = [n \in 1..N |-> IF n = 1 THEN a ELSE u128_add32(j[n - 1], 1)]
  BY <1>2 DEF CtrBody
<1>4. ctr = [n \in 1..N |-> IF n = 1 THEN a ELSE u128_add32(ctr[n - 1], 1)]
  BY <1>3
<1> HIDE DEF ctr, a
<1>5. CtrBody(ctr, a, N)
  BY <1>4 DEF CtrBody
<1>6. Ctrs(ctr, a, N)
  BY <1>5, CtrsAre DEF a
<1> QED
  BY <1>1, <1>6 DEF a

(* Sectors together are each under the counter of its number               *)
(* (gm9i/crypto.c),                                                        *)
LEMMA TogetherIs ==
  ASSUME CipherInverts, NEW ctx \in Contexts, NEW N \in Nat,
         NEW in, NEW L \in Int, Str(in, L), 16 * N <= L, NEW iv, Str(iv, 16),
         NEW o \in Nat, o + N <= 65536 * 65536
  PROVE  dsi_nand_crypt(ctx, iv, in, o, N) = UnderCtrs(ctx, SectorCtrs(iv, o, N), in, N)
<1> DEFINE a == u128_add32(iv, o)
           f == SectorCtrs(iv, o, N)
           g == Each(ctx, f, in, N)
<1>1. Str(a, 16)
  BY CountsTyped
<1>2. PICK ctr : /\ Ctrs(ctr, a, N)
                 /\ dsi_nand_crypt(ctx, iv, in, o, N)
                      = Join(Each(ctx, ctr, in, N), N)
  BY <1>1, TogetherRuns
<1> DEFINE h == Each(ctx, ctr, in, N)
<1>3. dsi_nand_crypt(ctx, iv, in, o, N) = Join(h, N)
  BY <1>2
<1>4. \A n \in 1..N : ctr[n] = u128_add32(iv, (o + n) - 1)
  BY <1>2, CtrsOfSectors
<1>5. \A n \in 1..N : f[n] = u128_add32(iv, (o + n) - 1) /\ Str(f[n], 16)
  BY SectorCtrsAre
<1> HIDE DEF f
<1>6. \A n \in 1..N : ctr[n] = f[n]
  BY <1>4, <1>5
<1>7. h = g
  BY <1>6 DEF Each
<1>8. UnderCtrs(ctx, f, in, N) = Join(g, N)
  <2>1. \A n \in 1..N : Str(f[n], 16)
    BY <1>5
  <2>2. UnderEach(UnderCtrs(ctx, f, in, N), ctx, f, in, N)
    BY <2>1, UnderCtrsIs
  <2> QED
    BY <2>2 DEF UnderEach
<1>9. Join(h, N) = Join(g, N)
  <2> HIDE DEF h, g
  <2> QED
    BY <1>7
<1>10. dsi_nand_crypt(ctx, iv, in, o, N) = UnderCtrs(ctx, f, in, N)
  <2> HIDE DEF h, g
  <2> QED
    BY <1>3, <1>8, <1>9
<1> QED
  BY <1>10 DEF f

(* one at a time they are under the same,                                  *)
LEMMA ApartIs ==
  ASSUME CipherInverts, NEW ctx \in Contexts, NEW N \in Nat,
         NEW in, NEW L \in Int, Str(in, L), 16 * N <= L, NEW iv, Str(iv, 16),
         NEW o \in Nat
  PROVE  Join([n \in 1..N |-> dsi_nand_crypt_1(ctx, iv, Block(in, n), (o + n) - 1)], N)
           = UnderCtrs(ctx, SectorCtrs(iv, o, N), in, N)
<1> DEFINE f == SectorCtrs(iv, o, N)
           g == [n \in 1..N |-> dsi_nand_crypt_1(ctx, iv, Block(in, n), (o + n) - 1)]
           h == Each(ctx, f, in, N)
<1>1. ASSUME NEW n \in 1..N
      PROVE  f[n] = u128_add32(iv, (o + n) - 1) /\ Str(f[n], 16)
  BY SectorCtrsAre
<1> HIDE DEF f
<1>2. ASSUME NEW n \in 1..N
      PROVE  g[n] = h[n]
  BY <1>1 DEF dsi_nand_crypt_1, Each
<1>3. g = [n \in 1..N |-> g[n]] /\ h = [n \in 1..N |-> h[n]]
  BY DEF Each
<1>4. g = h
  <2> HIDE DEF g, h
  <2> QED
    BY <1>2, <1>3
<1>5. UnderCtrs(ctx, f, in, N) = Join(h, N)
  <2>1. \A n \in 1..N : Str(f[n], 16)
    BY <1>1
  <2>2. UnderEach(UnderCtrs(ctx, f, in, N), ctx, f, in, N)
    BY <2>1, UnderCtrsIs
  <2> QED
    BY <2>2 DEF UnderEach
<1> QED
  <2> HIDE DEF h
  <2> QED
    BY <1>4, <1>5 DEF f

(* and so are the blocks of one call of the counter mode, carries          *)
(* included.                                                               *)
LEMMA CounterIs ==
  ASSUME CipherInverts, NEW ctx \in Contexts, NEW N \in Nat,
         NEW in, NEW L \in Int, Str(in, L), 16 * N <= L, NEW iv, Str(iv, 16),
         NEW o \in Nat, o + N <= 65536 * 65536
  PROVE  dsi_crypt_ctr(dsi_set_ctr(ctx, u128_add32(iv, o)), SubSeq(in, 1, 16 * N)).output
           = UnderCtrs(ctx, SectorCtrs(iv, o, N), in, N)
<1> DEFINE a == u128_add32(iv, o)
           d == dsi_set_ctr(ctx, a)
           m == 16 * N
           part == SubSeq(in, 1, m)
           x == dsi_crypt_ctr(d, part).output
           f == SectorCtrs(iv, o, N)
           y == UnderCtrs(ctx, f, in, N)
<1>1. Str(a, 16)
  BY CountsTyped
<1>2. d \in Contexts /\ d.key = ctx.key /\ d.ctr = Backwards(a)
  <2> HIDE DEF a
  <2> QED
    BY <1>1, SetCtrIs
<1>3. PICK at : Counts(at, d, N)
  <2> HIDE DEF d
  <2> QED
    BY <1>2, CountsExist
<1>4. Str(part, m) /\ \A n \in 1..N : Block(part, n) = Block(in, n)
  BY PartBlocks
<1>5. Str(x, 16 * N) /\ \A n \in 1..N : Block(x, n) = Streamed(at, part, n)
  <2>1. N = m \div 16 /\ m \in Int
    OBVIOUS
  <2> HIDE DEF m, part, d
  <2> QED
    BY <1>2, <1>3, <1>4, <2>1, CtrBlocks
<1>6. ASSUME NEW n \in 1..N
      PROVE  f[n] = u128_add32(iv, (o + n) - 1) /\ Str(f[n], 16)
  BY SectorCtrsAre
<1> HIDE DEF f
<1>7. Str(y, 16 * N) /\ \A n \in 1..N : Block(y, n) = OneBlock(ctx, f[n], Block(in, n))
  <2>1. \A n \in 1..N : Str(f[n], 16)
    BY <1>6
  <2>2. UnderEach(UnderCtrs(ctx, f, in, N), ctx, f, in, N)
    BY <2>1, UnderCtrsIs
  <2> QED
    BY <2>2 DEF UnderEach
<1>8. ASSUME NEW n \in 1..N
      PROVE  at[n - 1].key = ctx.key /\ at[n - 1].ctr = Backwards(f[n])
  <2> DEFINE T == {i \in 0..N : i = N \/ /\ at[i].key = ctx.key
                                         /\ at[i].ctr = Backwards(f[i + 1])}
  <2>1. 0 \in T
    <3>1. at[0] = d
      BY <1>3 DEF Counts
    <3>2. (o + 1) - 1 = o
      OBVIOUS
    <3>3. f[1] = a
      <4>1. 1 \in 1..N
        OBVIOUS
      <4> QED
        BY <1>6, <3>2, <4>1
    <3> QED
      BY <1>2, <3>1, <3>3
  <2>2. ASSUME NEW i \in 1..N, i - 1 \in T PROVE i \in T
    <3>1. CASE i = N
      BY <3>1
    <3>2. CASE i # N
      <4> DEFINE b == (o + i) - 1
                 v == u128_add32(iv, b)
      <4>1. b \in Nat /\ b + 1 < 65536 * 65536 /\ b + 1 = (o + (i + 1)) - 1
            /\ i + 1 \in 1..N
        BY <3>2
      <4>2. at[i - 1].key = ctx.key /\ at[i - 1].ctr = Backwards(v)
        <5>1. i - 1 # N /\ (i - 1) + 1 = i /\ f[i] = v
          BY <1>6
        <5> HIDE DEF v, f
        <5> QED
          BY <2>2, <5>1
      <4>3. at[i] = dsi_add_ctr(at[i - 1]) /\ at[i - 1] \in Contexts
        BY <1>3 DEF Counts
      <4>4. Str(v, 16)
        <5> HIDE DEF b
        <5> QED
          BY <4>1, CountsTyped
      <4>5. at[i].key = ctx.key
        BY <4>2, <4>3, AddCtrIs
      <4>6. u128_add32(v, 1) = u128_add32(iv, b + 1)
        <5> HIDE DEF b
        <5> QED
          BY <4>1, CountsOn DEF v
      <4>7. at[i].ctr = Backwards(u128_add32(v, 1))
        <5> HIDE DEF v
        <5> QED
          BY <4>2, <4>3, <4>4, OneMore
      <4>8. f[i + 1] = u128_add32(iv, b + 1)
        BY <1>6, <4>1
      <4>9. i \in 0..N
        OBVIOUS
      <4> QED
        BY <4>5, <4>6, <4>7, <4>8, <4>9
    <3> QED
      BY <3>1, <3>2
  <2>3. \A i \in 0..N : i \in T
    <3> HIDE DEF T
    <3> QED
      BY <2>1, <2>2, UpTo
  <2>4. n - 1 \in 0..N /\ n - 1 # N /\ (n - 1) + 1 = n
    OBVIOUS
  <2>5. n - 1 \in T
    <3> HIDE DEF T
    <3> QED
      BY <2>3, <2>4
  <2> QED
    BY <2>4, <2>5
<1>9. ASSUME NEW n \in 1..N
      PROVE  Block(x, n) = Block(y, n)
  <2>1. Streamed(at, part, n) = OneBlock(ctx, f[n], Block(in, n))
    BY <1>4, <1>8 DEF Streamed, OneBlock
  <2> QED
    BY <1>5, <1>7, <2>1
<1>10. x = y
  <2> HIDE DEF x, y
  <2> QED
    BY <1>5, <1>7, <1>9, BlocksEqual
<1> QED
  BY <1>10 DEF f

(* A boot stage: in one go, and its first block and then the others.       *)
BootRun(done, ctx, b, in, N) ==
  \E ctr : /\ Ctrs(ctr, b, N + 1) /\ done.ctr = ctr[N + 1]
           /\ done.output = Join(Each(ctx, ctr, in, N), N)

(* dsi_boot2_crypt runs so,                                                *)
LEMMA BootIs ==
  ASSUME NEW ctx, NEW b, Str(b, 16), NEW in, NEW N \in Nat
  PROVE  BootRun(dsi_boot2_crypt(ctx, b, in, N), ctx, b, in, N)
<1> DEFINE ctr[n \in 1..(N + 1)] == IF n = 1 THEN b ELSE u128_add32(ctr[n - 1], 1)
           M == N + 1
<1>1. /\ dsi_boot2_crypt(ctx, b, in, N).output = Join(Each(ctx, ctr, in, N), N)
      /\ dsi_boot2_crypt(ctx, b, in, N).ctr = ctr[N + 1]
  BY DEF dsi_boot2_crypt, Each
<1>2. PICK j : CtrBody(j, b, M)
  <2>1. M \in Nat
    OBVIOUS
  <2> HIDE DEF M
  <2> QED
    BY <2>1, CtrsExist
<1>3. j = [n \in 1..(N + 1) |-> IF n = 1 THEN b ELSE u128_add32(j[n - 1], 1)]
  BY <1>2 DEF CtrBody
<1>4. ctr = [n \in 1..(N + 1) |-> IF n = 1 THEN b ELSE u128_add32(ctr[n - 1], 1)]
  BY <1>3
<1> HIDE DEF ctr
<1>5. CtrBody(ctr, b, M)
  BY <1>4 DEF CtrBody
<1>6. Ctrs(ctr, b, M)
  <2>1. M \in Nat
    OBVIOUS
  <2> HIDE DEF M
  <2> QED
    BY <1>5, <2>1, CtrsAre
<1> QED
  BY <1>1, <1>6 DEF BootRun

(* and writes these blocks.                                                *)
LEMMA BootBlocks ==
  ASSUME CipherInverts, NEW ctx \in Contexts, NEW b, Str(b, 16), NEW N \in Nat,
         NEW in, NEW L \in Int, Str(in, L), 16 * N <= L, NEW done,
         BootRun(done, ctx, b, in, N)
  PROVE  \E ctr : /\ Ctrs(ctr, b, N + 1) /\ done.ctr = ctr[N + 1]
                  /\ Str(done.output, 16 * N)
                  /\ \A n \in 1..N :
                       Block(done.output, n) = OneBlock(ctx, ctr[n], Block(in, n))
<1>1. PICK ctr : /\ Ctrs(ctr, b, N + 1) /\ done.ctr = ctr[N + 1]
                 /\ done.output = Join(Each(ctx, ctr, in, N), N)
  BY DEF BootRun
<1>2. \A n \in 1..N : Str(ctr[n], 16)
  BY <1>1 DEF Ctrs
<1> DEFINE u == UnderCtrs(ctx, ctr, in, N)
<1>3. /\ u = Join(Each(ctx, ctr, in, N), N) /\ Str(u, 16 * N)
      /\ \A n \in 1..N : Block(u, n) = OneBlock(ctx, ctr[n], Block(in, n))
  <2>1. UnderEach(UnderCtrs(ctx, ctr, in, N), ctx, ctr, in, N)
    BY <1>2, UnderCtrsIs
  <2> QED
    BY <2>1 DEF UnderEach
<1> HIDE DEF u
<1>4. done.output = u
  BY <1>1, <1>3
<1>5. /\ Str(done.output, 16 * N)
      /\ \A n \in 1..N : Block(done.output, n) = OneBlock(ctx, ctr[n], Block(in, n))
  BY <1>3, <1>4
<1> QED
  BY <1>1, <1>5

(* The blocks of two strings in a row.                                     *)
BlocksOf(x, v, w, A, B) ==
  /\ Str(x, 16 * (A + B))
  /\ \A n \in 1..A : Block(x, n) = Block(v, n)
  /\ \A n \in 1..B : Block(x, A + n) = Block(w, n)

(* Strings of whole blocks, joined.                                        *)
LEMMA AppendedBlocks ==
  ASSUME NEW v, NEW w, NEW A \in Nat, NEW B \in Nat, Str(v, 16 * A), Str(w, 16 * B)
  PROVE  BlocksOf(v \o w, v, w, A, B)
<1> DEFINE a == 16 * A
           b == 16 * B
           l == 16 * (A + B)
           x == v \o w
<1>20. Appended(x, v, w, a, b)
  <2> HIDE DEF a, b
  <2> QED
    BY StrJoined DEF a, b
<1> HIDE DEF x
<1>1. /\ Str(x, a + b) /\ \A i \in 1..a : x[i] = v[i]
      /\ \A i \in 1..b : x[a + i] = w[i]
  BY <1>20 DEF Appended
<1>2. a + b = l /\ a \in Int /\ b \in Int /\ l \in Int
  OBVIOUS
<1>3. Str(x, l)
  BY <1>1, <1>2
<1>4. ASSUME NEW n \in 1..A
      PROVE  Block(x, n) = Block(v, n)
  <2>1. n \in Int /\ n >= 1 /\ 16 * n <= a /\ 16 * n <= l
    OBVIOUS
  <2>2. Str(Block(x, n), 16) /\ \A i \in 1..16 : Block(x, n)[i] = x[(16 * (n - 1)) + i]
    <3> HIDE DEF a, b, l
    <3> QED
      BY <1>3, <2>1, BlockIs
  <2>3. Str(Block(v, n), 16) /\ \A i \in 1..16 : Block(v, n)[i] = v[(16 * (n - 1)) + i]
    <3>1. Str(v, a)
      OBVIOUS
    <3> HIDE DEF a, b, l
    <3> QED
      BY <3>1, <2>1, BlockIs
  <2>4. ASSUME NEW i \in 1..16
        PROVE  Block(x, n)[i] = Block(v, n)[i]
    <3>1. (16 * (n - 1)) + i \in 1..a
      BY <2>1
    <3> QED
      BY <1>1, <2>2, <2>3, <3>1
  <2> QED
    BY <2>2, <2>3, <2>4, StrEqual
<1>5. ASSUME NEW n \in 1..B
      PROVE  Block(x, A + n) = Block(w, n)
  <2> DEFINE h == A + n
  <2>1. n \in Int /\ n >= 1 /\ 16 * n <= b /\ h \in Int /\ h >= 1 /\ 16 * h <= l
    OBVIOUS
  <2>2. Str(Block(x, h), 16) /\ \A i \in 1..16 : Block(x, h)[i] = x[(16 * (h - 1)) + i]
    <3> HIDE DEF a, b, l, h
    <3> QED
      BY <1>3, <2>1, BlockIs
  <2>3. Str(Block(w, n), 16) /\ \A i \in 1..16 : Block(w, n)[i] = w[(16 * (n - 1)) + i]
    <3>1. Str(w, b)
      OBVIOUS
    <3> HIDE DEF a, b, l, h
    <3> QED
      BY <3>1, <2>1, BlockIs
  <2>4. ASSUME NEW i \in 1..16
        PROVE  Block(x, h)[i] = Block(w, n)[i]
    <3> DEFINE p == (16 * (n - 1)) + i
    <3>1. p \in 1..b /\ (16 * (h - 1)) + i = a + p
      BY <2>1
    <3>2. x[a + p] = w[p]
      <4> HIDE DEF a, b, p
      <4> QED
        BY <1>1, <3>1
    <3>3. Block(x, h)[i] = x[a + p] /\ Block(w, n)[i] = w[p]
      BY <2>2, <2>3, <3>1
    <3> QED
      BY <3>2, <3>3
  <2>5. Block(x, h) = Block(w, n)
    <3> HIDE DEF h
    <3> QED
      BY <2>2, <2>3, <2>4, StrEqual
  <2> QED
    BY <2>5
<1> QED
  BY <1>3, <1>4, <1>5 DEF BlocksOf, x

(* A stage of N blocks, its first block, and the K others from the counter *)
(* that was left.                                                          *)
InTwo(all, one, two, ctx, b, in, L, N, K) ==
  /\ BootRun(all, ctx, b, in, N) /\ BootRun(one, ctx, b, in, 1)
  /\ BootRun(two, ctx, one.ctr, SubSeq(in, 17, L), K)

Continued(all, one, two) == all.output = one.output \o two.output

(* In one go it becomes what it becomes in two (dsi_boot2_crypt).          *)
LEMMA BootInTwo ==
  ASSUME CipherInverts, NEW ctx \in Contexts, NEW b, Str(b, 16),
         NEW in, NEW L \in Int, Str(in, L), NEW N \in Nat, 16 * N <= L,
         NEW K \in Nat, K < N, N <= K + 1,
         NEW all, NEW one, NEW two,
         InTwo(all, one, two, ctx, b, in, L, N, K)
  PROVE  Continued(all, one, two)
<1> DEFINE rest == SubSeq(in, 17, L)
           R == L - 16
<1>1. /\ K \in Nat /\ N = 1 + K /\ K < N + 1 /\ 16 * N <= L /\ 16 * K <= R /\ R \in Int
      /\ 16 * 1 <= L /\ K + 1 = N /\ 1 \in Nat
  OBVIOUS
<1>2. Str(rest, R) /\ \A i \in 1..R : rest[i] = in[16 + i]
  <2> DEFINE p == 17
  <2>1. p \in Int /\ p >= 1 /\ L >= p - 1 /\ L <= L /\ (L - p) + 1 = R /\ p - 1 = 16
    OBVIOUS
  <2>2. Str(SubSeq(in, p, L), (L - p) + 1)
        /\ \A i \in 1..((L - p) + 1) : SubSeq(in, p, L)[i] = in[(p - 1) + i]
    <3> HIDE DEF p
    <3> QED
      BY <2>1, StrPart
  <2> QED
    BY <2>1, <2>2
<1>3. /\ BootRun(two, ctx, one.ctr, rest, K) /\ BootRun(all, ctx, b, in, N)
      /\ BootRun(one, ctx, b, in, 1)
  BY DEF InTwo
<1> HIDE DEF rest, R
<1>4. PICK f : /\ Ctrs(f, b, N + 1) /\ Str(all.output, 16 * N)
               /\ \A n \in 1..N : Block(all.output, n) = OneBlock(ctx, f[n], Block(in, n))
  BY <1>1, <1>3, BootBlocks
<1>5. PICK g : /\ Ctrs(g, b, 1 + 1) /\ one.ctr = g[1 + 1] /\ Str(one.output, 16 * 1)
               /\ \A n \in 1..1 : Block(one.output, n) = OneBlock(ctx, g[n], Block(in, n))
  <2> DEFINE I == 1
  <2>1. BootRun(one, ctx, b, in, I) /\ I \in Nat /\ 16 * I <= L
    BY <1>1, <1>3
  <2>2. \E c : /\ Ctrs(c, b, I + 1) /\ one.ctr = c[I + 1] /\ Str(one.output, 16 * I)
               /\ \A n \in 1..I : Block(one.output, n) = OneBlock(ctx, c[n], Block(in, n))
    <3> HIDE DEF I
    <3> QED
      BY <2>1, BootBlocks
  <2> QED
    BY <2>2
<1>6. g[1] = b /\ one.ctr = u128_add32(b, 1) /\ f[1] = b
  <2>1. 1 \in 1..(1 + 1) /\ 1 + 1 \in 1..(1 + 1) /\ (1 + 1) - 1 = 1 /\ 1 + 1 # 1
        /\ 1 \in 1..(N + 1)
    BY <1>1
  <2>2. g[1] = b /\ g[1 + 1] = u128_add32(g[(1 + 1) - 1], 1)
    BY <1>5, <2>1 DEF Ctrs
  <2>3. f[1] = b
    BY <1>4, <2>1 DEF Ctrs
  <2> QED
    BY <1>5, <2>1, <2>2, <2>3
<1>7. Str(one.ctr, 16)
  <2>1. 1 \in Nat
    OBVIOUS
  <2> QED
    BY <1>6, <2>1, CountsTyped
<1>8. PICK h : /\ Ctrs(h, one.ctr, K + 1) /\ Str(two.output, 16 * K)
               /\ \A n \in 1..K : Block(two.output, n) = OneBlock(ctx, h[n], Block(rest, n))
  BY <1>1, <1>2, <1>3, <1>7, BootBlocks
<1>9. \A n \in 1..K : h[n] = f[n + 1]
  <2>1. Ctrs(h, u128_add32(b, 1), K)
    <3>1. \A n \in 1..K : n \in 1..(K + 1)
      BY <1>1
    <3> QED
      BY <1>6, <1>8, <3>1 DEF Ctrs
  <2>2. Ctrs(f, b, N + 1) /\ N + 1 \in Nat
    BY <1>1, <1>4
  <2> QED
    BY <1>1, <2>1, <2>2, CtrsFollow
<1> DEFINE x == one.output \o two.output
<1>10. BlocksOf(x, one.output, two.output, 1, K)
  <2> DEFINE I == 1
  <2>1. Str(one.output, 16 * I) /\ I \in Nat /\ Str(two.output, 16 * K)
    BY <1>5, <1>8
  <2>2. BlocksOf(x, one.output, two.output, I, K)
    <3> HIDE DEF I
    <3> QED
      BY <1>1, <2>1, AppendedBlocks
  <2> QED
    BY <2>2
<1> HIDE DEF x
<1>11. /\ Str(x, 16 * (1 + K)) /\ \A n \in 1..1 : Block(x, n) = Block(one.output, n)
       /\ \A n \in 1..K : Block(x, 1 + n) = Block(two.output, n)
  BY <1>10 DEF BlocksOf
<1>12. ASSUME NEW n \in 1..K
       PROVE  Block(rest, n) = Block(in, n + 1)
  <2> DEFINE m == n + 1
  <2>1. n \in Int /\ n >= 1 /\ 16 * n <= R /\ m \in Int /\ m >= 1 /\ 16 * m <= L
    BY <1>1
  <2>2. Str(Block(rest, n), 16)
        /\ \A i \in 1..16 : Block(rest, n)[i] = rest[(16 * (n - 1)) + i]
    BY <1>1, <1>2, <2>1, BlockIs
  <2>3. Str(Block(in, m), 16) /\ \A i \in 1..16 : Block(in, m)[i] = in[(16 * (m - 1)) + i]
    <3> HIDE DEF m
    <3> QED
      BY <2>1, BlockIs
  <2>4. ASSUME NEW i \in 1..16
        PROVE  Block(rest, n)[i] = Block(in, m)[i]
    <3>1. (16 * (n - 1)) + i \in 1..R /\ 16 + ((16 * (n - 1)) + i) = (16 * (m - 1)) + i
      BY <1>1, <2>1
    <3> QED
      BY <1>2, <2>2, <2>3, <3>1
  <2>5. Block(rest, n) = Block(in, m)
    <3> HIDE DEF m
    <3> QED
      BY <2>2, <2>3, <2>4, StrEqual
  <2> QED
    BY <2>5
<1>13. ASSUME NEW n \in 1..N
       PROVE  Block(all.output, n) = Block(x, n)
  <2>1. CASE n = 1
    <3>1. 1 \in 1..1 /\ 1 \in 1..N
      BY <1>1
    <3>2. Block(all.output, 1) = OneBlock(ctx, b, Block(in, 1))
      BY <1>4, <1>6, <3>1
    <3>3. Block(one.output, 1) = OneBlock(ctx, b, Block(in, 1))
      BY <1>5, <1>6, <3>1
    <3>4. Block(x, 1) = Block(one.output, 1)
      BY <1>11, <3>1
    <3> QED
      BY <2>1, <3>2, <3>3, <3>4
  <2>2. CASE n # 1
    <3> DEFINE m == n - 1
    <3>1. m \in 1..K /\ 1 + m = n /\ m + 1 = n
      BY <1>1, <2>2
    <3>2. Block(x, n) = Block(two.output, m)
      <4> HIDE DEF m
      <4> QED
        BY <1>11, <3>1
    <3>3. Block(two.output, m) = OneBlock(ctx, h[m], Block(rest, m))
      <4> HIDE DEF m
      <4> QED
        BY <1>8, <3>1
    <3>4. h[m] = f[n] /\ Block(rest, m) = Block(in, n)
      <4> HIDE DEF m
      <4> QED
        BY <1>9, <1>12, <3>1
    <3> QED
      BY <1>4, <3>2, <3>3, <3>4
  <2> QED
    BY <2>1, <2>2
<1>14. all.output = x
  <2>1. 16 * (1 + K) = 16 * N
    BY <1>1
  <2> QED
    BY <1>4, <1>11, <1>13, <2>1, BlocksEqual
<1> QED
  BY <1>14 DEF x, Continued

(* The counter of a boot stage is a string of sixteen bytes.               *)
LEMMA BootCtrIs ==
  ASSUME NEW o \in Nat
  PROVE  Str(dsi_boot2_crypt_set_ctr(o), 16)
<1> DEFINE b == Bytes32(o)
           ff == <<255, 255, 255, 255>>
           z == Zeros(4)
           complement == XorAll(b, ff)
           one == <<1, 0, 0, 0>>
           negated == u128_add(complement, one)
<1>1. Str(b, 4)
  <2>1. o % 256 \in Byte /\ (o \div 256) % 256 \in Byte
        /\ (o \div 65536) % 256 \in Byte /\ (o \div 16777216) % 256 \in Byte
    BY DEF Byte
  <2>2. b \in Seq(Byte)
    BY <2>1 DEF Bytes32
  <2>3. Len(b) = 4
    BY DEF Bytes32
  <2> QED
    BY <2>2, <2>3 DEF Str
<1>2. Str(ff, 4) /\ Str(one, 4)
  BY DEF Str, Byte
<1>3. Str(z, 4)
  BY ZerosAre
<1>4. dsi_boot2_crypt_set_ctr(o) = ((b \o negated) \o complement) \o z
  BY DEF dsi_boot2_crypt_set_ctr
<1> HIDE DEF b, ff, z, one
<1>5. Str(complement, 4)
  BY <1>1, <1>2, XorAllIs
<1> HIDE DEF complement
<1>6. Str(negated, 4)
  <2>1. PICK c : SumOf(negated, complement, one, 4, c)
    BY <1>2, <1>5, SumExists
  <2> QED
    BY <2>1 DEF SumOf
<1> HIDE DEF negated
<1> DEFINE x == b \o negated
           y == x \o complement
<1>7. Appended(x, b, negated, 4, 4)
  BY <1>1, <1>6, StrJoined
<1> HIDE DEF x
<1>8. Str(x, 8)
  BY <1>7 DEF Appended
<1>9. Appended(y, x, complement, 8, 4)
  BY <1>5, <1>8, StrJoined
<1> HIDE DEF y
<1>10. Str(y, 12)
  BY <1>9 DEF Appended
<1>11. Appended(y \o z, y, z, 12, 4)
  BY <1>3, <1>10, StrJoined
<1>12. Str(y \o z, 16)
  BY <1>11 DEF Appended
<1> QED
  BY <1>4, <1>12 DEF x, y

(* All of it, for one call.                                                *)
SectorsBack(ctx, iv, text, o, N, L, boot) ==
  /\ dsi_nand_crypt(ctx, iv, text, o, N)
       = Join([n \in 1..N |-> dsi_nand_crypt_1(ctx, iv, Block(text, n), (o + n) - 1)],
              N)
  /\ dsi_nand_crypt(ctx, iv, text, o, N)
       = dsi_crypt_ctr(dsi_set_ctr(ctx, u128_add32(iv, o)),
                       SubSeq(text, 1, 16 * N)).output
  /\ dsi_boot2_crypt(ctx, boot, text, N).output
       = dsi_boot2_crypt(ctx, boot, text, 1).output
           \o dsi_boot2_crypt(ctx, dsi_boot2_crypt(ctx, boot, text, 1).ctr,
                              SubSeq(text, 17, L), N - 1).output

(* Sectors together, apart and as one string are the same, and so is a     *)
(* boot stage in one go and in two.                                        *)
LEMMA SectorsRead ==
  ASSUME CipherInverts, NEW ctx \in Contexts, NEW iv, Str(iv, 16),
         NEW text, NEW L \in Int, Str(text, L), NEW o \in Nat,
         NEW N \in Nat, 16 * N <= L, N >= 1, o + N <= 65536 * 65536,
         NEW boot, Str(boot, 16)
  PROVE  SectorsBack(ctx, iv, text, o, N, L, boot)
<1>1. 16 * N <= L /\ 1 \in Nat /\ N - 1 \in Nat
  OBVIOUS
<1>2. dsi_nand_crypt(ctx, iv, text, o, N) = UnderCtrs(ctx, SectorCtrs(iv, o, N), text, N)
  BY <1>1, TogetherIs
<1>3. Join([n \in 1..N |-> dsi_nand_crypt_1(ctx, iv, Block(text, n), (o + n) - 1)], N)
        = UnderCtrs(ctx, SectorCtrs(iv, o, N), text, N)
  BY <1>1, ApartIs
<1>4. dsi_crypt_ctr(dsi_set_ctr(ctx, u128_add32(iv, o)), SubSeq(text, 1, 16 * N)).output
        = UnderCtrs(ctx, SectorCtrs(iv, o, N), text, N)
  BY <1>1, CounterIs
<1> DEFINE all == dsi_boot2_crypt(ctx, boot, text, N)
           one == dsi_boot2_crypt(ctx, boot, text, 1)
           K == N - 1
           two == dsi_boot2_crypt(ctx, one.ctr, SubSeq(text, 17, L), K)
<1>5. BootRun(all, ctx, boot, text, N) /\ BootRun(one, ctx, boot, text, 1)
  BY <1>1, BootIs
<1> HIDE DEF all, one
<1>6. Str(one.ctr, 16)
  <2>1. PICK c : Ctrs(c, boot, 1 + 1) /\ one.ctr = c[1 + 1]
    BY <1>5 DEF BootRun
  <2>2. 1 + 1 \in 1..(1 + 1)
    OBVIOUS
  <2> QED
    BY <2>1, <2>2 DEF Ctrs
<1>7. BootRun(two, ctx, one.ctr, SubSeq(text, 17, L), K)
  <2>1. K \in Nat
    BY <1>1
  <2> HIDE DEF K
  <2> QED
    BY <1>6, <2>1, BootIs
<1> HIDE DEF two
<1>8. Continued(all, one, two)
  <2>1. K \in Nat /\ K < N /\ N <= K + 1
    BY <1>1
  <2>2. InTwo(all, one, two, ctx, boot, text, L, N, K)
    BY <1>5, <1>7 DEF InTwo
  <2> HIDE DEF K
  <2> QED
    BY <1>1, <2>1, <2>2, BootInTwo
<1>9. /\ dsi_nand_crypt(ctx, iv, text, o, N)
           = Join([n \in 1..N |-> dsi_nand_crypt_1(ctx, iv, Block(text, n), (o + n) - 1)], N)
      /\ dsi_nand_crypt(ctx, iv, text, o, N)
           = dsi_crypt_ctr(dsi_set_ctr(ctx, u128_add32(iv, o)),
                           SubSeq(text, 1, 16 * N)).output
  BY <1>2, <1>3, <1>4
<1>10. dsi_boot2_crypt(ctx, boot, text, N).output
         = dsi_boot2_crypt(ctx, boot, text, 1).output
             \o dsi_boot2_crypt(ctx, dsi_boot2_crypt(ctx, boot, text, 1).ctr,
                                SubSeq(text, 17, L), N - 1).output
  BY <1>8 DEF all, one, two, Continued
<1> QED
  BY <1>9, <1>10 DEF SectorsBack

(* An area of a cartridge deciphered once and twice, of N whole blocks and *)
(* L bytes.                                                                *)
Modcrypted(once, twice, ctx, text) ==
  /\ once = decrypt_modcrypt_area(ctx, text).output
  /\ twice = decrypt_modcrypt_area(ctx, once).output
ModcryptBack(once, twice, text, N, L) ==
  /\ twice = text
  /\ SubSeq(once, (16 * N) + 1, L) = SubSeq(text, (16 * N) + 1, L)

(* Twice is what it was, and what follows the whole blocks never changes   *)
(* (main.arm7.c).                                                          *)
LEMMA ModcryptReads ==
  ASSUME CipherInverts, NEW ctx \in Contexts, NEW text, NEW L \in Int, Str(text, L),
         NEW N \in Nat, N = L \div 16, NEW once, NEW twice,
         Modcrypted(once, twice, ctx, text)
  PROVE  ModcryptBack(once, twice, text, N, L)
<1> USE DEF Modcrypted
<1>1. PICK at : Counts(at, ctx, N)
  BY CountsExist
<1> DEFINE x == decrypt_modcrypt_area(ctx, text).output
           y == decrypt_modcrypt_area(ctx, x).output
<1>2. Area(x, text, at, N, L)
  BY <1>1, ModcryptIs
<1> HIDE DEF x
<1>3. Str(x, L) /\ \A i \in ((16 * N) + 1)..L : x[i] = text[i]
  BY <1>2 DEF Area
<1>4. Area(y, x, at, N, L)
  <2>1. Str(x, L)
    BY <1>3
  <2> QED
    BY <1>1, <2>1, ModcryptIs
<1> HIDE DEF y
<1>5. y = text
  <2>1. 16 * N <= L
    BY DEF Str
  <2> QED
    BY <1>1, <1>2, <1>4, <2>1, AreaTwice
<1>6. SubSeq(x, (16 * N) + 1, L) = SubSeq(text, (16 * N) + 1, L)
  <2> DEFINE p == (16 * N) + 1
             m == (L - p) + 1
             u == SubSeq(x, p, L)
             v == SubSeq(text, p, L)
  <2>1. p \in Int /\ p >= 1 /\ L >= p - 1 /\ L <= L
    BY DEF Str
  <2>2. Str(u, m) /\ \A i \in 1..m : u[i] = x[(p - 1) + i]
    <3>1. Str(x, L)
      BY <1>3
    <3> HIDE DEF p
    <3> QED
      BY <2>1, <3>1, StrPart
  <2>3. Str(v, m) /\ \A i \in 1..m : v[i] = text[(p - 1) + i]
    <3> HIDE DEF p
    <3> QED
      BY <2>1, StrPart
  <2>4. \A i \in 1..m : (p - 1) + i \in p..L
    BY <2>1
  <2>5. \A i \in p..L : x[i] = text[i]
    BY <1>3
  <2> HIDE DEF p, u, v
  <2>6. \A i \in 1..m : u[i] = v[i]
    BY <2>2, <2>3, <2>4, <2>5
  <2> HIDE DEF m
  <2>7. u = v
    BY <2>2, <2>3, <2>6, StrEqual
  <2> QED
    BY <2>7 DEF u, v, p
<1> QED
  BY <1>5, <1>6 DEF x, y, ModcryptBack

(* A string that grows by whole blocks.                                    *)
LEMMA GrowsByBlocks ==
  ASSUME NEW N \in Nat, NEW f, \A n \in 1..N : Str(f[n], 16),
         NEW j, j[0] = <<>>, \A n \in 1..N : j[n] = j[n - 1] \o f[n]
  PROVE  Str(j[N], 16 * N) /\ \A n \in 1..N : Block(j[N], n) = f[n]
<1> DEFINE T == {m \in 0..N : /\ Str(j[m], 16 * m)
                              /\ \A n \in 1..m : Block(j[m], n) = f[n]}
<1>2. 0 \in T
  <2>1. Str(<<>>, 0)
    BY DEF Str
  <2> QED
    BY <2>1
<1>3. ASSUME NEW m \in 1..N, m - 1 \in T
      PROVE  m \in T
  <2> DEFINE u == j[m - 1]
             w == j[m]
             h == m - 1
             I == 1
             g == f[m]
  <2>1. /\ Str(u, 16 * h) /\ \A n \in 1..h : Block(u, n) = f[n]
        /\ Str(g, 16 * I) /\ w = u \o g
    <3>1. Str(u, 16 * h) /\ \A n \in 1..h : Block(u, n) = f[n]
      BY <1>3
    <3>2. Str(f[m], 16) /\ j[m] = j[m - 1] \o f[m]
      OBVIOUS
    <3>3. Str(g, 16) /\ w = u \o g
      BY <3>2
    <3>4. 16 = 16 * I
      OBVIOUS
    <3> HIDE DEF u, w, g, I
    <3>5. Str(g, 16 * I)
      BY <3>3, <3>4
    <3> QED
      BY <3>1, <3>3, <3>5
  <2>2. m \in 0..N /\ h \in Nat /\ I \in Nat /\ h + I = m
    OBVIOUS
  <2>3. BlocksOf(w, u, g, h, I)
    <3> HIDE DEF u, w, h, I, g
    <3>1. BlocksOf(u \o g, u, g, h, I)
      BY <2>1, <2>2, AppendedBlocks
    <3> QED
      BY <2>1, <3>1
  <2>4. /\ Str(w, 16 * m) /\ \A n \in 1..h : Block(w, n) = Block(u, n)
        /\ Block(w, m) = Block(g, 1)
    <3>1. I \in 1..I
      OBVIOUS
    <3> HIDE DEF u, w, g
    <3> QED
      BY <2>2, <2>3, <3>1 DEF BlocksOf
  <2>5. Block(g, 1) = g
    BY OwnBlock
  <2>6. ASSUME NEW n \in 1..m
        PROVE  Block(w, n) = f[n]
    <3>1. CASE n = m
      BY <2>4, <2>5, <3>1
    <3>2. CASE n # m
      <4>1. n \in 1..h
        BY <3>2
      <4> QED
        BY <2>1, <2>4, <4>1
    <3> QED
      BY <3>1, <3>2
  <2> QED
    BY <2>2, <2>4, <2>6
<1>4. \A m \in 0..N : m \in T
  <2> HIDE DEF T
  <2> QED
    BY <1>2, <1>3, UpTo
<1>5. N \in T
  <2> HIDE DEF T
  <2> QED
    BY <1>4
<1> QED
  BY <1>5

-----------------------------------------------------------------------------
(* Blocks chained to the cipher text before them (CBC).                    *)

Links == [iv : Blocks16, output : Seq(Byte)]

CbcOut(key, mode, in, iv) ==
  IF mode = AES_DECRYPT THEN XorAll(Decipher(key, in), iv)
                        ELSE Cipher(key, XorAll(in, iv))
CbcStep(key, mode, input, n, before) ==
  [iv |-> IF mode = AES_DECRYPT THEN Block(input, n)
          ELSE CbcOut(key, mode, Block(input, n), before.iv),
   output |-> before.output \o CbcOut(key, mode, Block(input, n), before.iv)]

(* What comes out is a block,                                              *)
LEMMA CbcOutIs ==
  ASSUME CipherInverts, NEW key \in Blocks16, NEW mode, NEW in, Str(in, 16),
         NEW iv \in Blocks16
  PROVE  Str(CbcOut(key, mode, in, iv), 16)
<1>1. Str(iv, 16) /\ in \in Blocks16
  BY DEF Blocks16, Str
<1>2. CASE mode = AES_DECRYPT
  <2> DEFINE d == Decipher(key, in)
  <2>1. Str(d, 16)
    BY <1>1 DEF CipherInverts, Blocks16, Str
  <2> HIDE DEF d
  <2>2. Str(XorAll(d, iv), 16)
    BY <1>1, <2>1, XorAllIs
  <2> QED
    BY <1>2, <2>2 DEF CbcOut, d
<1>3. CASE mode # AES_DECRYPT
  <2> DEFINE x == XorAll(in, iv)
  <2>1. Str(x, 16)
    BY <1>1, XorAllIs
  <2>2. x \in Blocks16
    BY <2>1 DEF Blocks16, Str
  <2> HIDE DEF x
  <2>3. Str(Cipher(key, x), 16)
    BY <2>2 DEF CipherInverts, Blocks16, Str
  <2> QED
    BY <1>3, <2>3 DEF CbcOut, x
<1> QED
  BY <1>2, <1>3

(* and a turn of the loop leaves a state of the loop.                      *)
LEMMA CbcStepIs ==
  ASSUME CipherInverts, NEW key \in Blocks16, NEW mode, NEW input, NEW n,
         Str(Block(input, n), 16), NEW before \in Links
  PROVE  CbcStep(key, mode, input, n, before) \in Links
<1> DEFINE b == Block(input, n)
           o == CbcOut(key, mode, b, before.iv)
<1>1. Str(o, 16)
  BY CbcOutIs DEF Links
<1>2. o \in Blocks16 /\ b \in Blocks16 /\ o \in Seq(Byte)
  BY <1>1 DEF Blocks16, Str
<1> HIDE DEF o, b
<1>3. before.output \o o \in Seq(Byte)
  BY <1>2 DEF Links
<1> QED
  BY <1>2, <1>3 DEF CbcStep, Links, o, b

(* The states of a call's loop.                                            *)
CbcRun(done, key, mode, iv, input, N) ==
  /\ done \in [0..N -> Links] /\ done[0] = [iv |-> iv, output |-> <<>>]
  /\ \A n \in 1..N : done[n] = CbcStep(key, mode, input, n, done[n - 1])

InBlocks(input, N) ==
  /\ N \in Nat /\ Len(input) % 16 = 0 /\ Len(input) \div 16 = N
  /\ \A n \in 1..N : Str(Block(input, n), 16)

CbcDone(done, key, mode, iv, input, N) ==
  /\ CbcRun(done, key, mode, iv, input, N)
  /\ aes_crypt_cbc(key, mode, iv, input)
       = [ret |-> 0, iv |-> done[N].iv, output |-> done[N].output]

(* A call for whole blocks runs through them (aes_crypt_cbc).              *)
LEMMA CbcRuns ==
  ASSUME CipherInverts, NEW key \in Blocks16, NEW mode, NEW iv \in Blocks16,
         NEW input, NEW N, InBlocks(input, N)
  PROVE  \E done : CbcDone(done, key, mode, iv, input, N)
<1> DEFINE base == [iv |-> iv, output |-> <<>>]
<1>20. N \in Nat /\ \A n \in 1..N : Str(Block(input, n), 16)
  BY DEF InBlocks
<1> DEFINE step == [n \in 1..N |-> [x \in Links |-> CbcStep(key, mode, input, n, x)]]
           done[n \in 0..N] == IF n = 0 THEN base ELSE CbcStep(key, mode, input, n, done[n - 1])
<1>1. N \in Nat /\ base \in Links
  BY <1>20 DEF Links
<1>2. ASSUME NEW n \in 1..N, NEW x \in Links
      PROVE  CbcStep(key, mode, input, n, x) \in Links
  BY <1>20, CbcStepIs
<1>3. step \in [1..N -> [Links -> Links]]
  BY <1>2
<1>4. PICK j \in [0..N -> Links] : Runs(j, N, base, step)
  <2> HIDE DEF step
  <2> QED
    BY <1>1, <1>3, RunsExist
<1>5. ASSUME NEW n \in 1..N
      PROVE  j[n - 1] \in Links /\ j[n] = CbcStep(key, mode, input, n, j[n - 1])
  <2>1. j[n - 1] \in Links
    BY <1>1
  <2>2. j[n] = step[n][j[n - 1]]
    BY <1>4 DEF Runs
  <2> QED
    BY <2>1, <2>2
<1>6. j[0] = base
  BY <1>4 DEF Runs
<1> HIDE DEF step
<1>7. j = [n \in 0..N |-> IF n = 0 THEN base ELSE CbcStep(key, mode, input, n, j[n - 1])]
  <2> DEFINE g == [n \in 0..N |-> IF n = 0 THEN base ELSE CbcStep(key, mode, input, n, j[n - 1])]
  <2>1. ASSUME NEW n \in 0..N PROVE j[n] = g[n]
    <3>1. CASE n = 0
      BY <1>6, <3>1
    <3>2. CASE n # 0
      <4>1. n \in 1..N
        BY <1>1, <3>2
      <4> QED
        BY <1>5, <3>2, <4>1
    <3> QED
      BY <3>1, <3>2
  <2>2. j = [n \in 0..N |-> j[n]] /\ g = [n \in 0..N |-> g[n]]
    OBVIOUS
  <2> HIDE DEF g
  <2>3. j = g
    BY <2>1, <2>2
  <2> QED
    BY <2>3 DEF g
<1>8. done = [n \in 0..N |-> IF n = 0 THEN base ELSE CbcStep(key, mode, input, n, done[n - 1])]
  BY <1>7

<1>21. aes_crypt_cbc(key, mode, iv, input)
         = [ret |-> 0, iv |-> done[N].iv, output |-> done[N].output]
  BY DEF aes_crypt_cbc, CbcStep, CbcOut, InBlocks
<1> HIDE DEF done
<1>9. ASSUME NEW n \in 1..N PROVE done[n] = CbcStep(key, mode, input, n, done[n - 1])
  <2> DEFINE g == [y \in 0..N |-> IF y = 0 THEN base ELSE CbcStep(key, mode, input, y, done[y - 1])]
  <2>1. n \in 0..N /\ n # 0
    BY <1>1
  <2>2. g[n] = CbcStep(key, mode, input, n, done[n - 1])
    BY <2>1
  <2>3. done = g
    BY <1>8, Zenon
  <2> HIDE DEF g
  <2> QED
    BY <2>2, <2>3, Zenon
<1>10. done[0] = base
  <2> DEFINE g == [n \in 0..N |-> IF n = 0 THEN base ELSE CbcStep(key, mode, input, n, done[n - 1])]
  <2>1. 0 \in 0..N
    BY <1>1
  <2>2. g[0] = base
    BY <2>1
  <2>3. done = g
    BY <1>8, Zenon
  <2> HIDE DEF g
  <2> QED
    BY <2>2, <2>3, Zenon
<1>11. \A n \in 0..N : done[n] \in Links
  <2> DEFINE T == {n \in 0..N : done[n] \in Links}
  <2>1. 0 \in T
    BY <1>1, <1>10
  <2>2. ASSUME NEW n \in 1..N, n - 1 \in T PROVE n \in T
    <3>1. done[n - 1] \in Links /\ n \in 0..N
      BY <1>1, <2>2
    <3> QED
      BY <1>2, <1>9, <3>1
  <2> HIDE DEF T
  <2>3. \A n \in 0..N : n \in T
    BY <1>1, <2>1, <2>2, UpTo
  <2> QED
    BY <2>3 DEF T
<1>12. done \in [0..N -> Links]
  BY <1>8, <1>11
<1>13. CbcRun(done, key, mode, iv, input, N)
  BY <1>9, <1>10, <1>12 DEF CbcRun
<1> QED
  BY <1>13, <1>21 DEF CbcDone

(* A plain text and what it is chained into.                               *)
Prev(iv, c, n) == IF n = 1 THEN iv ELSE Block(c, n - 1)
Chained(p, c, key, iv, N) ==
  /\ Str(p, 16 * N) /\ Str(c, 16 * N)
  /\ \A n \in 1..N : Block(p, n) = XorAll(Decipher(key, Block(c, n)), Prev(iv, c, n))

(* What the blocks of a call have become.                                  *)
CbcResult(done, key, mode, iv, input, N) ==
  /\ Str(done[N].output, 16 * N) /\ done[0].iv = iv
  /\ \A n \in 1..N :
       /\ Block(done[N].output, n) = CbcOut(key, mode, Block(input, n), done[n - 1].iv)
       /\ done[n - 1].iv \in Blocks16
       /\ done[n].iv = IF mode = AES_DECRYPT THEN Block(input, n)
                       ELSE CbcOut(key, mode, Block(input, n), done[n - 1].iv)

(* Each block comes out of the block that went in and the iv before it.    *)
LEMMA CbcOutputs ==
  ASSUME CipherInverts, NEW key \in Blocks16, NEW mode, NEW iv \in Blocks16,
         NEW input, NEW N \in Nat, Str(input, 16 * N),
         NEW done, CbcRun(done, key, mode, iv, input, N)
  PROVE  CbcResult(done, key, mode, iv, input, N)
<1> DEFINE f == [n \in 1..N |-> CbcOut(key, mode, Block(input, n), done[n - 1].iv)]
           j == [n \in 0..N |-> done[n].output]
<1>1. \A n \in 0..N : done[n] \in Links
  BY DEF CbcRun
<1>2. ASSUME NEW n \in 1..N
      PROVE  n - 1 \in 0..N /\ n \in 0..N
  OBVIOUS
<1>3. ASSUME NEW n \in 1..N
      PROVE  done[n] = CbcStep(key, mode, input, n, done[n - 1])
  BY DEF CbcRun
<1>4. ASSUME NEW n \in 1..N
      PROVE  done[n - 1].iv \in Blocks16
  BY <1>1, <1>2 DEF Links
<1>5. ASSUME NEW n \in 1..N
      PROVE  Str(f[n], 16)
  <2>1. Str(Block(input, n), 16)
    <3> DEFINE L == 16 * N
    <3>1. n \in Int /\ n >= 1 /\ 16 * n <= L /\ Str(input, L)
      OBVIOUS
    <3> HIDE DEF L
    <3> QED
      BY <3>1, BlockIs
  <2>2. Str(CbcOut(key, mode, Block(input, n), done[n - 1].iv), 16)
    BY <1>4, <2>1, CbcOutIs
  <2> QED
    BY <2>2
<1>6. j[0] = <<>> /\ j[N] = done[N].output
  BY DEF CbcRun
<1>7. ASSUME NEW n \in 1..N
      PROVE  j[n] = j[n - 1] \o f[n]
  <2>1. j[n] = done[n].output
    BY <1>2
  <2>2. j[n - 1] = done[n - 1].output
    BY <1>2
  <2>3. f[n] = CbcOut(key, mode, Block(input, n), done[n - 1].iv)
    OBVIOUS
  <2> HIDE DEF f, j
  <2>4. done[n].output
          = done[n - 1].output \o CbcOut(key, mode, Block(input, n), done[n - 1].iv)
    <3> DEFINE o == CbcOut(key, mode, Block(input, n), done[n - 1].iv)
    <3>1. done[n] = CbcStep(key, mode, input, n, done[n - 1])
      BY <1>3
    <3>2. CbcStep(key, mode, input, n, done[n - 1]).output = done[n - 1].output \o o
      BY DEF CbcStep
    <3> QED
      BY <3>1, <3>2
  <2> QED
    BY <2>1, <2>2, <2>3, <2>4
<1>8. \A n \in 1..N : f[n] = CbcOut(key, mode, Block(input, n), done[n - 1].iv)
  OBVIOUS
<1>9. Str(j[N], 16 * N) /\ \A n \in 1..N : Block(j[N], n) = f[n]
  <2> HIDE DEF f, j
  <2> QED
    BY <1>5, <1>6, <1>7, GrowsByBlocks
<1>10. done[0].iv = iv
  BY DEF CbcRun
<1>11. ASSUME NEW n \in 1..N
       PROVE  done[n].iv = IF mode = AES_DECRYPT THEN Block(input, n)
                           ELSE CbcOut(key, mode, Block(input, n), done[n - 1].iv)
  <2>1. done[n] = CbcStep(key, mode, input, n, done[n - 1])
    BY <1>3
  <2> HIDE DEF f, j
  <2>2. CbcStep(key, mode, input, n, done[n - 1]).iv
          = IF mode = AES_DECRYPT THEN Block(input, n)
            ELSE CbcOut(key, mode, Block(input, n), done[n - 1].iv)
    BY DEF CbcStep
  <2> QED
    BY <2>1, <2>2
<1> HIDE DEF f, j
<1>12. \A n \in 1..N : Block(done[N].output, n)
         = CbcOut(key, mode, Block(input, n), done[n - 1].iv)
  BY <1>6, <1>8, <1>9
<1>13. Str(done[N].output, 16 * N)
  BY <1>6, <1>9
<1> QED
  BY <1>4, <1>10, <1>11, <1>12, <1>13 DEF CbcResult

(* Enciphered, the text is chained into what is written, and iv is its     *)
(* last block.                                                             *)
LEMMA CbcEnciphers ==
  ASSUME CipherInverts, NEW key \in Blocks16, NEW iv \in Blocks16,
         NEW input, NEW N \in Nat, Str(input, 16 * N),
         NEW done, CbcRun(done, key, AES_ENCRYPT, iv, input, N)
  PROVE  /\ Chained(input, done[N].output, key, iv, N)
         /\ done[N].iv = Prev(iv, done[N].output, N + 1)
<1> DEFINE c == done[N].output
<1>1. CbcResult(done, key, AES_ENCRYPT, iv, input, N)
  BY CbcOutputs
<1>2. AES_ENCRYPT # AES_DECRYPT
  BY DEF AES_ENCRYPT, AES_DECRYPT
<1>10. /\ Str(c, 16 * N) /\ done[0].iv = iv
       /\ \A n \in 1..N : done[n - 1].iv \in Blocks16
  BY <1>1 DEF CbcResult
<1>3. ASSUME NEW n \in 1..N
      PROVE  /\ Block(c, n) = Cipher(key, XorAll(Block(input, n), done[n - 1].iv))
             /\ done[n].iv = Block(c, n)
  <2>1. /\ Block(c, n) = CbcOut(key, AES_ENCRYPT, Block(input, n), done[n - 1].iv)
        /\ done[n].iv = IF AES_ENCRYPT = AES_DECRYPT THEN Block(input, n)
                        ELSE CbcOut(key, AES_ENCRYPT, Block(input, n), done[n - 1].iv)
    BY <1>1 DEF CbcResult
  <2> QED
    BY <1>2, <2>1 DEF CbcOut
<1> HIDE DEF c
<1>4. ASSUME NEW n \in 1..N
      PROVE  done[n - 1].iv = Prev(iv, c, n)
  <2>1. CASE n = 1
    BY <1>10, <2>1 DEF Prev
  <2>2. CASE n # 1
    <3>1. n - 1 \in 1..N
      BY <2>2
    <3> QED
      BY <1>3, <2>2, <3>1 DEF Prev
  <2> QED
    BY <2>1, <2>2
<1>5. ASSUME NEW n \in 1..N
      PROVE  Block(input, n) = XorAll(Decipher(key, Block(c, n)), Prev(iv, c, n))
  <2> DEFINE p == Prev(iv, c, n)
             b == Block(input, n)
             x == XorAll(b, p)
  <2>1. p \in Blocks16
    BY <1>10, <1>4
  <2>2. Str(b, 16)
    <3> DEFINE L == 16 * N
    <3>1. n \in Int /\ n >= 1 /\ 16 * n <= L /\ Str(input, L)
      OBVIOUS
    <3> HIDE DEF L
    <3> QED
      BY <3>1, BlockIs
  <2>3. Block(c, n) = Cipher(key, x)
    BY <1>3, <1>4
  <2> HIDE DEF p, b
  <2>4. Str(p, 16)
    BY <2>1 DEF Blocks16, Str
  <2>5. Str(x, 16) /\ XorAll(x, p) = b
    BY <2>2, <2>4, XorAllIs, XorAllTwice
  <2>6. x \in Blocks16
    BY <2>5 DEF Blocks16, Str
  <2> HIDE DEF x
  <2>7. Decipher(key, Cipher(key, x)) = x
    BY <2>6 DEF CipherInverts
  <2> QED
    BY <2>3, <2>5, <2>7 DEF p, b
<1>6. done[N].iv = Prev(iv, c, N + 1)
  <2>1. CASE N = 0
    BY <1>10, <2>1 DEF Prev
  <2>2. CASE N # 0
    <3>1. N \in 1..N /\ N + 1 # 1 /\ (N + 1) - 1 = N
      BY <2>2
    <3> QED
      BY <1>3, <3>1 DEF Prev
  <2> QED
    BY <2>1, <2>2
<1>7. Chained(input, c, key, iv, N)
  BY <1>10, <1>5 DEF Chained
<1> QED
  BY <1>6, <1>7 DEF c

(* Deciphered, what is written is chained into the text.                   *)
LEMMA CbcDeciphers ==
  ASSUME CipherInverts, NEW key \in Blocks16, NEW iv \in Blocks16,
         NEW input, NEW N \in Nat, Str(input, 16 * N),
         NEW done, CbcRun(done, key, AES_DECRYPT, iv, input, N)
  PROVE  Chained(done[N].output, input, key, iv, N)
<1> DEFINE p == done[N].output
<1>1. CbcResult(done, key, AES_DECRYPT, iv, input, N)
  BY CbcOutputs
<1>10. Str(p, 16 * N) /\ done[0].iv = iv
  BY <1>1 DEF CbcResult
<1>2. ASSUME NEW n \in 1..N
      PROVE  /\ Block(p, n) = XorAll(Decipher(key, Block(input, n)), done[n - 1].iv)
             /\ done[n].iv = Block(input, n)
  <2>1. /\ Block(p, n) = CbcOut(key, AES_DECRYPT, Block(input, n), done[n - 1].iv)
        /\ done[n].iv = IF AES_DECRYPT = AES_DECRYPT THEN Block(input, n)
                        ELSE CbcOut(key, AES_DECRYPT, Block(input, n), done[n - 1].iv)
    BY <1>1 DEF CbcResult
  <2> QED
    BY <2>1 DEF CbcOut
<1> HIDE DEF p
<1>3. ASSUME NEW n \in 1..N
      PROVE  done[n - 1].iv = Prev(iv, input, n)
  <2>1. CASE n = 1
    BY <1>10, <2>1 DEF Prev
  <2>2. CASE n # 1
    <3>1. n - 1 \in 1..N
      BY <2>2
    <3> QED
      BY <1>2, <2>2, <3>1 DEF Prev
  <2> QED
    BY <2>1, <2>2
<1>4. Chained(p, input, key, iv, N)
  BY <1>10, <1>2, <1>3 DEF Chained
<1> QED
  BY <1>4 DEF p

(* A cipher text belongs to one plain text.                                *)
LEMMA ChainedOnce ==
  ASSUME NEW p, NEW q, NEW c, NEW key, NEW iv, NEW N \in Nat,
         Chained(p, c, key, iv, N), Chained(q, c, key, iv, N)
  PROVE  p = q
<1>1. Str(p, 16 * N) /\ Str(q, 16 * N) /\ \A n \in 1..N : Block(p, n) = Block(q, n)
  BY DEF Chained
<1> QED
  BY <1>1, BlocksEqual

(* A chain goes on where another ended.                                    *)
LEMMA ChainsJoin ==
  ASSUME NEW p, NEW q, NEW c, NEW d, NEW key, NEW iv, NEW A \in Nat, NEW B \in Nat,
         Chained(p, c, key, iv, A), Chained(q, d, key, Prev(iv, c, A + 1), B)
  PROVE  Chained(p \o q, c \o d, key, iv, A + B)
<1> DEFINE x == p \o q
           y == c \o d
<1>1. /\ Str(p, 16 * A) /\ Str(c, 16 * A) /\ Str(q, 16 * B) /\ Str(d, 16 * B)
      /\ \A n \in 1..A :
           Block(p, n) = XorAll(Decipher(key, Block(c, n)), Prev(iv, c, n))
      /\ \A n \in 1..B : Block(q, n)
           = XorAll(Decipher(key, Block(d, n)), Prev(Prev(iv, c, A + 1), d, n))
  BY DEF Chained
<1>2. BlocksOf(x, p, q, A, B) /\ BlocksOf(y, c, d, A, B)
  BY <1>1, AppendedBlocks
<1> HIDE DEF x, y
<1>3. /\ Str(x, 16 * (A + B)) /\ Str(y, 16 * (A + B))
      /\ \A n \in 1..A : Block(x, n) = Block(p, n)
      /\ \A n \in 1..A : Block(y, n) = Block(c, n)
      /\ \A n \in 1..B : Block(x, A + n) = Block(q, n)
      /\ \A n \in 1..B : Block(y, A + n) = Block(d, n)
  BY <1>2 DEF BlocksOf
<1>4. ASSUME NEW n \in 1..(A + B)
      PROVE  Block(x, n) = XorAll(Decipher(key, Block(y, n)), Prev(iv, y, n))
  <2>1. CASE n \in 1..A
    <3>1. Prev(iv, y, n) = Prev(iv, c, n)
      <4>1. CASE n = 1
        BY <4>1 DEF Prev
      <4>2. CASE n # 1
        <5>1. n - 1 \in 1..A
          BY <2>1, <4>2
        <5> QED
          BY <1>3, <4>2, <5>1 DEF Prev
      <4> QED
        BY <4>1, <4>2
    <3> QED
      BY <1>1, <1>3, <2>1, <3>1
  <2>2. CASE n \notin 1..A
    <3> DEFINE h == n - A
    <3>1. h \in 1..B /\ A + h = n
      BY <2>2
    <3> HIDE DEF h
    <3>2. Block(x, n) = Block(q, h) /\ Block(y, n) = Block(d, h)
      BY <1>3, <3>1
    <3>3. Prev(iv, y, n) = Prev(Prev(iv, c, A + 1), d, h)
      <4>1. CASE h = 1
        <5>1. n = A + 1
          BY <3>1, <4>1
        <5>2. CASE A = 0
          BY <4>1, <5>1, <5>2 DEF Prev
        <5>3. CASE A # 0
          <6>1. A \in 1..A /\ n # 1 /\ n - 1 = A /\ (A + 1) - 1 = A /\ A + 1 # 1
            BY <5>1, <5>3
          <6>2. Prev(iv, y, n) = Block(y, A) /\ Prev(iv, c, A + 1) = Block(c, A)
            BY <6>1 DEF Prev
          <6>3. Prev(Prev(iv, c, A + 1), d, h) = Prev(iv, c, A + 1)
            BY <4>1 DEF Prev
          <6> QED
            BY <1>3, <6>1, <6>2, <6>3
        <5> QED
          BY <5>2, <5>3
      <4>2. CASE h # 1
        <5>1. h - 1 \in 1..B /\ A + (h - 1) = n - 1 /\ n # 1
          BY <3>1, <4>2
        <5>2. Block(y, n - 1) = Block(d, h - 1)
          BY <1>3, <5>1
        <5> QED
          BY <4>2, <5>1, <5>2 DEF Prev
      <4> QED
        BY <4>1, <4>2
    <3> QED
      BY <1>1, <3>1, <3>2, <3>3
  <2> QED
    BY <2>1, <2>2
<1>5. Chained(x, y, key, iv, A + B)
  BY <1>3, <1>4 DEF Chained
<1> QED
  BY <1>5 DEF x, y

(* A call that enciphers, and one that deciphers.                          *)
CbcSealed(r, input, key, iv, N) ==
  /\ r.ret = 0 /\ r.iv \in Blocks16 /\ r.iv = Prev(iv, r.output, N + 1)
  /\ Chained(input, r.output, key, iv, N)
CbcOpened(r, input, key, iv, N) ==
  r.ret = 0 /\ Chained(r.output, input, key, iv, N)

(* A call for N blocks.                                                    *)
LEMMA CbcCalled ==
  ASSUME CipherInverts, NEW key \in Blocks16, NEW mode, NEW iv \in Blocks16,
         NEW input, NEW N \in Nat, Str(input, 16 * N)
  PROVE  \E done : /\ CbcRun(done, key, mode, iv, input, N)
                   /\ aes_crypt_cbc(key, mode, iv, input)
                        = [ret |-> 0, iv |-> done[N].iv, output |-> done[N].output]
<1> DEFINE M == Len(input) \div 16
<1>1. Len(input) = 16 * N
  BY DEF Str
<1>2. Len(input) % 16 = 0 /\ M = N
  BY <1>1
<1>3. ASSUME NEW n \in 1..N
      PROVE  Str(Block(input, n), 16)
  <2> DEFINE L == 16 * N
  <2>1. n \in Int /\ n >= 1 /\ 16 * n <= L /\ Str(input, L)
    OBVIOUS
  <2> HIDE DEF L, M
  <2> QED
    BY <2>1, BlockIs
<1>4. InBlocks(input, N)
  BY <1>2, <1>3 DEF InBlocks
<1>5. \E done : CbcDone(done, key, mode, iv, input, N)
  BY <1>4, CbcRuns
<1> QED
  BY <1>5, Zenon DEF CbcDone

(* Enciphering calls and                                                   *)
LEMMA CbcSeals ==
  ASSUME CipherInverts, NEW key \in Blocks16, NEW iv \in Blocks16,
         NEW input, NEW N \in Nat, Str(input, 16 * N)
  PROVE  CbcSealed(aes_crypt_cbc(key, AES_ENCRYPT, iv, input), input, key, iv, N)
<1> DEFINE r == aes_crypt_cbc(key, AES_ENCRYPT, iv, input)
<1>1. PICK done : /\ CbcRun(done, key, AES_ENCRYPT, iv, input, N)
                  /\ r = [ret |-> 0, iv |-> done[N].iv, output |-> done[N].output]
  BY CbcCalled
<1> HIDE DEF r
<1>2. r.ret = 0 /\ r.iv = done[N].iv /\ r.output = done[N].output
  BY <1>1
<1>3. /\ Chained(input, done[N].output, key, iv, N)
      /\ done[N].iv = Prev(iv, done[N].output, N + 1)
  BY <1>1, CbcEnciphers
<1>4. done[N].iv \in Blocks16
  <2>1. done[N] \in Links
    BY <1>1 DEF CbcRun
  <2> QED
    BY <2>1 DEF Links
<1>5. CbcSealed(r, input, key, iv, N)
  BY <1>2, <1>3, <1>4 DEF CbcSealed
<1> QED
  BY <1>5 DEF r

(* deciphering ones, for any number of blocks (aes_crypt_cbc).             *)
LEMMA CbcOpens ==
  ASSUME CipherInverts, NEW key \in Blocks16, NEW iv \in Blocks16,
         NEW input, NEW N \in Nat, Str(input, 16 * N)
  PROVE  CbcOpened(aes_crypt_cbc(key, AES_DECRYPT, iv, input), input, key, iv, N)
<1> DEFINE r == aes_crypt_cbc(key, AES_DECRYPT, iv, input)
<1>1. PICK done : /\ CbcRun(done, key, AES_DECRYPT, iv, input, N)
                  /\ r = [ret |-> 0, iv |-> done[N].iv, output |-> done[N].output]
  BY CbcCalled
<1> HIDE DEF r
<1>2. r.ret = 0 /\ r.output = done[N].output
  BY <1>1
<1>3. Chained(done[N].output, input, key, iv, N)
  BY <1>1, CbcDeciphers
<1>4. CbcOpened(r, input, key, iv, N)
  BY <1>2, <1>3 DEF CbcOpened
<1> QED
  BY <1>4 DEF r

(* A text in two pieces.                                                   *)
InPieces(one, two, text, cut, L) ==
  Str(one, cut) /\ Str(two, L - cut) /\ one \o two = text

(* Cut anywhere, the pieces make the text.                                 *)
LEMMA Pieces ==
  ASSUME NEW text, NEW L \in Int, Str(text, L), NEW cut \in Int, cut >= 0, cut <= L
  PROVE  InPieces(SubSeq(text, 1, cut), SubSeq(text, cut + 1, L), text, cut, L)
<1> DEFINE one == SubSeq(text, 1, cut)
           two == SubSeq(text, cut + 1, L)
           m == L - cut
           x == one \o two
<1>1. /\ Str(one, (cut - 1) + 1) /\ \A i \in 1..((cut - 1) + 1) : one[i] = text[(1 - 1) + i]
  <2>1. 1 \in Int /\ 1 >= 1 /\ cut >= 1 - 1 /\ cut <= L
    OBVIOUS
  <2> QED
    BY <2>1, StrPart
<1>2. /\ Str(two, (L - (cut + 1)) + 1)
      /\ \A i \in 1..((L - (cut + 1)) + 1) : two[i] = text[((cut + 1) - 1) + i]
  <2> DEFINE h == cut + 1
  <2>1. h \in Int /\ h >= 1 /\ L >= h - 1 /\ L <= L
    OBVIOUS
  <2> HIDE DEF h
  <2>2. /\ Str(SubSeq(text, h, L), (L - h) + 1)
        /\ \A i \in 1..((L - h) + 1) : SubSeq(text, h, L)[i] = text[(h - 1) + i]
    BY <2>1, StrPart
  <2> QED
    BY <2>2 DEF h
<1>3. (cut - 1) + 1 = cut /\ (L - (cut + 1)) + 1 = m /\ (cut + 1) - 1 = cut /\ m \in Int
      /\ cut + m = L
  OBVIOUS
<1> HIDE DEF one, two, m
<1>4. Str(one, cut) /\ \A i \in 1..cut : one[i] = text[i]
  BY <1>1, <1>3
<1>5. Str(two, m) /\ \A i \in 1..m : two[i] = text[cut + i]
  BY <1>2, <1>3
<1>6. Appended(x, one, two, cut, m)
  BY <1>4, <1>5, StrJoined
<1> HIDE DEF x
<1>7. /\ Str(x, L) /\ \A i \in 1..cut : x[i] = one[i]
      /\ \A i \in 1..m : x[cut + i] = two[i]
  BY <1>3, <1>6 DEF Appended
<1>8. ASSUME NEW i \in 1..L
      PROVE  x[i] = text[i]
  <2>1. CASE i <= cut
    <3>1. i \in 1..cut
      BY <2>1
    <3> QED
      BY <1>4, <1>7, <3>1
  <2>2. CASE ~(i <= cut)
    <3> DEFINE h == i - cut
    <3>1. h \in 1..m /\ cut + h = i
      BY <1>3, <2>2
    <3> HIDE DEF h
    <3> QED
      BY <1>5, <1>7, <3>1
  <2> QED
    BY <2>1, <2>2
<1>9. x = text
  BY <1>7, <1>8, StrEqual
<1> QED
  BY <1>4, <1>5, <1>9 DEF InPieces, one, two, m, x

(* A text enciphered in two calls and deciphered in one.                   *)
CbcInTwo(c, d, key, iv, text, one, two, A, B) ==
  /\ Str(one, 16 * A) /\ Str(two, 16 * B) /\ one \o two = text
  /\ c = aes_crypt_cbc(key, AES_ENCRYPT, iv, one)
  /\ d = aes_crypt_cbc(key, AES_ENCRYPT, c.iv, two)
CbcBack(c, d, key, iv, text) ==
  /\ c.ret = 0 /\ d.ret = 0
  /\ aes_crypt_cbc(key, AES_DECRYPT, iv, c.output \o d.output).output = text

(* So the text comes back, whole blocks at a time (aes_crypt_cbc).         *)
LEMMA CbcReads ==
  ASSUME CipherInverts, NEW key \in Blocks16, NEW iv \in Blocks16,
         NEW text, NEW one, NEW two, NEW A \in Nat, NEW B \in Nat, NEW c, NEW d,
         CbcInTwo(c, d, key, iv, text, one, two, A, B)
  PROVE  CbcBack(c, d, key, iv, text)
<1> USE DEF CbcInTwo
<1> DEFINE e == c.output \o d.output
           r == aes_crypt_cbc(key, AES_DECRYPT, iv, e)
           N == A + B
<1>1. CbcSealed(c, one, key, iv, A)
  BY CbcSeals
<1>2. c.iv \in Blocks16 /\ c.iv = Prev(iv, c.output, A + 1) /\ c.ret = 0
      /\ Chained(one, c.output, key, iv, A)
  BY <1>1 DEF CbcSealed
<1>3. CbcSealed(d, two, key, c.iv, B)
  BY <1>2, CbcSeals
<1>4. d.ret = 0 /\ Chained(two, d.output, key, c.iv, B)
  BY <1>3 DEF CbcSealed
<1>5. Chained(one \o two, e, key, iv, N)
  BY <1>2, <1>4, ChainsJoin
<1>6. N \in Nat /\ Str(e, 16 * N)
  BY <1>5 DEF Chained
<1> HIDE DEF e, N
<1>7. CbcOpened(r, e, key, iv, N)
  BY <1>6, CbcOpens
<1> HIDE DEF r
<1>8. Chained(r.output, e, key, iv, N)
  BY <1>7 DEF CbcOpened
<1>9. r.output = one \o two
  BY <1>5, <1>6, <1>8, ChainedOnce
<1> QED
  BY <1>2, <1>4, <1>9 DEF r, e, CbcBack

(* What is not a string of whole blocks is refused.                        *)
LEMMA CbcRefuses ==
  ASSUME NEW key, NEW mode, NEW iv, NEW input, Len(input) % 16 # 0
  PROVE  aes_crypt_cbc(key, mode, iv, input).ret # 0
  BY DEF aes_crypt_cbc, AES_INVALID_INPUT_LENGTH

(* Bytes under the cipher of the sixteen before them (CFB).                *)

Turn(off, i) == (off + (i - 1)) % 16
KeyStream(key, n, iv) == IF n = 0 THEN Cipher(key, iv) ELSE iv
CfbOut(key, off, input, i, before) ==
  Xor(input[i], KeyStream(key, Turn(off, i), before.iv)[Turn(off, i) + 1])
CfbStep(key, mode, off, input, i, before) ==
  [iv |-> [KeyStream(key, Turn(off, i), before.iv) EXCEPT ![Turn(off, i) + 1] =
             IF mode = AES_DECRYPT THEN input[i] ELSE CfbOut(key, off, input, i, before)],
   output |-> Append(before.output, CfbOut(key, off, input, i, before))]

(* iv_off is a place of a block.                                           *)
LEMMA TurnIs ==
  ASSUME NEW off \in Int, NEW i \in Int
  PROVE  Turn(off, i) + 1 \in 1..16
<1> DEFINE x == off + (i - 1)
<1>1. x \in Int
  OBVIOUS
<1> HIDE DEF x
<1>2. x % 16 \in 0..15
  BY <1>1
<1> QED
  BY <1>2 DEF Turn, x

(* The key stream is a block.                                              *)
LEMMA StreamIs ==
  ASSUME CipherInverts, NEW key \in Blocks16, NEW n, NEW iv \in Blocks16
  PROVE  KeyStream(key, n, iv) \in Blocks16
BY DEF KeyStream, CipherInverts

(* A function on 1..n is a string.                                         *)
LEMMA FunctionStr ==
  ASSUME NEW n \in Nat, NEW e \in [1..n -> Byte]
  PROVE  Str(e, n)
<1>1. e \in Seq(Byte) /\ Len(e) = n
  OBVIOUS
<1> QED
  BY <1>1 DEF Str

(* A block with one byte replaced.                                         *)
LEMMA BlockByte ==
  ASSUME NEW v \in Blocks16, NEW place \in 1..16, NEW b \in Byte
  PROVE  /\ v[place] \in Byte /\ [v EXCEPT ![place] = b] \in Blocks16
         /\ [v EXCEPT ![place] = b][place] = b
<1> DEFINE w == [v EXCEPT ![place] = b]
           e == [i \in 1..16 |-> IF i = place THEN b ELSE v[i]]
<1>1. Str(v, 16)
  BY DEF Blocks16, Str
<1>2. \A i \in 1..16 : v[i] \in Byte
  BY <1>1, StrIs
<1>3. DOMAIN v = 1..16 /\ v = [i \in 1..16 |-> v[i]]
  BY DEF Blocks16
<1>4. w = [i \in 1..16 |-> IF i = place THEN b ELSE v[i]]
  BY <1>3
<1>5. e \in [1..16 -> Byte] /\ w = e /\ w[place] = b
  BY <1>2, <1>4
<1>6. w \in Seq(Byte) /\ Len(w) = 16
  <2> HIDE DEF e, w
  <2>1. 16 \in Nat
    OBVIOUS
  <2>2. Str(e, 16)
    BY <1>5, <2>1, FunctionStr
  <2> QED
    BY <1>5, <2>2 DEF Str
<1> QED
  BY <1>2, <1>5, <1>6 DEF Blocks16, w

(* What comes out is a byte,                                               *)
LEMMA CfbOutIs ==
  ASSUME CipherInverts, NEW key \in Blocks16, NEW off \in Int, NEW input, NEW i \in Int,
         input[i] \in Byte, NEW before \in Links
  PROVE  CfbOut(key, off, input, i, before) \in Byte
<1> DEFINE s == KeyStream(key, Turn(off, i), before.iv)
           place == Turn(off, i) + 1
<1>1. s \in Blocks16
  BY StreamIs DEF Links
<1>2. place \in 1..16
  BY TurnIs
<1> HIDE DEF s, place
<1>3. s[place] \in Byte
  <2>1. 0 \in Byte
    BY DEF Byte
  <2> QED
    BY <1>1, <1>2, <2>1, BlockByte
<1>4. Xor(input[i], s[place]) \in Byte
  BY <1>3, XorCancels
<1> QED
  BY <1>4 DEF CfbOut, s, place

(* and a turn of the loop leaves a state of the loop.                      *)
LEMMA CfbStepIs ==
  ASSUME CipherInverts, NEW key \in Blocks16, NEW mode, NEW off \in Int, NEW input,
         NEW i \in Int, input[i] \in Byte, NEW before \in Links
  PROVE  CfbStep(key, mode, off, input, i, before) \in Links
<1> DEFINE s == KeyStream(key, Turn(off, i), before.iv)
           place == Turn(off, i) + 1
           o == CfbOut(key, off, input, i, before)
           b == IF mode = AES_DECRYPT THEN input[i] ELSE o
           w == [s EXCEPT ![place] = b]
           u == before.output
<1>1. s \in Blocks16
  BY StreamIs DEF Links
<1>2. place \in 1..16
  BY TurnIs
<1>3. o \in Byte
  BY CfbOutIs
<1>4. CfbStep(key, mode, off, input, i, before) = [iv |-> w, output |-> Append(u, o)]
  BY DEF CfbStep
<1>5. u \in Seq(Byte)
  BY DEF Links
<1> HIDE DEF s, place, o, u
<1>6. b \in Byte
  BY <1>3
<1> HIDE DEF b
<1>7. w \in Blocks16
  BY <1>1, <1>2, <1>6, BlockByte
<1> HIDE DEF w
<1>8. Append(u, o) \in Seq(Byte)
  BY <1>3, <1>5
<1> QED
  BY <1>4, <1>7, <1>8 DEF Links

(* The states of a call's loop.                                            *)
CfbRun(done, key, mode, off, iv, input, N) ==
  /\ done \in [0..N -> Links] /\ done[0] = [iv |-> iv, output |-> <<>>]
  /\ \A i \in 1..N : done[i] = CfbStep(key, mode, off, input, i, done[i - 1])

(* A call runs through them (aes_crypt_cfb128).                            *)
LEMMA CfbRuns ==
  ASSUME CipherInverts, NEW key \in Blocks16, NEW mode, NEW off \in Int,
         NEW iv \in Blocks16, NEW input, Str(input, Len(input))
  PROVE  \E done : /\ CfbRun(done, key, mode, off, iv, input, Len(input))
                   /\ aes_crypt_cfb128(key, mode, off, iv, input)
                        = [iv |-> done[Len(input)].iv, iv_off |-> (off + Len(input)) % 16,
                           output |-> done[Len(input)].output]
<1> DEFINE N == Len(input)
           base == [iv |-> iv, output |-> <<>>]
<1>20. N \in Nat /\ \A i \in 1..N : i \in Int /\ input[i] \in Byte
  <2>1. Str(input, N)
    OBVIOUS
  <2> HIDE DEF N
  <2> QED
    BY <2>1, StrIs
<1> HIDE DEF N
<1> DEFINE step == [i \in 1..N |-> [x \in Links |-> CfbStep(key, mode, off, input, i, x)]]
           done[i \in 0..N] == IF i = 0 THEN base ELSE CfbStep(key, mode, off, input, i, done[i - 1])
<1>1. N \in Nat /\ base \in Links
  BY <1>20 DEF Links
<1>2. ASSUME NEW i \in 1..N, NEW x \in Links
      PROVE  CfbStep(key, mode, off, input, i, x) \in Links
  BY <1>20, CfbStepIs
<1>3. step \in [1..N -> [Links -> Links]]
  BY <1>2
<1>4. PICK j \in [0..N -> Links] : Runs(j, N, base, step)
  <2> HIDE DEF step
  <2> QED
    BY <1>1, <1>3, RunsExist
<1>5. ASSUME NEW i \in 1..N
      PROVE  j[i - 1] \in Links /\ j[i] = CfbStep(key, mode, off, input, i, j[i - 1])
  <2>1. j[i - 1] \in Links
    BY <1>1
  <2>2. j[i] = step[i][j[i - 1]]
    BY <1>4 DEF Runs
  <2> QED
    BY <2>1, <2>2
<1>6. j[0] = base
  BY <1>4 DEF Runs
<1> HIDE DEF step
<1>7. j = [i \in 0..N |-> IF i = 0 THEN base ELSE CfbStep(key, mode, off, input, i, j[i - 1])]
  <2> DEFINE g == [i \in 0..N |-> IF i = 0 THEN base ELSE CfbStep(key, mode, off, input, i, j[i - 1])]
  <2>1. ASSUME NEW i \in 0..N PROVE j[i] = g[i]
    <3>1. CASE i = 0
      BY <1>6, <3>1
    <3>2. CASE i # 0
      <4>1. i \in 1..N
        BY <1>1, <3>2
      <4> QED
        BY <1>5, <3>2, <4>1
    <3> QED
      BY <3>1, <3>2
  <2>2. j = [i \in 0..N |-> j[i]] /\ g = [i \in 0..N |-> g[i]]
    OBVIOUS
  <2> HIDE DEF g
  <2>3. j = g
    BY <2>1, <2>2
  <2> QED
    BY <2>3 DEF g
<1>8. done = [i \in 0..N |-> IF i = 0 THEN base ELSE CfbStep(key, mode, off, input, i, done[i - 1])]
  BY <1>7

<1>21. aes_crypt_cfb128(key, mode, off, iv, input)
         = [iv |-> done[N].iv, iv_off |-> (off + N) % 16, output |-> done[N].output]
  BY Zenon DEF aes_crypt_cfb128, CfbStep, CfbOut, KeyStream, Turn, N
<1> HIDE DEF done
<1>9. ASSUME NEW i \in 1..N PROVE done[i] = CfbStep(key, mode, off, input, i, done[i - 1])
  <2> DEFINE g == [y \in 0..N |-> IF y = 0 THEN base ELSE CfbStep(key, mode, off, input, y, done[y - 1])]
  <2>1. i \in 0..N /\ i # 0
    BY <1>1
  <2>2. g[i] = CfbStep(key, mode, off, input, i, done[i - 1])
    BY <2>1
  <2>3. done = g
    BY <1>8, Zenon
  <2> HIDE DEF g
  <2> QED
    BY <2>2, <2>3, Zenon
<1>10. done[0] = base
  <2> DEFINE g == [i \in 0..N |-> IF i = 0 THEN base ELSE CfbStep(key, mode, off, input, i, done[i - 1])]
  <2>1. 0 \in 0..N
    BY <1>1
  <2>2. g[0] = base
    BY <2>1
  <2>3. done = g
    BY <1>8, Zenon
  <2> HIDE DEF g
  <2> QED
    BY <2>2, <2>3, Zenon
<1>11. \A i \in 0..N : done[i] \in Links
  <2> DEFINE T == {i \in 0..N : done[i] \in Links}
  <2>1. 0 \in T
    BY <1>1, <1>10
  <2>2. ASSUME NEW i \in 1..N, i - 1 \in T PROVE i \in T
    <3>1. done[i - 1] \in Links /\ i \in 0..N
      BY <1>1, <2>2
    <3> QED
      BY <1>2, <1>9, <3>1
  <2> HIDE DEF T
  <2>3. \A i \in 0..N : i \in T
    BY <1>1, <2>1, <2>2, UpTo
  <2> QED
    BY <2>3 DEF T
<1>12. done \in [0..N -> Links]
  BY <1>8, <1>11
<1>13. CfbRun(done, key, mode, off, iv, input, N)
  BY <1>9, <1>10, <1>12 DEF CfbRun
<1> QED
  BY <1>13, <1>21 DEF N

(* x has the n bytes of v and then b.                                      *)
Longer(x, v, b, n) ==
  Str(x, n + 1) /\ n \in Nat /\ x[n + 1] = b /\ \A i \in 1..n : x[i] = v[i]

(* Append, byte by byte.                                                   *)
LEMMA StrLonger ==
  ASSUME NEW v, NEW n, Str(v, n), NEW b \in Byte
  PROVE  Longer(Append(v, b), v, b, n)
<1>1. v \in Seq(Byte) /\ Len(v) = n /\ n \in Nat
  BY DEF Str
<1> DEFINE x == Append(v, b)
<1>2. x \in Seq(Byte) /\ Len(x) = n + 1 /\ x[n + 1] = b
  BY <1>1
<1>3. \A i \in 1..n : x[i] = v[i]
  BY <1>1
<1> QED
  BY <1>1, <1>2, <1>3 DEF Longer, Str

ByteByByte(j, f, N) ==
  /\ N \in Nat /\ j[0] = <<>>
  /\ \A n \in 1..N : f[n] \in Byte
  /\ \A n \in 1..N : j[n] = Append(j[n - 1], f[n])

(* A string that grows by bytes has the bytes it grew by.                  *)
LEMMA GrowsByBytes ==
  ASSUME NEW N, NEW f, NEW j, ByteByByte(j, f, N)
  PROVE  Str(j[N], N) /\ \A n \in 1..N : j[N][n] = f[n]
<1> DEFINE T == {m \in 0..N : Str(j[m], m) /\ \A n \in 1..m : j[m][n] = f[n]}
<1>1. /\ N \in Nat /\ j[0] = <<>>
      /\ \A n \in 1..N : f[n] \in Byte
      /\ \A n \in 1..N : j[n] = Append(j[n - 1], f[n])
  BY DEF ByteByByte
<1>2. 0 \in T
  <2>1. Str(<<>>, 0)
    BY DEF Str
  <2> QED
    BY <1>1, <2>1
<1>3. ASSUME NEW m \in 1..N, m - 1 \in T
      PROVE  m \in T
  <2> DEFINE u == j[m - 1]
             w == j[m]
             h == m - 1
             g == f[m]
  <2>1. Str(u, h) /\ \A n \in 1..h : u[n] = f[n]
    BY <1>3
  <2>2. g \in Byte /\ w = Append(u, g)
    BY <1>1
  <2>3. h \in Nat /\ h + 1 = m /\ m \in 0..N
    BY <1>1
  <2> HIDE DEF u, w, h, g
  <2>4. Longer(w, u, g, h)
    BY <2>1, <2>2, StrLonger
  <2>5. Str(w, m) /\ w[m] = g /\ \A n \in 1..h : w[n] = u[n]
    BY <2>3, <2>4 DEF Longer
  <2>6. ASSUME NEW n \in 1..m
        PROVE  w[n] = f[n]
    <3>1. CASE n = m
      BY <2>5, <3>1 DEF g
    <3>2. CASE n # m
      <4>1. n \in 1..h
        BY <2>3, <3>2
      <4> QED
        BY <2>1, <2>5, <4>1
    <3> QED
      BY <3>1, <3>2
  <2> QED
    BY <2>3, <2>5, <2>6 DEF w
<1>4. \A m \in 0..N : m \in T
  <2> HIDE DEF T
  <2> QED
    BY <1>1, <1>2, <1>3, UpTo
<1>5. N \in T
  <2> HIDE DEF T
  <2> QED
    BY <1>1, <1>4
<1> QED
  BY <1>5

(* A plain text, byte by byte, and what it is enciphered to.               *)
CfbByte(p, c, key, n, before, after) ==
  /\ p = Xor(c, KeyStream(key, n, before)[n + 1])
  /\ after = [KeyStream(key, n, before) EXCEPT ![n + 1] = c]
CfbFlow(p, c, key, off, iv, L, ivs) ==
  /\ Str(p, L) /\ Str(c, L) /\ ivs[0] = iv
  /\ \A i \in 0..L : ivs[i] \in Blocks16
  /\ \A i \in 1..L : CfbByte(p[i], c[i], key, Turn(off, i), ivs[i - 1], ivs[i])

(* Either way the loop enciphers or deciphers, plain and cipher text stand *)
(* in this relation.                                                       *)
LEMMA CfbFlows ==
  ASSUME CipherInverts, NEW key \in Blocks16, NEW mode, NEW off \in Int,
         NEW iv \in Blocks16, NEW input, NEW N \in Nat, Str(input, N),
         NEW done, CfbRun(done, key, mode, off, iv, input, N)
  PROVE  CfbFlow(IF mode = AES_DECRYPT THEN done[N].output ELSE input,
                 IF mode = AES_DECRYPT THEN input ELSE done[N].output,
                 key, off, iv, N, [i \in 0..N |-> done[i].iv])
<1> DEFINE f == [i \in 1..N |-> CfbOut(key, off, input, i, done[i - 1])]
           j == [i \in 0..N |-> done[i].output]
           ivs == [i \in 0..N |-> done[i].iv]
           out == done[N].output
           p == IF mode = AES_DECRYPT THEN out ELSE input
           c == IF mode = AES_DECRYPT THEN input ELSE out
<1>1. \A i \in 0..N : done[i] \in Links
  BY DEF CfbRun
<1>2. ASSUME NEW i \in 1..N
      PROVE  /\ i \in Int /\ input[i] \in Byte /\ i - 1 \in 0..N /\ i \in 0..N
             /\ done[i - 1] \in Links
  <2>1. input[i] \in Byte
    BY StrIs
  <2> QED
    BY <1>1, <2>1
<1>3. ASSUME NEW i \in 1..N
      PROVE  done[i] = CfbStep(key, mode, off, input, i, done[i - 1])
  BY DEF CfbRun
<1>4. \A i \in 0..N : ivs[i] = done[i].iv /\ ivs[i] \in Blocks16
  BY <1>1 DEF Links
<1>5. ASSUME NEW i \in 1..N
      PROVE  f[i] \in Byte /\ f[i] = CfbOut(key, off, input, i, done[i - 1])
  BY <1>2, CfbOutIs
<1>6. j[0] = <<>> /\ j[N] = out /\ ivs[0] = iv
  BY DEF CfbRun
<1>7. \A i \in 0..N : j[i] = done[i].output
  OBVIOUS
<1> HIDE DEF f, j, ivs, out
<1>8. ASSUME NEW i \in 1..N
      PROVE  j[i] = Append(j[i - 1], f[i])
  <2>1. CfbStep(key, mode, off, input, i, done[i - 1]).output
          = Append(done[i - 1].output, CfbOut(key, off, input, i, done[i - 1]))
    BY DEF CfbStep
  <2>2. done[i].output = Append(done[i - 1].output, f[i])
    BY <1>3, <1>5, <2>1
  <2>3. j[i] = done[i].output /\ j[i - 1] = done[i - 1].output
    BY <1>2, <1>7
  <2> QED
    BY <2>2, <2>3
<1>9. Str(j[N], N) /\ \A i \in 1..N : j[N][i] = f[i]
  <2>1. j[0] = <<>>
    BY <1>6
  <2>2. \A i \in 1..N : f[i] \in Byte
    BY <1>5
  <2>3. ByteByByte(j, f, N)
    BY <1>8, <2>1, <2>2 DEF ByteByByte
  <2> QED
    BY <2>3, GrowsByBytes
<1>10. Str(out, N) /\ \A i \in 1..N : out[i] = f[i]
  BY <1>6, <1>9
<1>11. ASSUME NEW i \in 1..N
       PROVE  CfbByte(p[i], c[i], key, Turn(off, i), ivs[i - 1], ivs[i])
  <2> DEFINE n == Turn(off, i)
             before == ivs[i - 1]
             s == KeyStream(key, n, before)
             x == s[n + 1]
             a == input[i]
             b == f[i]
  <2>1. before = done[i - 1].iv /\ before \in Blocks16 /\ n + 1 \in 1..16
    BY <1>2, <1>4, TurnIs
  <2>2. b = Xor(a, x)
    BY <1>5, <2>1 DEF CfbOut
  <2>3. a \in Byte /\ x \in Byte
    <3> HIDE DEF n, before
    <3>1. s \in Blocks16
      BY <2>1, StreamIs
    <3>2. 0 \in Byte
      BY DEF Byte
    <3> HIDE DEF s
    <3> QED
      BY <1>2, <2>1, <3>1, <3>2, BlockByte
  <2>4. a = Xor(b, x)
    <3> HIDE DEF a, b, x
    <3> QED
      BY <2>2, <2>3, XorCancels
  <2>5. ivs[i] = [s EXCEPT ![n + 1] = IF mode = AES_DECRYPT THEN a ELSE b]
    <3>1. CfbStep(key, mode, off, input, i, done[i - 1]).iv
            = [KeyStream(key, Turn(off, i), done[i - 1].iv) EXCEPT ![Turn(off, i) + 1] =
                 IF mode = AES_DECRYPT THEN input[i]
                 ELSE CfbOut(key, off, input, i, done[i - 1])]
      BY DEF CfbStep
    <3>2. ivs[i] = CfbStep(key, mode, off, input, i, done[i - 1]).iv
      BY <1>2, <1>3, <1>4
    <3>3. /\ before = done[i - 1].iv /\ b = CfbOut(key, off, input, i, done[i - 1])
          /\ a = input[i] /\ n = Turn(off, i)
      BY <1>5, <2>1
    <3> HIDE DEF n, before, a, b
    <3> QED
      BY <3>1, <3>2, <3>3
  <2>6. CASE mode = AES_DECRYPT
    <3>1. p[i] = b /\ c[i] = a
      BY <1>10, <2>6
    <3>2. ivs[i] = [s EXCEPT ![n + 1] = a]
      BY <2>5, <2>6
    <3>3. CfbByte(b, a, key, n, before, ivs[i])
      <4> HIDE DEF p, c, n, a, b, before
      <4> QED
        BY <2>2, <3>2 DEF CfbByte
    <3> HIDE DEF p, c, a, b
    <3> QED
      BY <3>1, <3>3
  <2>7. CASE mode # AES_DECRYPT
    <3>1. p[i] = a /\ c[i] = b
      BY <1>10, <2>7
    <3>2. ivs[i] = [s EXCEPT ![n + 1] = b]
      BY <2>5, <2>7
    <3>3. CfbByte(a, b, key, n, before, ivs[i])
      <4> HIDE DEF p, c, n, a, b, before
      <4> QED
        BY <2>4, <3>2 DEF CfbByte
    <3> HIDE DEF p, c, a, b
    <3> QED
      BY <3>1, <3>3
  <2> QED
    BY <2>6, <2>7
<1>12. Str(p, N) /\ Str(c, N)
  BY <1>10
<1> HIDE DEF p, c
<1>13. CfbFlow(p, c, key, off, iv, N, ivs)
  BY <1>4, <1>6, <1>11, <1>12 DEF CfbFlow
<1> QED
  BY <1>13 DEF p, c, ivs, out

(* A cipher text belongs to one plain text.                                *)
LEMMA CfbOnce ==
  ASSUME NEW p, NEW q, NEW c, NEW key, NEW off, NEW iv, NEW L \in Nat, NEW ivs, NEW jvs,
         CfbFlow(p, c, key, off, iv, L, ivs), CfbFlow(q, c, key, off, iv, L, jvs)
  PROVE  p = q
<1>1. /\ Str(p, L) /\ Str(q, L) /\ ivs[0] = jvs[0]
      /\ \A i \in 1..L : CfbByte(p[i], c[i], key, Turn(off, i), ivs[i - 1], ivs[i])
      /\ \A i \in 1..L : CfbByte(q[i], c[i], key, Turn(off, i), jvs[i - 1], jvs[i])
  BY DEF CfbFlow
<1> DEFINE T == {i \in 0..L : ivs[i] = jvs[i]}
<1>2. 0 \in T
  BY <1>1
<1>3. ASSUME NEW i \in 1..L, i - 1 \in T
      PROVE  i \in T
  <2>1. ivs[i - 1] = jvs[i - 1] /\ i \in 0..L
    BY <1>3
  <2>2. CfbByte(p[i], c[i], key, Turn(off, i), ivs[i - 1], ivs[i])
    BY <1>1
  <2>3. CfbByte(q[i], c[i], key, Turn(off, i), jvs[i - 1], jvs[i])
    BY <1>1
  <2>4. ivs[i] = jvs[i]
    BY <2>1, <2>2, <2>3 DEF CfbByte
  <2> QED
    BY <2>1, <2>4
<1>4. \A i \in 0..L : i \in T
  <2> HIDE DEF T
  <2> QED
    BY <1>2, <1>3, UpTo
<1>5. ASSUME NEW i \in 1..L
      PROVE  p[i] = q[i]
  <2>1. i - 1 \in T
    <3> HIDE DEF T
    <3>1. i - 1 \in 0..L
      OBVIOUS
    <3> QED
      BY <1>4, <3>1
  <2>2. ivs[i - 1] = jvs[i - 1]
    BY <2>1
  <2>3. CfbByte(p[i], c[i], key, Turn(off, i), ivs[i - 1], ivs[i])
    BY <1>1
  <2>4. CfbByte(q[i], c[i], key, Turn(off, i), jvs[i - 1], jvs[i])
    BY <1>1
  <2> QED
    BY <2>2, <2>3, <2>4 DEF CfbByte
<1> QED
  BY <1>1, <1>5, StrEqual

(* The places after A bytes are those that begin at turn.                  *)
TurnsOn(turn, off, A) == \A h \in Int : Turn(turn, h) = Turn(off, A + h)

(* iv_off is handed on so.                                                 *)
LEMMA TurnsGoOn ==
  ASSUME NEW off \in Int, NEW A \in Int, NEW turn, turn = (off + A) % 16
  PROVE  TurnsOn(turn, off, A)
<1>1. ASSUME NEW h \in Int
      PROVE  Turn(turn, h) = Turn(off, A + h)
  <2> DEFINE x == off + A
             y == h - 1
             a == A + h
             b == a - 1
  <2>1. x \in Int /\ y \in Int /\ off + b = x + y /\ turn = x % 16
    OBVIOUS
  <2>2. Turn(turn, h) = (turn + y) % 16 /\ Turn(off, a) = (off + b) % 16
    BY DEF Turn
  <2> HIDE DEF x, y, b
  <2>3. ((x % 16) + y) % 16 = (x + y) % 16
    BY <2>1
  <2> HIDE DEF a
  <2>4. Turn(turn, h) = Turn(off, a)
    BY <2>1, <2>2, <2>3
  <2> QED
    BY <2>4 DEF a
<1> QED
  BY <1>1, Zenon DEF TurnsOn

(* What one call leaves is where the next begins.                          *)
CfbBoth(x, y, key, off, iv, N) == \E ivs : CfbFlow(x, y, key, off, iv, N, ivs)

(* So a flow goes on where another ended, in the middle of a block too.    *)
LEMMA CfbJoins ==
  ASSUME NEW p, NEW q, NEW c, NEW d, NEW key, NEW off \in Int, NEW iv,
         NEW A \in Nat, NEW B \in Nat, NEW ivs, NEW jvs,
         CfbFlow(p, c, key, off, iv, A, ivs),
         CfbFlow(q, d, key, (off + A) % 16, ivs[A], B, jvs)
  PROVE  CfbBoth(p \o q, c \o d, key, off, iv, A + B)
<1> DEFINE x == p \o q
           y == c \o d
           N == A + B
           kvs == [i \in 0..N |-> IF i <= A THEN ivs[i] ELSE jvs[i - A]]
           turn == (off + A) % 16
<1>1. /\ Str(p, A) /\ Str(c, A) /\ ivs[0] = iv /\ \A i \in 0..A : ivs[i] \in Blocks16
      /\ \A i \in 1..A : CfbByte(p[i], c[i], key, Turn(off, i), ivs[i - 1], ivs[i])
  BY DEF CfbFlow
<1>2. /\ Str(q, B) /\ Str(d, B) /\ jvs[0] = ivs[A] /\ \A i \in 0..B : jvs[i] \in Blocks16
      /\ \A i \in 1..B : CfbByte(q[i], d[i], key, Turn(turn, i), jvs[i - 1], jvs[i])
  BY DEF CfbFlow
<1>3. Appended(x, p, q, A, B) /\ Appended(y, c, d, A, B)
  BY <1>1, <1>2, StrJoined
<1>4. N \in Nat /\ A <= N
  OBVIOUS
<1>13. TurnsOn(turn, off, A)
  <2>1. turn = (off + A) % 16
    OBVIOUS
  <2>2. A \in Int
    OBVIOUS
  <2> HIDE DEF turn
  <2> QED
    BY <2>1, <2>2, TurnsGoOn, Zenon
<1> HIDE DEF x, y, turn
<1>5. /\ Str(x, N) /\ Str(y, N)
      /\ \A i \in 1..A : x[i] = p[i] /\ y[i] = c[i]
      /\ \A i \in 1..B : x[A + i] = q[i] /\ y[A + i] = d[i]
  BY <1>3 DEF Appended
<1>6. \A i \in 0..A : kvs[i] = ivs[i]
  <2>1. \A i \in 0..A : i \in 0..N /\ i <= A
    OBVIOUS
  <2> QED
    BY <2>1
<1>7. ASSUME NEW i \in 0..B
      PROVE  kvs[A + i] = jvs[i]
  <2>1. A + i \in 0..N /\ (A + i) - A = i
    OBVIOUS
  <2>2. CASE i = 0
    BY <1>2, <1>6, <2>1, <2>2
  <2>3. CASE i # 0
    <3>1. ~(A + i <= A)
      BY <2>3
    <3> QED
      BY <2>1, <3>1
  <2> QED
    BY <2>2, <2>3
<1> HIDE DEF kvs, N
<1>8. ASSUME NEW i \in 0..N
      PROVE  kvs[i] \in Blocks16
  <2>1. CASE i <= A
    <3>1. i \in 0..A
      BY <1>4, <2>1
    <3> QED
      BY <1>1, <1>6, <3>1
  <2>2. CASE ~(i <= A)
    <3> DEFINE m == i - A
    <3>1. m \in 0..B /\ A + m = i
      BY <1>4, <2>2 DEF N
    <3> HIDE DEF m
    <3>2. kvs[A + m] = jvs[m] /\ jvs[m] \in Blocks16
      BY <1>2, <1>7, <3>1
    <3> QED
      BY <3>1, <3>2
  <2> QED
    BY <2>1, <2>2
<1>9. ASSUME NEW i \in 1..N
      PROVE  CfbByte(x[i], y[i], key, Turn(off, i), kvs[i - 1], kvs[i])
  <2>1. CASE i <= A
    <3>1. i \in 1..A /\ i \in 0..A /\ i - 1 \in 0..A
      BY <1>4, <2>1
    <3>2. CfbByte(p[i], c[i], key, Turn(off, i), ivs[i - 1], ivs[i])
      BY <1>1, <3>1
    <3>3. x[i] = p[i] /\ y[i] = c[i] /\ kvs[i - 1] = ivs[i - 1] /\ kvs[i] = ivs[i]
      BY <1>5, <1>6, <3>1
    <3> QED
      BY <3>2, <3>3
  <2>2. CASE ~(i <= A)
    <3> DEFINE m == i - A
               h == m - 1
    <3>1. m \in 1..B /\ A + m = i /\ h \in 0..B /\ m \in 0..B /\ A + h = i - 1 /\ m \in Int
      BY <1>4, <2>2 DEF N
    <3>2. h = m - 1
      OBVIOUS
    <3> HIDE DEF m, h
    <3>3. CfbByte(q[m], d[m], key, Turn(turn, m), jvs[m - 1], jvs[m])
      BY <1>2, <3>1
    <3>4. Turn(turn, m) = Turn(off, A + m)
      BY <1>13, <3>1 DEF TurnsOn
    <3>5. kvs[A + m] = jvs[m] /\ kvs[A + h] = jvs[h]
      BY <1>7, <3>1
    <3>6. x[A + m] = q[m] /\ y[A + m] = d[m]
      BY <1>5, <3>1
    <3>7. kvs[i - 1] = jvs[m - 1] /\ kvs[i] = jvs[m] /\ x[i] = q[m] /\ y[i] = d[m]
          /\ Turn(turn, m) = Turn(off, i)
      BY <3>1, <3>2, <3>4, <3>5, <3>6
    <3> QED
      BY <3>3, <3>7
  <2> QED
    BY <2>1, <2>2
<1>10. kvs[0] = iv
  <2>1. 0 \in 0..A
    OBVIOUS
  <2> QED
    BY <1>1, <1>6, <2>1
<1>11. CfbFlow(x, y, key, off, iv, N, kvs)
  BY <1>5, <1>8, <1>9, <1>10 DEF CfbFlow
<1>12. CfbBoth(x, y, key, off, iv, N)
  BY <1>11 DEF CfbBoth
<1> QED
  BY <1>12 DEF x, y, N

(* A call that enciphers, and one that deciphers.                          *)
CfbSealed(r, input, key, off, iv, N) ==
  \E ivs : /\ CfbFlow(input, r.output, key, off, iv, N, ivs)
           /\ r.iv = ivs[N] /\ r.iv_off = (off + N) % 16

(* Enciphering calls and                                                   *)
LEMMA CfbSeals ==
  ASSUME CipherInverts, NEW key \in Blocks16, NEW off \in Int, NEW iv \in Blocks16,
         NEW input, NEW N \in Nat, Str(input, N)
  PROVE  CfbSealed(aes_crypt_cfb128(key, AES_ENCRYPT, off, iv, input), input,
                   key, off, iv, N)
<1> DEFINE r == aes_crypt_cfb128(key, AES_ENCRYPT, off, iv, input)
<1>1. Len(input) = N
  BY DEF Str
<1>2. PICK done : /\ CfbRun(done, key, AES_ENCRYPT, off, iv, input, N)
                  /\ r = [iv |-> done[N].iv, iv_off |-> (off + N) % 16,
                          output |-> done[N].output]
  BY <1>1, CfbRuns
<1> HIDE DEF r
<1>3. r.iv = done[N].iv /\ r.iv_off = (off + N) % 16 /\ r.output = done[N].output
  BY <1>2
<1> DEFINE ivs == [i \in 0..N |-> done[i].iv]
<1>4. CfbFlow(IF AES_ENCRYPT = AES_DECRYPT THEN done[N].output ELSE input,
              IF AES_ENCRYPT = AES_DECRYPT THEN input ELSE done[N].output,
              key, off, iv, N, ivs)
  BY <1>2, CfbFlows
<1>5. ivs[N] = done[N].iv
  OBVIOUS
<1> HIDE DEF ivs
<1>6. AES_ENCRYPT # AES_DECRYPT
  BY DEF AES_ENCRYPT, AES_DECRYPT
<1>7. CfbFlow(input, done[N].output, key, off, iv, N, ivs)
  BY <1>4, <1>6
<1>8. CfbSealed(r, input, key, off, iv, N)
  BY <1>3, <1>5, <1>7 DEF CfbSealed
<1> QED
  BY <1>8 DEF r

(* deciphering ones, for any number of bytes (aes_crypt_cfb128).           *)
LEMMA CfbOpens ==
  ASSUME CipherInverts, NEW key \in Blocks16, NEW off \in Int, NEW iv \in Blocks16,
         NEW input, NEW N \in Nat, Str(input, N)
  PROVE  CfbBoth(aes_crypt_cfb128(key, AES_DECRYPT, off, iv, input).output, input,
                 key, off, iv, N)
<1> DEFINE r == aes_crypt_cfb128(key, AES_DECRYPT, off, iv, input)
<1>1. Len(input) = N
  BY DEF Str
<1>2. PICK done : /\ CfbRun(done, key, AES_DECRYPT, off, iv, input, N)
                  /\ r = [iv |-> done[N].iv, iv_off |-> (off + N) % 16,
                          output |-> done[N].output]
  BY <1>1, CfbRuns
<1> HIDE DEF r
<1>3. r.output = done[N].output
  BY <1>2
<1> DEFINE ivs == [i \in 0..N |-> done[i].iv]
<1>4. CfbFlow(IF AES_DECRYPT = AES_DECRYPT THEN done[N].output ELSE input,
              IF AES_DECRYPT = AES_DECRYPT THEN input ELSE done[N].output,
              key, off, iv, N, ivs)
  BY <1>2, CfbFlows
<1> HIDE DEF ivs
<1>5. CfbFlow(r.output, input, key, off, iv, N, ivs)
  BY <1>3, <1>4
<1>6. CfbBoth(r.output, input, key, off, iv, N)
  BY <1>5 DEF CfbBoth
<1> QED
  BY <1>6 DEF r

(* A text enciphered in two calls and deciphered in one.                   *)
CfbInTwo(c, d, key, off, iv, text, one, two, A, B) ==
  /\ Str(one, A) /\ Str(two, B) /\ one \o two = text
  /\ c = aes_crypt_cfb128(key, AES_ENCRYPT, off, iv, one)
  /\ d = aes_crypt_cfb128(key, AES_ENCRYPT, c.iv_off, c.iv, two)
CfbBack(c, d, key, off, iv, text) ==
  aes_crypt_cfb128(key, AES_DECRYPT, off, iv, c.output \o d.output).output = text

(* So the text comes back, in pieces of any length (aes_crypt_cfb128).     *)
LEMMA CfbReads ==
  ASSUME CipherInverts, NEW key \in Blocks16, NEW off \in Int, NEW iv \in Blocks16,
         NEW text, NEW one, NEW two, NEW A \in Nat, NEW B \in Nat, NEW c, NEW d,
         CfbInTwo(c, d, key, off, iv, text, one, two, A, B)
  PROVE  CfbBack(c, d, key, off, iv, text)
<1> USE DEF CfbInTwo
<1> DEFINE e == c.output \o d.output
           r == aes_crypt_cfb128(key, AES_DECRYPT, off, iv, e)
           N == A + B
<1>1. CfbSealed(c, one, key, off, iv, A)
  BY CfbSeals
<1>2. PICK ivs : /\ CfbFlow(one, c.output, key, off, iv, A, ivs)
                 /\ c.iv = ivs[A] /\ c.iv_off = (off + A) % 16
  BY <1>1 DEF CfbSealed
<1>3. c.iv \in Blocks16 /\ c.iv_off \in Int
  <2>1. A \in 0..A /\ (off + A) % 16 \in Int
    OBVIOUS
  <2> QED
    BY <1>2, <2>1 DEF CfbFlow
<1>4. CfbSealed(d, two, key, c.iv_off, c.iv, B)
  BY <1>3, CfbSeals
<1>5. PICK jvs : CfbFlow(two, d.output, key, c.iv_off, c.iv, B, jvs)
  BY <1>4 DEF CfbSealed
<1>6. CfbFlow(two, d.output, key, (off + A) % 16, ivs[A], B, jvs)
  BY <1>2, <1>5
<1>7. CfbBoth(one \o two, e, key, off, iv, N)
  BY <1>2, <1>6, CfbJoins
<1>8. N \in Nat
  OBVIOUS
<1> HIDE DEF e, N
<1>9. PICK kvs : CfbFlow(one \o two, e, key, off, iv, N, kvs)
  BY <1>7 DEF CfbBoth
<1>10. Str(e, N)
  BY <1>9 DEF CfbFlow
<1>11. CfbBoth(r.output, e, key, off, iv, N)
  BY <1>8, <1>10, CfbOpens
<1> HIDE DEF r
<1>12. PICK lvs : CfbFlow(r.output, e, key, off, iv, N, lvs)
  BY <1>11 DEF CfbBoth
<1>13. r.output = one \o two
  BY <1>8, <1>9, <1>12, CfbOnce
<1> QED
  BY <1>13 DEF r, e, CfbBack

(* Bits add up the same, whichever two are added first.                    *)
LEMMA Parity ==
  ASSUME NEW p \in Int, NEW q \in Int, NEW r \in Int, NEW u \in Int, NEW w \in Int,
         u % 2 = (p + q) % 2, w % 2 = (q + r) % 2
  PROVE  (u + r) % 2 = (p + w) % 2
  OBVIOUS

(* The exclusive or of three nibbles,                                      *)
LEMMA NibblesAssociate ==
  ASSUME NEW a \in 0..15, NEW b \in 0..15, NEW c \in 0..15
  PROVE  NibbleXor[NibbleXor[a][b]][c] = NibbleXor[a][NibbleXor[b][c]]
<1> DEFINE x == NibbleXor[a][b]
           y == NibbleXor[b][c]
<1>1. /\ x \in 0..15 /\ x % 2 = Bits(a, b, 1) /\ (x \div 2) % 2 = Bits(a, b, 2)
      /\ (x \div 4) % 2 = Bits(a, b, 4) /\ (x \div 8) % 2 = Bits(a, b, 8)
  <2>1. x = Bits(a, b, 1) + (2 * Bits(a, b, 2)) + (4 * Bits(a, b, 4)) + (8 * Bits(a, b, 8))
    BY NibbleXorIs
  <2> QED
    BY <2>1, BitsAre, BitsOf
<1>2. /\ y \in 0..15 /\ y % 2 = Bits(b, c, 1) /\ (y \div 2) % 2 = Bits(b, c, 2)
      /\ (y \div 4) % 2 = Bits(b, c, 4) /\ (y \div 8) % 2 = Bits(b, c, 8)
  <2>1. y = Bits(b, c, 1) + (2 * Bits(b, c, 2)) + (4 * Bits(b, c, 4)) + (8 * Bits(b, c, 8))
    BY NibbleXorIs
  <2> QED
    BY <2>1, BitsAre, BitsOf
<1> HIDE DEF x, y
<1>3. NibbleXor[x][c] = Bits(x, c, 1) + (2 * Bits(x, c, 2)) + (4 * Bits(x, c, 4))
                          + (8 * Bits(x, c, 8))
  BY <1>1, NibbleXorIs
<1>4. NibbleXor[a][y] = Bits(a, y, 1) + (2 * Bits(a, y, 2)) + (4 * Bits(a, y, 4))
                          + (8 * Bits(a, y, 8))
  BY <1>2, NibbleXorIs
<1>5. Bits(x, c, 1) = Bits(a, y, 1)
  <2> DEFINE p == a \div 1  q == b \div 1  r == c \div 1
             u == x \div 1  w == y \div 1
  <2>1. p \in Int /\ q \in Int /\ r \in Int /\ u \in Int /\ w \in Int
    BY <1>1, <1>2
  <2>2. u % 2 = (p + q) % 2 /\ w % 2 = (q + r) % 2
    BY <1>1, <1>2 DEF Bits
  <2>3. Bits(x, c, 1) = (u + r) % 2 /\ Bits(a, y, 1) = (p + w) % 2
    BY DEF Bits
  <2> HIDE DEF p, q, r, u, w
  <2> QED
    BY <2>1, <2>2, <2>3, Parity
<1>6. Bits(x, c, 2) = Bits(a, y, 2)
  <2> DEFINE p == a \div 2  q == b \div 2  r == c \div 2
             u == x \div 2  w == y \div 2
  <2>1. p \in Int /\ q \in Int /\ r \in Int /\ u \in Int /\ w \in Int
    BY <1>1, <1>2
  <2>2. u % 2 = (p + q) % 2 /\ w % 2 = (q + r) % 2
    BY <1>1, <1>2 DEF Bits
  <2>3. Bits(x, c, 2) = (u + r) % 2 /\ Bits(a, y, 2) = (p + w) % 2
    BY DEF Bits
  <2> HIDE DEF p, q, r, u, w
  <2> QED
    BY <2>1, <2>2, <2>3, Parity
<1>7. Bits(x, c, 4) = Bits(a, y, 4)
  <2> DEFINE p == a \div 4  q == b \div 4  r == c \div 4
             u == x \div 4  w == y \div 4
  <2>1. p \in Int /\ q \in Int /\ r \in Int /\ u \in Int /\ w \in Int
    BY <1>1, <1>2
  <2>2. u % 2 = (p + q) % 2 /\ w % 2 = (q + r) % 2
    BY <1>1, <1>2 DEF Bits
  <2>3. Bits(x, c, 4) = (u + r) % 2 /\ Bits(a, y, 4) = (p + w) % 2
    BY DEF Bits
  <2> HIDE DEF p, q, r, u, w
  <2> QED
    BY <2>1, <2>2, <2>3, Parity
<1>8. Bits(x, c, 8) = Bits(a, y, 8)
  <2> DEFINE p == a \div 8  q == b \div 8  r == c \div 8
             u == x \div 8  w == y \div 8
  <2>1. p \in Int /\ q \in Int /\ r \in Int /\ u \in Int /\ w \in Int
    BY <1>1, <1>2
  <2>2. u % 2 = (p + q) % 2 /\ w % 2 = (q + r) % 2
    BY <1>1, <1>2 DEF Bits
  <2>3. Bits(x, c, 8) = (u + r) % 2 /\ Bits(a, y, 8) = (p + w) % 2
    BY DEF Bits
  <2> HIDE DEF p, q, r, u, w
  <2> QED
    BY <2>1, <2>2, <2>3, Parity
<1> QED
  BY <1>3, <1>4, <1>5, <1>6, <1>7, <1>8 DEF x, y

(* and of three bytes, in either order.                                    *)
LEMMA XorAssociates ==
  ASSUME NEW a \in Byte, NEW b \in Byte, NEW c \in Byte
  PROVE  Xor(Xor(a, b), c) = Xor(a, Xor(b, c))
<1> DEFINE a1 == a \div 16  a2 == a % 16  b1 == b \div 16  b2 == b % 16
           c1 == c \div 16  c2 == c % 16
           x == NibbleXor[a1][b1]
           y == NibbleXor[a2][b2]
           z == NibbleXor[b1][c1]
           t == NibbleXor[b2][c2]
           d == Xor(a, b)
           e == Xor(b, c)
<1>1. /\ a1 \in 0..15 /\ a2 \in 0..15 /\ b1 \in 0..15 /\ b2 \in 0..15
      /\ c1 \in 0..15 /\ c2 \in 0..15
  BY DEF Byte
<1>2. d = (16 * x) + y /\ e = (16 * z) + t
  BY DEF Xor
<1>3. Xor(d, c) = (16 * NibbleXor[d \div 16][c1]) + NibbleXor[d % 16][c2]
  BY DEF Xor
<1>4. Xor(a, e) = (16 * NibbleXor[a1][e \div 16]) + NibbleXor[a2][e % 16]
  BY DEF Xor
<1> HIDE DEF a1, a2, b1, b2, c1, c2, d, e
<1>5. x \in 0..15 /\ y \in 0..15 /\ z \in 0..15 /\ t \in 0..15
  BY <1>1, NibblesCancel
<1>6. NibbleXor[x][c1] = NibbleXor[a1][z]
  <2>1. a1 \in 0..15
    BY <1>1
  <2>2. b1 \in 0..15
    BY <1>1
  <2>3. c1 \in 0..15
    BY <1>1
  <2>4. NibbleXor[NibbleXor[a1][b1]][c1] = NibbleXor[a1][NibbleXor[b1][c1]]
    BY <2>1, <2>2, <2>3, NibblesAssociate
  <2> QED
    BY <2>4
<1>8. NibbleXor[y][c2] = NibbleXor[a2][t]
  <2>1. a2 \in 0..15
    BY <1>1
  <2>2. b2 \in 0..15
    BY <1>1
  <2>3. c2 \in 0..15
    BY <1>1
  <2>4. NibbleXor[NibbleXor[a2][b2]][c2] = NibbleXor[a2][NibbleXor[b2][c2]]
    BY <2>1, <2>2, <2>3, NibblesAssociate
  <2> QED
    BY <2>4
<1> HIDE DEF x, y, z, t
<1>7. d \div 16 = x /\ d % 16 = y /\ e \div 16 = z /\ e % 16 = t
  BY <1>2, <1>5, TwoNibbles
<1> QED
  BY <1>3, <1>4, <1>6, <1>7, <1>8 DEF d, e

(* What was put in comes out again.                                        *)
LEMMA XorBack ==
  ASSUME NEW a \in Byte, NEW b \in Byte
  PROVE  Xor(a, Xor(a, b)) = b
<1> DEFINE x == Xor(a, b)
<1>1. x \in Byte /\ x = Xor(b, a) /\ Xor(Xor(b, a), a) = b
  BY XorCancels
<1>2. Xor(x, a) = Xor(a, x)
  <2> HIDE DEF x
  <2> QED
    BY <1>1, XorCancels
<1> QED
  BY <1>1, <1>2

-----------------------------------------------------------------------------
(* The cipher of the cartridge bus.                                        *)

(* The sizes of the model's words and tables.                              *)
LEMMA WordsAre == Words = 256 /\ KeyWordsTotal = 34 /\ Base = 4
BY DEF Words, KeyWordsTotal, Base

(* A digit of a word.                                                      *)
LEMMA DigitIs ==
  ASSUME NEW z \in Byte, NEW n \in 0..3
  PROVE  Digit(z, n) \in 0..3
<1> DEFINE w == Weights[n + 1]
<1>1. w \in {1, 4, 16, 64}
  BY DEF Weights, Base
<1> HIDE DEF w
<1>2. z \div w \in Int
  BY <1>1 DEF Byte
<1>3. Digit(z, n) = (z \div w) % 4
  BY DEF Digit, Base, w
<1> QED
  BY <1>2, <1>3

(* A key buffer: eighteen round words and four boxes.                      *)
Keys(kb) == Str(kb, 34)

(* Its entries are words.                                                  *)
LEMMA EntryIs ==
  ASSUME NEW kb, Keys(kb), NEW i \in 0..33
  PROVE  Entry(kb, i) \in Byte
<1>1. Str(kb, 34) /\ i + 1 \in 1..34
  BY DEF Keys
<1> DEFINE h == i + 1
<1>2. kb[h] \in Byte
  BY <1>1, StrIs
<1> QED
  BY <1>2 DEF Entry

(* A sum of words, kept to their width.                                    *)
LEMMA SumIsByte ==
  ASSUME NEW a \in Byte, NEW b \in Byte
  PROVE  (a + b) % Words \in Byte
BY DEF Words, Base, Byte

(* What the boxes make of a word is a word.                                *)
LEMMA Scrambled4Is ==
  ASSUME NEW kb, Keys(kb), NEW z \in Byte
  PROVE  Scrambled4(kb, z) \in Byte
<1> DEFINE box(n) == Entry(kb, 18 + (Base * n) + Digit(z, 3 - n))
           a == box(0)  b == box(1)  c == box(2)  d == box(3)
<1>1. ASSUME NEW n \in 0..3
      PROVE  box(n) \in Byte
  <2>1. 3 - n \in 0..3
    OBVIOUS
  <2>2. Digit(z, 3 - n) \in 0..3
    BY <2>1, DigitIs
  <2>3. 18 + (Base * n) + Digit(z, 3 - n) \in 0..33
    BY <2>2 DEF Base
  <2> QED
    BY <2>3, EntryIs
<1>2. a \in Byte /\ b \in Byte /\ c \in Byte /\ d \in Byte
  BY <1>1
<1>3. Scrambled4(kb, z) = (Xor((a + b) % Words, c) + d) % Words
  BY DEF Scrambled4
<1> HIDE DEF a, b, c, d
<1>4. (a + b) % Words \in Byte
  BY <1>2, SumIsByte
<1>5. Xor((a + b) % Words, c) \in Byte
  BY <1>2, <1>4, XorCancels
<1> QED
  BY <1>2, <1>3, <1>5, SumIsByte

(* A block of the bus: two words.                                          *)
Two == {v \in Seq(Byte) : Len(v) = 2}

(* It is made of two,                                                      *)
LEMMA TwoIs ==
  ASSUME NEW a \in Byte, NEW b \in Byte
  PROVE  <<a, b>> \in Two /\ Str(<<a, b>>, 2)
BY DEF Two, Str

(* and has two.                                                            *)
LEMMA OfTwo ==
  ASSUME NEW v \in Two
  PROVE  v[1] \in Byte /\ v[2] \in Byte /\ v = <<v[1], v[2]>> /\ Str(v, 2)
<1>1. v \in Seq(Byte) /\ Len(v) = 2
  BY DEF Two
<1>2. \A i \in 1..Len(v) : v[i] \in Byte
  BY <1>1
<1>3. v[1] \in Byte
  BY <1>1, <1>2
<1>4. v[2] \in Byte
  BY <1>1, <1>2
<1>5. v = <<v[1], v[2]>>
  BY <1>1
<1> QED
  BY <1>1, <1>3, <1>4, <1>5 DEF Str

(* One round of crypt_64bit_up and of crypt_64bit_down.                    *)
Turned(kb, word, v) ==
  <<Xor(v[2], Scrambled4(kb, Xor(word, v[1]))), Xor(word, v[1])>>

(* It makes a block.                                                       *)
LEMMA TurnedIs ==
  ASSUME NEW kb, Keys(kb), NEW word \in Byte, NEW v \in Two
  PROVE  Turned(kb, word, v) \in Two
<1> DEFINE z == Xor(word, v[1])
           x == Xor(v[2], Scrambled4(kb, z))
<1>1. v[1] \in Byte /\ v[2] \in Byte
  BY OfTwo
<1>2. z \in Byte
  BY <1>1, XorCancels
<1>3. Scrambled4(kb, z) \in Byte
  <2> HIDE DEF z
  <2> QED
    BY <1>2, Scrambled4Is
<1>4. x \in Byte
  BY <1>1, <1>3, XorCancels
<1>5. Turned(kb, word, v) = <<x, z>>
  BY DEF Turned
<1> HIDE DEF x, z
<1> QED
  BY <1>2, <1>4, <1>5, TwoIs

(* The states of sixteen rounds.                                           *)
RoundsOf(xy, kb, key, ptr) ==
  /\ xy[0] = <<ptr[2], ptr[1]>> /\ \A n \in 0..16 : xy[n] \in Two
  /\ \A n \in 1..16 : xy[n] = Turned(kb, Entry(kb, key[n]), xy[n - 1])

(* Rounds runs through them.                                               *)
LEMMA RoundsAre ==
  ASSUME NEW kb, Keys(kb), NEW ptr \in Two, NEW key, \A n \in 1..16 : key[n] \in 0..33,
         NEW last
  PROVE  \E xy : /\ RoundsOf(xy, kb, key, ptr)
                 /\ Rounds(kb, ptr, key, last)
                      = XorAll(<<Entry(kb, last[1]), Entry(kb, last[2])>>, xy[16])
<1> DEFINE N == 16
           base == <<ptr[2], ptr[1]>>
<1>20. base \in Two
  <2>1. ptr[1] \in Byte /\ ptr[2] \in Byte
    BY OfTwo
  <2> QED
    BY <2>1, TwoIs
<1>22. N \in Nat /\ \A n \in 1..N : Entry(kb, key[n]) \in Byte
  <2>1. ASSUME NEW n \in 1..N
        PROVE  Entry(kb, key[n]) \in Byte
    <3>1. key[n] \in 0..33
      OBVIOUS
    <3> QED
      BY <3>1, EntryIs
  <2> QED
    BY <2>1
<1> HIDE DEF N
<1> DEFINE step == [n \in 1..N |-> [x \in Two |-> Turned(kb, Entry(kb, key[n]), x)]]
           xy[n \in 0..N] == IF n = 0 THEN base ELSE Turned(kb, Entry(kb, key[n]), xy[n - 1])
<1>1. N \in Nat /\ base \in Two
  BY <1>20, <1>22
<1>2. ASSUME NEW n \in 1..N, NEW x \in Two
      PROVE  Turned(kb, Entry(kb, key[n]), x) \in Two
  BY <1>22, TurnedIs
<1>3. step \in [1..N -> [Two -> Two]]
  BY <1>2
<1>4. PICK j \in [0..N -> Two] : Runs(j, N, base, step)
  <2> HIDE DEF step
  <2> QED
    BY <1>1, <1>3, RunsExist
<1>5. ASSUME NEW n \in 1..N
      PROVE  j[n - 1] \in Two /\ j[n] = Turned(kb, Entry(kb, key[n]), j[n - 1])
  <2>1. j[n - 1] \in Two
    BY <1>1
  <2>2. j[n] = step[n][j[n - 1]]
    BY <1>4 DEF Runs
  <2> QED
    BY <2>1, <2>2
<1>6. j[0] = base
  BY <1>4 DEF Runs
<1> HIDE DEF step
<1>7. j = [n \in 0..N |-> IF n = 0 THEN base ELSE Turned(kb, Entry(kb, key[n]), j[n - 1])]
  <2> DEFINE g == [n \in 0..N |-> IF n = 0 THEN base ELSE Turned(kb, Entry(kb, key[n]), j[n - 1])]
  <2>1. ASSUME NEW n \in 0..N PROVE j[n] = g[n]
    <3>1. CASE n = 0
      BY <1>6, <3>1
    <3>2. CASE n # 0
      <4>1. n \in 1..N
        BY <1>1, <3>2
      <4> QED
        BY <1>5, <3>2, <4>1
    <3> QED
      BY <3>1, <3>2
  <2>2. j = [n \in 0..N |-> j[n]] /\ g = [n \in 0..N |-> g[n]]
    OBVIOUS
  <2> HIDE DEF g
  <2>3. j = g
    BY <2>1, <2>2
  <2> QED
    BY <2>3 DEF g
<1>8. xy = [n \in 0..N |-> IF n = 0 THEN base ELSE Turned(kb, Entry(kb, key[n]), xy[n - 1])]
  BY <1>7

<1>21. Rounds(kb, ptr, key, last)
         = XorAll(<<Entry(kb, last[1]), Entry(kb, last[2])>>, xy[N])
  BY Zenon DEF Rounds, Turned, N
<1> HIDE DEF base
<1> HIDE DEF xy
<1>9. ASSUME NEW n \in 1..N PROVE xy[n] = Turned(kb, Entry(kb, key[n]), xy[n - 1])
  <2> DEFINE g == [y \in 0..N |-> IF y = 0 THEN base ELSE Turned(kb, Entry(kb, key[y]), xy[y - 1])]
  <2>1. n \in 0..N /\ n # 0
    BY <1>1
  <2>2. g[n] = Turned(kb, Entry(kb, key[n]), xy[n - 1])
    BY <2>1
  <2>3. xy = g
    BY <1>8, Zenon
  <2> HIDE DEF g
  <2> QED
    BY <2>2, <2>3, Zenon
<1>10. xy[0] = base
  <2> DEFINE g == [n \in 0..N |-> IF n = 0 THEN base ELSE Turned(kb, Entry(kb, key[n]), xy[n - 1])]
  <2>1. 0 \in 0..N
    BY <1>1
  <2>2. g[0] = base
    BY <2>1
  <2>3. xy = g
    BY <1>8, Zenon
  <2> HIDE DEF g
  <2> QED
    BY <2>2, <2>3, Zenon
<1>11. \A n \in 0..N : xy[n] \in Two
  <2> DEFINE T == {n \in 0..N : xy[n] \in Two}
  <2>1. 0 \in T
    BY <1>1, <1>10
  <2>2. ASSUME NEW n \in 1..N, n - 1 \in T PROVE n \in T
    <3>1. xy[n - 1] \in Two /\ n \in 0..N
      BY <1>1, <2>2
    <3> QED
      BY <1>2, <1>9, <3>1
  <2> HIDE DEF T
  <2>3. \A n \in 0..N : n \in T
    BY <1>1, <2>1, <2>2, UpTo
  <2> QED
    BY <2>3 DEF T
<1>12. xy \in [0..N -> Two]
  BY <1>8, <1>11
<1>13. RoundsOf(xy, kb, key, ptr)
  <2>1. xy[0] = <<ptr[2], ptr[1]>>
    BY <1>10 DEF base
  <2>2. \A n \in 0..16 : xy[n] \in Two
    BY <1>11 DEF N
  <2>3. \A n \in 1..16 : xy[n] = Turned(kb, Entry(kb, key[n]), xy[n - 1])
    BY <1>9 DEF N
  <2> QED
    BY <2>1, <2>2, <2>3 DEF RoundsOf
<1> QED
  BY <1>13, <1>21 DEF N

(* Whitening of what comes out.                                            *)
LEMMA XorTwo ==
  ASSUME NEW a \in Byte, NEW b \in Byte, NEW v \in Two
  PROVE  /\ XorAll(<<a, b>>, v) = <<Xor(a, v[1]), Xor(b, v[2])>>
         /\ XorAll(<<a, b>>, v) \in Two
<1> DEFINE w == <<a, b>>
           x == XorAll(w, v)
           n == 2
<1>1. Str(w, n) /\ w[1] = a /\ w[2] = b
  BY TwoIs
<1>2. Str(v, n)
  BY OfTwo
<1>3. 1 \in 1..n /\ 2 \in 1..n /\ n = 2
  OBVIOUS
<1> HIDE DEF w, n
<1>4. Str(x, n) /\ \A i \in 1..n : x[i] = Xor(w[i], v[i])
  BY <1>1, <1>2, XorAllIs
<1> HIDE DEF x
<1>5. x[1] = Xor(a, v[1]) /\ x[2] = Xor(b, v[2])
  BY <1>1, <1>3, <1>4
<1>6. x \in Two
  BY <1>3, <1>4 DEF Two, Str
<1>7. x = <<x[1], x[2]>>
  BY <1>6, OfTwo
<1> QED
  BY <1>5, <1>6, <1>7 DEF x, w

(* The states of a block on its way up, and down.                          *)
UpRun(u, kb, p) ==
  /\ u[0] = <<p[2], p[1]>> /\ \A n \in 0..16 : u[n] \in Two
  /\ \A n \in 1..16 : u[n] = Turned(kb, Entry(kb, n - 1), u[n - 1])
DownRun(d, kb, p) ==
  /\ d[0] = <<p[2], p[1]>> /\ \A n \in 0..16 : d[n] \in Two
  /\ \A n \in 1..16 : d[n] = Turned(kb, Entry(kb, 18 - n), d[n - 1])

(* crypt_64bit_up goes that way,                                           *)
LEMMA UpIs ==
  ASSUME NEW kb, Keys(kb), NEW p \in Two
  PROVE  /\ crypt_64bit_up(kb, p) \in Two
         /\ \E u : /\ UpRun(u, kb, p)
                   /\ crypt_64bit_up(kb, p) = <<Xor(Entry(kb, 16), u[16][1]),
                                               Xor(Entry(kb, 17), u[16][2])>>
<1> DEFINE key == [n \in 1..16 |-> n - 1]
           last == <<16, 17>>
           r == crypt_64bit_up(kb, p)
<1>1. \A n \in 1..16 : key[n] = n - 1 /\ key[n] \in 0..33
  OBVIOUS
<1>2. r = Rounds(kb, p, key, last) /\ last[1] = 16 /\ last[2] = 17
  BY DEF crypt_64bit_up
<1> HIDE DEF key, last, r
<1>3. PICK u : /\ RoundsOf(u, kb, key, p)
               /\ Rounds(kb, p, key, last)
                    = XorAll(<<Entry(kb, last[1]), Entry(kb, last[2])>>, u[16])
  BY <1>1, RoundsAre
<1>4. UpRun(u, kb, p)
  BY <1>1, <1>3 DEF RoundsOf, UpRun
<1>5. u[16] \in Two
  BY <1>4 DEF UpRun
<1>6. Entry(kb, 16) \in Byte /\ Entry(kb, 17) \in Byte
  BY EntryIs
<1>7. r = XorAll(<<Entry(kb, 16), Entry(kb, 17)>>, u[16])
  BY <1>2, <1>3
<1>8. /\ r = <<Xor(Entry(kb, 16), u[16][1]), Xor(Entry(kb, 17), u[16][2])>>
      /\ r \in Two
  BY <1>5, <1>6, <1>7, XorTwo
<1> QED
  BY <1>4, <1>8 DEF r

(* and crypt_64bit_down the other.                                         *)
LEMMA DownIs ==
  ASSUME NEW kb, Keys(kb), NEW p \in Two
  PROVE  \E d : /\ DownRun(d, kb, p)
                /\ crypt_64bit_down(kb, p) = <<Xor(Entry(kb, 1), d[16][1]),
                                              Xor(Entry(kb, 0), d[16][2])>>
<1> DEFINE key == [n \in 1..16 |-> 18 - n]
           last == <<1, 0>>
           r == crypt_64bit_down(kb, p)
<1>1. \A n \in 1..16 : key[n] = 18 - n /\ key[n] \in 0..33
  OBVIOUS
<1>2. r = Rounds(kb, p, key, last) /\ last[1] = 1 /\ last[2] = 0
  BY DEF crypt_64bit_down
<1> HIDE DEF key, last, r
<1>3. PICK d : /\ RoundsOf(d, kb, key, p)
               /\ Rounds(kb, p, key, last)
                    = XorAll(<<Entry(kb, last[1]), Entry(kb, last[2])>>, d[16])
  BY <1>1, RoundsAre
<1>4. DownRun(d, kb, p)
  BY <1>1, <1>3 DEF RoundsOf, DownRun
<1>5. d[16] \in Two
  BY <1>4 DEF DownRun
<1>6. Entry(kb, 1) \in Byte /\ Entry(kb, 0) \in Byte
  BY EntryIs
<1>7. r = XorAll(<<Entry(kb, 1), Entry(kb, 0)>>, d[16])
  BY <1>2, <1>3
<1>8. r = <<Xor(Entry(kb, 1), d[16][1]), Xor(Entry(kb, 0), d[16][2])>>
  BY <1>5, <1>6, <1>7, XorTwo
<1> QED
  BY <1>4, <1>8 DEF r

(* A round is undone with the same word.                                   *)
LEMMA Undone ==
  ASSUME NEW kb, Keys(kb), NEW word \in Byte, NEW one \in Byte, NEW two \in Byte,
         NEW u \in Two, NEW v, v = Turned(kb, word, u)
  PROVE  Turned(kb, one, <<Xor(one, v[2]), Xor(two, v[1])>>)
           = <<Xor(two, u[2]), Xor(word, u[1])>>
<1> DEFINE z == Xor(word, u[1])
           f == Scrambled4(kb, z)
           a == u[2]
           x == Xor(one, z)
           y == Xor(two, Xor(a, f))
<1>1. u[1] \in Byte /\ a \in Byte
  BY OfTwo
<1>2. z \in Byte
  BY <1>1, XorCancels
<1>3. f \in Byte
  <2> HIDE DEF z
  <2> QED
    BY <1>2, Scrambled4Is
<1>4. v = <<Xor(a, f), z>>
  BY DEF Turned
<1>5. v[1] = Xor(a, f) /\ v[2] = z
  BY <1>4
<1>6. Turned(kb, one, <<x, y>>) = <<Xor(y, Scrambled4(kb, Xor(one, x))), Xor(one, x)>>
  BY DEF Turned
<1>7. Xor(one, x) = z
  <2> HIDE DEF z
  <2>1. x \in Byte /\ x = Xor(z, one) /\ Xor(Xor(z, one), one) = z
    BY <1>2, XorCancels
  <2>2. Xor(x, one) = Xor(one, x)
    BY <2>1, XorCancels
  <2> QED
    BY <2>1, <2>2
<1>8. Xor(y, f) = Xor(two, a)
  <2> HIDE DEF a, f
  <2> DEFINE t == Xor(a, f)
  <2>1. t \in Byte /\ Xor(t, f) = a
    BY <1>1, <1>3, XorCancels
  <2> HIDE DEF t
  <2>2. Xor(Xor(two, t), f) = Xor(two, Xor(t, f))
    BY <1>3, <2>1, XorAssociates
  <2> QED
    BY <2>1, <2>2 DEF t
<1>9. Turned(kb, one, <<x, y>>) = <<Xor(two, a), z>>
  <2>1. Scrambled4(kb, Xor(one, x)) = f
    BY <1>7
  <2> HIDE DEF x, y, f, z, a
  <2> QED
    BY <1>6, <1>7, <1>8, <2>1
<1> QED
  BY <1>5, <1>9

(* The way down passes through the states of the way up.                   *)
Mirrored(kb, w, m) ==
  <<Xor(Entry(kb, 17 - m), w[2]), Xor(Entry(kb, 16 - m), w[1])>>

(* So it ends where the way up began.                                      *)
LEMMA DownMirrorsUp ==
  ASSUME NEW kb, Keys(kb), NEW p, NEW r, NEW u, UpRun(u, kb, p),
         r = <<Xor(Entry(kb, 16), u[16][1]), Xor(Entry(kb, 17), u[16][2])>>,
         NEW d, DownRun(d, kb, r)
  PROVE  d[16] = <<Xor(Entry(kb, 1), u[0][2]), Xor(Entry(kb, 0), u[0][1])>>
<1> DEFINE T == {m \in 0..16 : d[m] = Mirrored(kb, u[16 - m], m)}
<1>1. 0 \in T
  <2>1. d[0] = <<r[2], r[1]>>
    BY DEF DownRun
  <2>2. r[1] = Xor(Entry(kb, 16), u[16][1]) /\ r[2] = Xor(Entry(kb, 17), u[16][2])
    OBVIOUS
  <2>3. Mirrored(kb, u[16 - 0], 0)
          = <<Xor(Entry(kb, 17), u[16][2]), Xor(Entry(kb, 16), u[16][1])>>
    BY DEF Mirrored
  <2> QED
    BY <2>1, <2>2, <2>3
<1>2. ASSUME NEW m \in 1..16, m - 1 \in T
      PROVE  m \in T
  <2> DEFINE n == 17 - m
             h == m - 1
             l == 16 - m
             one == Entry(kb, 18 - m)
             two == Entry(kb, n)
             word == Entry(kb, l)
             v == u[n]
             w == u[l]
  <2>1. /\ n \in 1..16 /\ n - 1 = l /\ 16 - h = n /\ 17 - h = 18 - m /\ 17 - m = n
        /\ 16 - m = l /\ l \in 0..33 /\ n \in 0..33 /\ 18 - m \in 0..33 /\ l \in 0..16
    OBVIOUS
  <2>2. d[h] = Mirrored(kb, u[16 - h], h)
    BY <1>2
  <2>3. d[h] = <<Xor(one, v[2]), Xor(two, v[1])>>
    BY <2>1, <2>2 DEF Mirrored
  <2>4. v = Turned(kb, word, w) /\ w \in Two
    <3>1. u[n] = Turned(kb, Entry(kb, n - 1), u[n - 1]) /\ u[l] \in Two
      BY <2>1 DEF UpRun
    <3> QED
      BY <2>1, <3>1
  <2>5. d[m] = Turned(kb, one, d[h])
    BY DEF DownRun
  <2>6. one \in Byte /\ two \in Byte /\ word \in Byte
    <3> HIDE DEF n, l
    <3> QED
      BY <2>1, EntryIs
  <2>7. Turned(kb, one, <<Xor(one, v[2]), Xor(two, v[1])>>)
          = <<Xor(two, w[2]), Xor(word, w[1])>>
    <3> HIDE DEF one, two, word, v, w
    <3> QED
      BY <2>4, <2>6, Undone
  <2>8. Mirrored(kb, u[16 - m], m) = <<Xor(two, w[2]), Xor(word, w[1])>>
    BY <2>1 DEF Mirrored
  <2>9. d[m] = Mirrored(kb, u[16 - m], m)
    BY <2>3, <2>5, <2>7, <2>8
  <2>10. m \in 0..16
    OBVIOUS
  <2> QED
    BY <2>9, <2>10
<1>3. 16 \in Nat
  OBVIOUS
<1>4. \A m \in 0..16 : m \in T
  <2> DEFINE N == 16
  <2>1. N \in Nat /\ \A m \in 1..N : m - 1 \in T => m \in T
    BY <1>2
  <2>2. \A m \in 0..N : m \in T
    <3> HIDE DEF T, N
    <3> QED
      BY <1>1, <2>1, UpTo
  <2> QED
    BY <2>2
<1>5. 16 \in T
  <2> HIDE DEF T
  <2> QED
    BY <1>4
<1>6. d[16] = Mirrored(kb, u[16 - 16], 16)
  BY <1>5
<1>7. 16 - 16 = 0 /\ 17 - 16 = 1
  OBVIOUS
<1> QED
  BY <1>6, <1>7 DEF Mirrored

(* crypt_64bit_down undoes crypt_64bit_up, under every key buffer          *)
(* (encryption.c).                                                         *)
LEMMA DownUndoesUp ==
  ASSUME NEW kb, Keys(kb), NEW p \in Two
  PROVE  /\ crypt_64bit_up(kb, p) \in Two
         /\ crypt_64bit_down(kb, crypt_64bit_up(kb, p)) = p
<1> DEFINE r == crypt_64bit_up(kb, p)
           a == Entry(kb, 0)
           b == Entry(kb, 1)
<1>1. r \in Two
  BY UpIs
<1>2. PICK u : /\ UpRun(u, kb, p)
               /\ r = <<Xor(Entry(kb, 16), u[16][1]), Xor(Entry(kb, 17), u[16][2])>>
  BY UpIs
<1> HIDE DEF r
<1>3. PICK d : /\ DownRun(d, kb, r)
               /\ crypt_64bit_down(kb, r) = <<Xor(b, d[16][1]), Xor(a, d[16][2])>>
  BY <1>1, DownIs
<1>4. d[16] = <<Xor(b, u[0][2]), Xor(a, u[0][1])>>
  BY <1>2, <1>3, DownMirrorsUp
<1>5. u[0][1] = p[2] /\ u[0][2] = p[1]
  <2>1. u[0] = <<p[2], p[1]>>
    BY <1>2 DEF UpRun
  <2> QED
    BY <2>1
<1>6. d[16][1] = Xor(b, p[1]) /\ d[16][2] = Xor(a, p[2])
  BY <1>4, <1>5
<1>7. a \in Byte /\ b \in Byte
  BY EntryIs
<1>8. p[1] \in Byte /\ p[2] \in Byte /\ p = <<p[1], p[2]>>
  BY OfTwo
<1> HIDE DEF a, b
<1>9. Xor(b, Xor(b, p[1])) = p[1]
  BY <1>7, <1>8, XorBack
<1>10. Xor(a, Xor(a, p[2])) = p[2]
  BY <1>7, <1>8, XorBack
<1>11. crypt_64bit_down(kb, r) = p
  BY <1>3, <1>6, <1>8, <1>9, <1>10
<1> QED
  BY <1>1, <1>11 DEF r

(* Two words written over a key buffer.                                    *)
LEMMA KeysOver ==
  ASSUME NEW kb, Keys(kb), NEW m \in Int, m >= 0, m <= 32, NEW v, Str(v, 2)
  PROVE  Keys(Over(kb, m, v))
<1> DEFINE L == 34  two == 2
<1>1. Str(kb, L) /\ Str(v, two) /\ m + two <= L
  BY DEF Keys
<1>2. L = 34
  OBVIOUS
<1> HIDE DEF L, two
<1>3. Written(Over(kb, m, v), kb, m, v, L, two)
  BY <1>1, StrOver
<1> QED
  BY <1>2, <1>3 DEF Written, Keys

(* A key buffer that is being filled, and the block it is filled with      *)
(* (apply_keycode).                                                        *)
Fillings == [keybuf : {v \in Seq(Byte) : Keys(v)}, scratch : Two]
PutIn(before, n, scratch) ==
  [keybuf |-> Over(before.keybuf, 2 * (n - 1), <<scratch[2], scratch[1]>>),
   scratch |-> scratch]
FillStep(before, n) ==
  PutIn(before, n, crypt_64bit_up(before.keybuf, before.scratch))

(* Two words more leave a key buffer.                                      *)
LEMMA FillStepIs ==
  ASSUME NEW before \in Fillings, NEW n \in 1..17
  PROVE  FillStep(before, n) \in Fillings
<1> DEFINE kb == before.keybuf
           s == crypt_64bit_up(kb, before.scratch)
           v == <<s[2], s[1]>>
           m == 2 * (n - 1)
           o == Over(kb, m, v)
<1>1. Keys(kb) /\ before.scratch \in Two
  BY DEF Fillings
<1>2. s \in Two
  <2> HIDE DEF kb
  <2> QED
    BY <1>1, UpIs
<1>3. FillStep(before, n) = [keybuf |-> o, scratch |-> s]
  BY DEF FillStep, PutIn
<1> HIDE DEF s, kb
<1>4. Str(v, 2)
  <2>1. s[1] \in Byte /\ s[2] \in Byte
    BY <1>2, OfTwo
  <2> QED
    BY <2>1, TwoIs
<1>5. m \in Int /\ m >= 0 /\ m <= 32
  OBVIOUS
<1> HIDE DEF v, m
<1>6. Keys(o)
  BY <1>1, <1>4, <1>5, KeysOver
<1> HIDE DEF o
<1>7. o \in Seq(Byte)
  BY <1>6 DEF Keys, Str
<1> QED
  BY <1>2, <1>3, <1>6, <1>7 DEF Fillings

(* All of them do.                                                         *)
LEMMA RefilledIs ==
  ASSUME NEW keybuf, Keys(keybuf)
  PROVE  Keys(Refilled(keybuf))
<1> DEFINE N == KeyWordsTotal \div 2
           base == [keybuf |-> keybuf, scratch |-> <<0, 0>>]
<1>20. N = 17
  BY WordsAre
<1>22. base \in Fillings
  <2>1. 0 \in Byte /\ keybuf \in Seq(Byte)
    BY DEF Keys, Str, Byte
  <2>2. <<0, 0>> \in Two
    BY <2>1, TwoIs
  <2> QED
    BY <2>1, <2>2 DEF Fillings
<1>23. N \in Nat /\ \A n \in 1..N : n \in 1..17
  BY <1>20
<1> HIDE DEF N
<1> DEFINE step == [n \in 1..N |-> [x \in Fillings |-> FillStep(x, n)]]
           filled[n \in 0..N] == IF n = 0 THEN base ELSE FillStep(filled[n - 1], n)
<1>1. N \in Nat /\ base \in Fillings
  BY <1>22, <1>23
<1>2. ASSUME NEW n \in 1..N, NEW x \in Fillings
      PROVE  FillStep(x, n) \in Fillings
  BY <1>23, FillStepIs
<1>3. step \in [1..N -> [Fillings -> Fillings]]
  BY <1>2
<1>4. PICK j \in [0..N -> Fillings] : Runs(j, N, base, step)
  <2> HIDE DEF step
  <2> QED
    BY <1>1, <1>3, RunsExist
<1>5. ASSUME NEW n \in 1..N
      PROVE  j[n - 1] \in Fillings /\ j[n] = FillStep(j[n - 1], n)
  <2>1. j[n - 1] \in Fillings
    BY <1>1
  <2>2. j[n] = step[n][j[n - 1]]
    BY <1>4 DEF Runs
  <2> QED
    BY <2>1, <2>2
<1>6. j[0] = base
  BY <1>4 DEF Runs
<1> HIDE DEF step
<1>7. j = [n \in 0..N |-> IF n = 0 THEN base ELSE FillStep(j[n - 1], n)]
  <2> DEFINE g == [n \in 0..N |-> IF n = 0 THEN base ELSE FillStep(j[n - 1], n)]
  <2>1. ASSUME NEW n \in 0..N PROVE j[n] = g[n]
    <3>1. CASE n = 0
      BY <1>6, <3>1
    <3>2. CASE n # 0
      <4>1. n \in 1..N
        BY <1>1, <3>2
      <4> QED
        BY <1>5, <3>2, <4>1
    <3> QED
      BY <3>1, <3>2
  <2>2. j = [n \in 0..N |-> j[n]] /\ g = [n \in 0..N |-> g[n]]
    OBVIOUS
  <2> HIDE DEF g
  <2>3. j = g
    BY <2>1, <2>2
  <2> QED
    BY <2>3 DEF g
<1>8. filled = [n \in 0..N |-> IF n = 0 THEN base ELSE FillStep(filled[n - 1], n)]
  BY <1>7

<1>21. Refilled(keybuf) = filled[N].keybuf
  BY Zenon DEF Refilled, FillStep, PutIn, N
<1> HIDE DEF base
<1> HIDE DEF filled
<1>9. ASSUME NEW n \in 1..N PROVE filled[n] = FillStep(filled[n - 1], n)
  <2> DEFINE g == [y \in 0..N |-> IF y = 0 THEN base ELSE FillStep(filled[y - 1], y)]
  <2>1. n \in 0..N /\ n # 0
    BY <1>1
  <2>2. g[n] = FillStep(filled[n - 1], n)
    BY <2>1
  <2>3. filled = g
    BY <1>8, Zenon
  <2> HIDE DEF g
  <2> QED
    BY <2>2, <2>3, Zenon
<1>10. filled[0] = base
  <2> DEFINE g == [n \in 0..N |-> IF n = 0 THEN base ELSE FillStep(filled[n - 1], n)]
  <2>1. 0 \in 0..N
    BY <1>1
  <2>2. g[0] = base
    BY <2>1
  <2>3. filled = g
    BY <1>8, Zenon
  <2> HIDE DEF g
  <2> QED
    BY <2>2, <2>3, Zenon
<1>11. \A n \in 0..N : filled[n] \in Fillings
  <2> DEFINE T == {n \in 0..N : filled[n] \in Fillings}
  <2>1. 0 \in T
    BY <1>1, <1>10
  <2>2. ASSUME NEW n \in 1..N, n - 1 \in T PROVE n \in T
    <3>1. filled[n - 1] \in Fillings /\ n \in 0..N
      BY <1>1, <2>2
    <3> QED
      BY <1>2, <1>9, <3>1
  <2> HIDE DEF T
  <2>3. \A n \in 0..N : n \in T
    BY <1>1, <2>1, <2>2, UpTo
  <2> QED
    BY <2>3 DEF T
<1>12. filled \in [0..N -> Fillings]
  BY <1>8, <1>11
<1>13. filled[N] \in Fillings
  <2>1. N \in 0..N
    BY <1>1
  <2> QED
    BY <1>11, <2>1
<1>14. Keys(filled[N].keybuf)
  BY <1>13 DEF Fillings
<1> QED
  BY <1>14, <1>21

(* A key code has three words.                                             *)
Codes == {v \in Seq(Byte) : Len(v) = 3}

(* It is made of three,                                                    *)
LEMMA CodeIs ==
  ASSUME NEW a \in Byte, NEW b \in Byte, NEW c \in Byte
  PROVE  <<a, b, c>> \in Codes
BY DEF Codes

(* and has three.                                                          *)
LEMMA OfCode ==
  ASSUME NEW v \in Codes
  PROVE  v[1] \in Byte /\ v[2] \in Byte /\ v[3] \in Byte
<1> DEFINE n == 3
<1>1. Str(v, n)
  BY DEF Codes, Str
<1>2. 1 \in 1..n /\ 2 \in 1..n /\ 3 \in 1..n
  OBVIOUS
<1> HIDE DEF n
<1>3. \A i \in 1..n : v[i] \in Byte
  BY <1>1, StrIs
<1> QED
  BY <1>2, <1>3

(* The key code enciphered is a key code.                                  *)
LEMMA CodedIs ==
  ASSUME NEW s, Keys(s.keybuf), s.keycode \in Codes
  PROVE  Coded(s) \in Codes
<1> DEFINE kb == s.keybuf
           code == s.keycode
           a == <<code[2], code[3]>>
           high == crypt_64bit_up(kb, a)
           b == <<code[1], high[1]>>
           low == crypt_64bit_up(kb, b)
           last == <<high[2]>>
<1>1. code[1] \in Byte /\ code[2] \in Byte /\ code[3] \in Byte
  BY OfCode
<1>2. Coded(s) = low \o last
  BY DEF Coded
<1>3. Keys(kb)
  OBVIOUS
<1> HIDE DEF kb, code
<1>4. a \in Two
  BY <1>1, TwoIs
<1> HIDE DEF a
<1>5. high \in Two
  BY <1>3, <1>4, UpIs
<1> HIDE DEF high
<1>6. high[1] \in Byte /\ high[2] \in Byte
  BY <1>5, OfTwo
<1>7. b \in Two
  BY <1>1, <1>6, TwoIs
<1> HIDE DEF b
<1>8. low \in Two
  BY <1>3, <1>7, UpIs
<1> HIDE DEF low
<1>9. low \in Seq(Byte) /\ Len(low) = 2 /\ last \in Seq(Byte) /\ Len(last) = 1
  BY <1>6, <1>8 DEF Two
<1> HIDE DEF last
<1> DEFINE two == 2
           one == 1
           x == low \o last
<1>10. Str(low, two) /\ Str(last, one) /\ two + one = 3
  BY <1>9 DEF Str
<1> HIDE DEF two, one
<1>11. Appended(x, low, last, two, one)
  BY <1>10, StrJoined
<1> HIDE DEF x
<1>12. Str(x, 3)
  BY <1>10, <1>11 DEF Appended
<1> QED
  BY <1>2, <1>12 DEF Codes, Str, x

(* A word with its bytes turned around is a word.                          *)
LEMMA SwapWord ==
  ASSUME NEW w \in Byte
  PROVE  bswap_32bit(w) \in Byte
<1> DEFINE a == Digit(w, 3)  b == Digit(w, 2)  c == Digit(w, 1)  d == Digit(w, 0)
<1>1. a \in 0..3 /\ b \in 0..3 /\ c \in 0..3 /\ d \in 0..3
  BY DigitIs
<1>2. bswap_32bit(w) = a + (4 * b) + (4 * 4 * c) + (4 * 4 * 4 * d)
  BY DEF bswap_32bit, Base
<1> HIDE DEF a, b, c, d
<1> QED
  BY <1>1, <1>2 DEF Byte

(* The round words with the key code over them leave a key buffer.         *)
LEMMA KeyedIs ==
  ASSUME NEW kb, Keys(kb), NEW code \in Codes
  PROVE  Keys(Keyed(kb, code, 2))
<1> DEFINE f(i) == IF i > 18 THEN kb[i]
                   ELSE Xor(kb[i], bswap_32bit(code[((i - 1) % 2) + 1]))
           N == 34
           e == [i \in 1..N |-> f(i)]
<1>1. ASSUME NEW i \in 1..N
      PROVE  f(i) \in Byte
  <2>1. kb[i] \in Byte
    BY StrIs DEF Keys
  <2> DEFINE h == ((i - 1) % 2) + 1
  <2>2. h \in {1, 2}
    OBVIOUS
  <2> HIDE DEF h
  <2>3. code[h] \in Byte
    BY <2>2, OfCode
  <2>4. bswap_32bit(code[h]) \in Byte
    BY <2>3, SwapWord
  <2>5. Xor(kb[i], bswap_32bit(code[h])) \in Byte
    BY <2>1, <2>4, XorCancels
  <2> QED
    BY <2>1, <2>5 DEF h
<1>2. Keyed(kb, code, 2) = <<>> \o e
  BY WordsAre DEF Keyed
<1>3. e \in [1..N -> Byte]
  <2> HIDE DEF f
  <2> QED
    BY <1>1
<1>4. N \in Nat /\ N = 34
  OBVIOUS
<1> HIDE DEF e, N
<1>5. Str(<<>> \o e, N)
  BY <1>3, <1>4, StrMade
<1> QED
  BY <1>2, <1>4, <1>5 DEF Keys

(* A key buffer and the code it was keyed with.                            *)
Keyings == [keybuf : {v \in Seq(Byte) : Keys(v)}, keycode : Codes]

(* apply_keycode makes a key buffer and a key code.                        *)
LEMMA ApplyIs ==
  ASSUME NEW s, Keys(s.keybuf), s.keycode \in Codes
  PROVE  apply_keycode(s, 2) \in Keyings
<1> DEFINE code == Coded(s)
           kb == Keyed(s.keybuf, code, 2)
           new == Refilled(kb)
<1>1. code \in Codes
  BY CodedIs
<1>2. apply_keycode(s, 2) = [keycode |-> code, keybuf |-> new]
  BY DEF apply_keycode
<1> HIDE DEF code
<1>3. Keys(kb)
  BY <1>1, KeyedIs
<1> HIDE DEF kb
<1>4. Keys(new)
  BY <1>3, RefilledIs
<1>5. new \in Seq(Byte)
  BY <1>4 DEF Keys, Str
<1> HIDE DEF new
<1> QED
  BY <1>1, <1>2, <1>4, <1>5 DEF Keyings

(* The key code before the third level.                                    *)
TurnedCode(two) ==
  [two EXCEPT !.keycode = <<two.keycode[1], (2 * two.keycode[2]) % Words,
                            two.keycode[3] \div 2>>]

(* It is one.                                                              *)
LEMMA TurnedCodeIs ==
  ASSUME NEW s \in Keyings
  PROVE  TurnedCode(s) \in Keyings
<1> DEFINE c == s.keycode
           a == c[1]
           b == (2 * c[2]) % Words
           d == c[3] \div 2
           w == <<a, b, d>>
<1>1. c \in Codes
  BY DEF Keyings
<1>2. TurnedCode(s) = [s EXCEPT !.keycode = w]
  BY DEF TurnedCode
<1> HIDE DEF c
<1>3. a \in Byte /\ c[2] \in Byte /\ c[3] \in Byte
  BY <1>1, OfCode
<1>4. b \in Byte /\ d \in Byte
  BY <1>3 DEF Words, Base, Byte
<1> HIDE DEF a, b, d
<1>5. w \in Codes
  BY <1>3, <1>4, CodeIs
<1> HIDE DEF w
<1> QED
  BY <1>2, <1>5 DEF Keyings

(* One level of init_keycode.                                              *)
KeyStep(l, before) ==
  apply_keycode(IF l = 3 THEN TurnedCode(before) ELSE before, 2)

(* It leaves a key buffer and a key code.                                  *)
LEMMA KeyStepIs ==
  ASSUME NEW l, NEW before \in Keyings
  PROVE  KeyStep(l, before) \in Keyings
<1> DEFINE s == IF l = 3 THEN TurnedCode(before) ELSE before
<1>1. s \in Keyings
  BY TurnedCodeIs
<1>2. KeyStep(l, before) = apply_keycode(s, 2)
  BY DEF KeyStep
<1> HIDE DEF s
<1>3. Keys(s.keybuf) /\ s.keycode \in Codes
  BY <1>1 DEF Keyings
<1> QED
  BY <1>2, <1>3, ApplyIs

(* The three tables are key buffers.                                       *)
LEMMA TablesAre == Keys(gEncrData) /\ Keys(gEncrDataTwl) /\ Keys(gEncrDataTwlDev)
<1>1. 0..(Words - 1) = Byte
  BY DEF Words, Base, Byte
<1> QED
  BY <1>1, WordsAre, TablesAssumption DEF Keys, Str

(* What init_keycode makes is a key buffer, for every game code, level and *)
(* kind of card (encryption.c).                                            *)
LEMMA KeyIs ==
  ASSUME NEW idcode \in Byte, NEW level \in Nat, NEW device \in CardKeys
  PROVE  Keys(init_keycode(idcode, level, 2, device))
<1> DEFINE tables == CASE device = "NTR_CARD_KEY" -> gEncrData
                       [] device = "DSI_CARD_KEY" -> gEncrDataTwl
                       [] device = "DSI_DEV_CARD_KEY" -> gEncrDataTwlDev
           code == <<idcode, idcode \div 2, (2 * idcode) % Words>>
           base == [keybuf |-> tables, keycode |-> code]
<1>20. Keys(tables)
  BY TablesAre DEF CardKeys
<1>22. code \in Codes
  <2>1. idcode \div 2 \in Byte /\ (2 * idcode) % Words \in Byte
    BY DEF Words, Base, Byte
  <2> QED
    BY <2>1, CodeIs
<1>23. base \in Keyings
  <2> HIDE DEF tables, code
  <2>1. tables \in Seq(Byte)
    BY <1>20 DEF Keys, Str
  <2> QED
    BY <1>20, <1>22, <2>1 DEF Keyings
<1> DEFINE step == [l \in 1..level |-> [x \in Keyings |-> KeyStep(l, x)]]
           keyed[l \in 0..level] == IF l = 0 THEN base ELSE KeyStep(l, keyed[l - 1])
<1>1. level \in Nat /\ base \in Keyings
  BY <1>23
<1>2. ASSUME NEW l \in 1..level, NEW x \in Keyings
      PROVE  KeyStep(l, x) \in Keyings
  BY KeyStepIs
<1>3. step \in [1..level -> [Keyings -> Keyings]]
  BY <1>2
<1>4. PICK j \in [0..level -> Keyings] : Runs(j, level, base, step)
  <2> HIDE DEF step
  <2> QED
    BY <1>1, <1>3, RunsExist
<1>5. ASSUME NEW l \in 1..level
      PROVE  j[l - 1] \in Keyings /\ j[l] = KeyStep(l, j[l - 1])
  <2>1. j[l - 1] \in Keyings
    BY <1>1
  <2>2. j[l] = step[l][j[l - 1]]
    BY <1>4 DEF Runs
  <2> QED
    BY <2>1, <2>2
<1>6. j[0] = base
  BY <1>4 DEF Runs
<1> HIDE DEF step
<1>7. j = [l \in 0..level |-> IF l = 0 THEN base ELSE KeyStep(l, j[l - 1])]
  <2> DEFINE g == [l \in 0..level |-> IF l = 0 THEN base ELSE KeyStep(l, j[l - 1])]
  <2>1. ASSUME NEW l \in 0..level PROVE j[l] = g[l]
    <3>1. CASE l = 0
      BY <1>6, <3>1
    <3>2. CASE l # 0
      <4>1. l \in 1..level
        BY <1>1, <3>2
      <4> QED
        BY <1>5, <3>2, <4>1
    <3> QED
      BY <3>1, <3>2
  <2>2. j = [l \in 0..level |-> j[l]] /\ g = [l \in 0..level |-> g[l]]
    OBVIOUS
  <2> HIDE DEF g
  <2>3. j = g
    BY <2>1, <2>2
  <2> QED
    BY <2>3 DEF g
<1>8. keyed = [l \in 0..level |-> IF l = 0 THEN base ELSE KeyStep(l, keyed[l - 1])]
  BY <1>7

<1>21. init_keycode(idcode, level, 2, device)
         = IF device = "DSI_DEV_CARD_KEY" THEN tables ELSE keyed[level].keybuf
  BY Zenon DEF init_keycode, KeyStep, TurnedCode
<1> HIDE DEF keyed, base, tables
<1>9. ASSUME NEW l \in 1..level PROVE keyed[l] = KeyStep(l, keyed[l - 1])
  <2> DEFINE g == [y \in 0..level |-> IF y = 0 THEN base ELSE KeyStep(y, keyed[y - 1])]
  <2>1. l \in 0..level /\ l # 0
    BY <1>1
  <2>2. g[l] = KeyStep(l, keyed[l - 1])
    BY <2>1
  <2>3. keyed = g
    BY <1>8, Zenon
  <2> HIDE DEF g
  <2> QED
    BY <2>2, <2>3, Zenon
<1>10. keyed[0] = base
  <2> DEFINE g == [l \in 0..level |-> IF l = 0 THEN base ELSE KeyStep(l, keyed[l - 1])]
  <2>1. 0 \in 0..level
    BY <1>1
  <2>2. g[0] = base
    BY <2>1
  <2>3. keyed = g
    BY <1>8, Zenon
  <2> HIDE DEF g
  <2> QED
    BY <2>2, <2>3, Zenon
<1>11. \A l \in 0..level : keyed[l] \in Keyings
  <2> DEFINE T == {l \in 0..level : keyed[l] \in Keyings}
  <2>1. 0 \in T
    BY <1>1, <1>10
  <2>2. ASSUME NEW l \in 1..level, l - 1 \in T PROVE l \in T
    <3>1. keyed[l - 1] \in Keyings /\ l \in 0..level
      BY <1>1, <2>2
    <3> QED
      BY <1>2, <1>9, <3>1
  <2> HIDE DEF T
  <2>3. \A l \in 0..level : l \in T
    BY <1>1, <2>1, <2>2, UpTo
  <2> QED
    BY <2>3 DEF T
<1>12. keyed \in [0..level -> Keyings]
  BY <1>8, <1>11
<1>13. keyed[level] \in Keyings
  <2>1. level \in 0..level
    OBVIOUS
  <2> QED
    BY <1>11, <2>1
<1>14. Keys(keyed[level].keybuf)
  BY <1>13 DEF Keyings
<1> QED
  BY <1>14, <1>20, <1>21

-----------------------------------------------------------------------------
(* The secure area, block by block.                                        *)

(* A string of blocks, word by word.                                       *)
Woven(h, M) == <<>> \o [i \in 1..(2 * M) |-> h[(i + 1) \div 2][2 - (i % 2)]]

(* Every place of whole blocks is one of a block's two,                    *)
LEMMA PlaceInPair ==
  ASSUME NEW M \in Int, NEW i \in Int, i >= 1, i <= 2 * M
  PROVE  /\ (i + 1) \div 2 \in 1..M /\ 2 - (i % 2) \in {1, 2}
         /\ i = (2 * ((i + 1) \div 2)) - (i % 2)
  OBVIOUS

(* and a block has its two places.                                         *)
LEMMA PairPlaces ==
  ASSUME NEW m \in Int
  PROVE  /\ (((2 * m) - 1) + 1) \div 2 = m /\ ((2 * m) + 1) \div 2 = m
         /\ 2 - (((2 * m) - 1) % 2) = 1 /\ 2 - ((2 * m) % 2) = 2
  OBVIOUS

(* A block of a string is two words.                                       *)
LEMMA PairIs ==
  ASSUME NEW v, NEW L, Str(v, L), NEW m \in Int, m >= 1, 2 * m <= L
  PROVE  Pair(v, m) \in Two
<1> DEFINE a == (2 * m) - 1
           b == 2 * m
<1>1. a \in 1..L /\ b \in 1..L
  BY StrIs
<1> HIDE DEF a, b
<1>2. v[a] \in Byte /\ v[b] \in Byte
  BY <1>1, StrIs
<1>3. <<v[a], v[b]>> \in Two
  BY <1>2, TwoIs
<1> QED
  BY <1>3 DEF Pair, a, b

(* Strings of the same blocks are the same.                                *)
LEMMA PairsEqual ==
  ASSUME NEW v, NEW w, NEW M \in Nat, Str(v, 2 * M), Str(w, 2 * M),
         \A m \in 1..M : Pair(v, m) = Pair(w, m)
  PROVE  v = w
<1> DEFINE L == 2 * M
<1>1. ASSUME NEW i \in 1..L
      PROVE  v[i] = w[i]
  <2> DEFINE m == (i + 1) \div 2
             r == i % 2
  <2>1. m \in 1..M /\ r \in {0, 1} /\ i = (2 * m) - r
    BY PlaceInPair
  <2> HIDE DEF m, r
  <2>2. Pair(v, m) = Pair(w, m)
    BY <2>1
  <2>3. v[(2 * m) - 1] = w[(2 * m) - 1] /\ v[2 * m] = w[2 * m]
    BY <2>2 DEF Pair
  <2>4. CASE r = 1
    BY <2>1, <2>3, <2>4
  <2>5. CASE r = 0
    <3>1. i = 2 * m
      BY <2>1, <2>5
    <3> QED
      BY <2>3, <3>1
  <2> QED
    BY <2>1, <2>4, <2>5
<1>2. Str(v, L) /\ Str(w, L)
  OBVIOUS
<1> HIDE DEF L
<1> QED
  BY <1>1, <1>2, StrEqual

(* The blocks of a string that is woven of them.                           *)
LEMMA WovenIs ==
  ASSUME NEW h, NEW M \in Nat, \A m \in 1..M : h[m] \in Two
  PROVE  Str(Woven(h, M), 2 * M) /\ \A m \in 1..M : Pair(Woven(h, M), m) = h[m]
<1> DEFINE L == 2 * M
           e == [i \in 1..L |-> h[(i + 1) \div 2][2 - (i % 2)]]
           w == Woven(h, M)
<1>1. w = <<>> \o e
  BY DEF Woven
<1>2. ASSUME NEW i \in 1..L
      PROVE  e[i] \in Byte
  <2> DEFINE m == (i + 1) \div 2
             r == 2 - (i % 2)
  <2>1. m \in 1..M /\ r \in {1, 2}
    BY PlaceInPair
  <2>2. e[i] = h[m][r]
    OBVIOUS
  <2> HIDE DEF m, r
  <2>3. h[m] \in Two
    BY <2>1
  <2>4. h[m][1] \in Byte /\ h[m][2] \in Byte
    BY <2>3, OfTwo
  <2> QED
    BY <2>1, <2>2, <2>4
<1>3. \A i \in 1..L : e[i] = h[(i + 1) \div 2][2 - (i % 2)]
  OBVIOUS
<1>4. e = [i \in 1..L |-> e[i]]
  OBVIOUS
<1>5. L \in Nat /\ L = 2 * M
  OBVIOUS
<1> HIDE DEF e, w, L
<1>6. e \in [1..L -> Byte]
  BY <1>2, <1>4
<1>7. Str(w, L) /\ \A i \in 1..L : w[i] = e[i]
  BY <1>1, <1>5, <1>6, StrMade
<1>8. ASSUME NEW m \in 1..M
      PROVE  Pair(w, m) = h[m]
  <2> DEFINE a == (2 * m) - 1
             b == 2 * m
             o == (a + 1) \div 2
             p == (b + 1) \div 2
             x == 2 - (a % 2)
             y == 2 - (b % 2)
  <2>1. a \in 1..L /\ b \in 1..L /\ o = m /\ p = m /\ x = 1 /\ y = 2
    BY <1>5, PairPlaces
  <2>2. e[a] = h[o][x] /\ e[b] = h[p][y]
    <3>1. a \in 1..L /\ b \in 1..L
      BY <2>1
    <3> HIDE DEF a, b
    <3> QED
      BY <1>3, <3>1
  <2> HIDE DEF o, p, x, y
  <2>3. Pair(w, m) = <<w[a], w[b]>>
    BY DEF Pair
  <2> HIDE DEF a, b
  <2>4. w[a] = h[m][1] /\ w[b] = h[m][2]
    BY <1>7, <2>1, <2>2
  <2>5. h[m] = <<h[m][1], h[m][2]>>
    BY OfTwo
  <2> QED
    BY <2>3, <2>4, <2>5
<1> QED
  BY <1>5, <1>7, <1>8 DEF w

(* The first block replaced, and put back.                                 *)
LEMMA FirstBack ==
  ASSUME NEW v, NEW L \in Int, L >= 2, Str(v, L), NEW u \in Two
  PROVE  /\ Pair(Over(v, 0, u), 1) = u
         /\ Over(Over(v, 0, u), 0, Pair(v, 1)) = v
<1> DEFINE x == Over(v, 0, u)
           f == Pair(v, 1)
           y == Over(x, 0, f)
           two == 2
           z == 0
<1>1. f \in Two /\ f[1] = v[1] /\ f[2] = v[2]
  <2>1. 1 \in Int /\ 1 >= 1 /\ 2 * 1 <= L
    OBVIOUS
  <2>2. f \in Two
    BY <2>1, PairIs
  <2> QED
    BY <2>2 DEF Pair
<1>2. Str(u, two) /\ Str(f, two)
  <2> HIDE DEF f
  <2> QED
    BY <1>1, OfTwo
<1>3. two \in Nat /\ z \in Int /\ z >= 0 /\ z + two <= L /\ two = 2 /\ z = 0
      /\ 1 \in 1..two /\ 2 \in 1..two
  OBVIOUS
<1>4. Written(Over(v, z, u), v, z, u, L, two)
  <2> HIDE DEF two, z
  <2> QED
    BY <1>2, <1>3, StrOver
<1>5. /\ Str(x, L) /\ x[1] = u[1] /\ x[2] = u[2]
      /\ \A i \in 3..L : x[i] = v[i]
  BY <1>4 DEF Written
<1>6. Pair(x, 1) = u
  <2>1. Pair(x, 1) = <<x[1], x[2]>>
    BY DEF Pair
  <2> HIDE DEF x
  <2> QED
    BY <1>5, <2>1, OfTwo
<1> HIDE DEF x
<1>7. Written(Over(x, z, f), x, z, f, L, two)
  <2> HIDE DEF two, z, f
  <2> QED
    BY <1>2, <1>3, <1>5, StrOver
<1>8. /\ Str(y, L) /\ y[1] = f[1] /\ y[2] = f[2]
      /\ \A i \in 3..L : y[i] = x[i]
  BY <1>7 DEF Written
<1> HIDE DEF y, f
<1>9. ASSUME NEW i \in 1..L
      PROVE  y[i] = v[i]
  <2>1. CASE i = 1
    BY <1>1, <1>8, <2>1
  <2>2. CASE i = 2
    BY <1>1, <1>8, <2>2
  <2>3. CASE i \notin {1, 2}
    <3>1. i \in 3..L
      BY <2>3
    <3> QED
      BY <1>5, <1>8, <3>1
  <2> QED
    BY <2>1, <2>2, <2>3
<1>10. y = v
  BY <1>8, <1>9, StrEqual
<1> QED
  BY <1>6, <1>10 DEF x, y, f

(* decryptSecureArea gets back what the maker of the card enciphered, of   *)
(* any length, for every game code and kind of card (read_card.c:77).      *)
LEMMA SecureRead ==
  ASSUME NEW idcode \in Byte, NEW device \in CardKeys, NEW plain, NEW M \in Nat, M >= 1,
         Str(plain, 2 * M)
  PROVE  decryptSecureArea(idcode, SecureAreaOf(idcode, plain, device), device) = plain
<1> DEFINE second == init_keycode(idcode, 2, 2, device)
           third == init_keycode(idcode, 3, 2, device)
           whole == <<>> \o [i \in 1..Len(plain) |->
                      crypt_64bit_up(third, Pair(plain, (i + 1) \div 2))[2 - (i % 2)]]
           head == crypt_64bit_up(second, Pair(whole, 1))
           x == Over(whole, 0, head)
           first == Over(x, 0, crypt_64bit_down(second, Pair(x, 1)))
           y == <<>> \o [i \in 1..Len(first) |->
                  crypt_64bit_down(third, Pair(first, (i + 1) \div 2))[2 - (i % 2)]]
           L == 2 * M
           h == [m \in 1..M |-> crypt_64bit_up(third, Pair(plain, m))]
           g == [m \in 1..M |-> crypt_64bit_down(third, Pair(first, m))]
<1>1. SecureAreaOf(idcode, plain, device) = x
  BY DEF SecureAreaOf
<1>2. decryptSecureArea(idcode, x, device) = y
  BY DEF decryptSecureArea
<1>3. Keys(second) /\ Keys(third)
  <2>1. 2 \in Nat /\ 3 \in Nat
    OBVIOUS
  <2> QED
    BY <2>1, KeyIs
<1>4. Len(plain) = L /\ L \in Int /\ L >= 2 /\ Str(plain, L)
  BY DEF Str
<1> HIDE DEF second, third
<1>5. ASSUME NEW i \in 1..L
      PROVE  (i + 1) \div 2 \in 1..M
  BY PlaceInPair
<1>6. ASSUME NEW m \in 1..M
      PROVE  Pair(plain, m) \in Two /\ h[m] = crypt_64bit_up(third, Pair(plain, m))
             /\ h[m] \in Two
  <2>1. m \in Int /\ m >= 1 /\ 2 * m <= L
    OBVIOUS
  <2>2. Pair(plain, m) \in Two
    <3> HIDE DEF L
    <3> QED
      BY <1>4, <2>1, PairIs
  <2> QED
    BY <1>3, <2>2, UpIs
<1>7. whole = Woven(h, M)
  <2> DEFINE e == [i \in 1..L |-> crypt_64bit_up(third, Pair(plain, (i + 1) \div 2))[2 - (i % 2)]]
             f == [i \in 1..L |-> h[(i + 1) \div 2][2 - (i % 2)]]
  <2>1. whole = <<>> \o e
    BY <1>4
  <2>2. Woven(h, M) = <<>> \o f
    BY DEF Woven
  <2>3. ASSUME NEW i \in 1..L
        PROVE  crypt_64bit_up(third, Pair(plain, (i + 1) \div 2))[2 - (i % 2)]
                 = h[(i + 1) \div 2][2 - (i % 2)]
    <3> HIDE DEF h
    <3> QED
      BY <1>5, <1>6
  <2>4. e = f
    <3> HIDE DEF h, L
    <3> QED
      BY <2>3
  <2> QED
    BY <2>1, <2>2, <2>4
<1> HIDE DEF h
<1>8. Str(whole, L) /\ \A m \in 1..M : Pair(whole, m) = h[m]
  BY <1>6, <1>7, WovenIs
<1> HIDE DEF whole
<1>9. Pair(whole, 1) \in Two
  <2>1. 1 \in 1..M
    OBVIOUS
  <2> QED
    BY <1>6, <1>8, <2>1
<1>10. head \in Two /\ crypt_64bit_down(second, head) = Pair(whole, 1)
  BY <1>3, <1>9, DownUndoesUp
<1> HIDE DEF head
<1>11. Pair(x, 1) = head /\ Over(x, 0, Pair(whole, 1)) = whole
  <2> HIDE DEF L
  <2> QED
    BY <1>4, <1>8, <1>10, FirstBack
<1> HIDE DEF x
<1>12. first = whole
  BY <1>10, <1>11
<1>13. Len(first) = L
  BY <1>8, <1>12 DEF Str
<1> HIDE DEF first
<1>14. ASSUME NEW m \in 1..M
       PROVE  g[m] = crypt_64bit_down(third, Pair(first, m)) /\ g[m] = Pair(plain, m)
  <2>1. g[m] = crypt_64bit_down(third, Pair(first, m))
    OBVIOUS
  <2>2. Pair(first, m) = crypt_64bit_up(third, Pair(plain, m))
    BY <1>6, <1>8, <1>12
  <2>3. crypt_64bit_down(third, crypt_64bit_up(third, Pair(plain, m))) = Pair(plain, m)
    BY <1>3, <1>6, DownUndoesUp
  <2> QED
    BY <2>1, <2>2, <2>3
<1>15. y = Woven(g, M)
  <2> DEFINE e == [i \in 1..L |-> crypt_64bit_down(third, Pair(first, (i + 1) \div 2))[2 - (i % 2)]]
             f == [i \in 1..L |-> g[(i + 1) \div 2][2 - (i % 2)]]
  <2>1. y = <<>> \o e
    BY <1>13
  <2>2. Woven(g, M) = <<>> \o f
    BY DEF Woven
  <2>3. ASSUME NEW i \in 1..L
        PROVE  crypt_64bit_down(third, Pair(first, (i + 1) \div 2))[2 - (i % 2)]
                 = g[(i + 1) \div 2][2 - (i % 2)]
    <3> HIDE DEF g
    <3> QED
      BY <1>5, <1>14
  <2>4. e = f
    <3> HIDE DEF g, L
    <3> QED
      BY <2>3
  <2> QED
    BY <2>1, <2>2, <2>4
<1> HIDE DEF g, y
<1>16. Str(y, 2 * M) /\ \A m \in 1..M : Pair(y, m) = g[m]
  <2>1. \A m \in 1..M : g[m] \in Two
    BY <1>6, <1>14
  <2> QED
    BY <1>15, <2>1, WovenIs
<1>17. y = plain
  BY <1>14, <1>16, PairsEqual
<1> QED
  BY <1>1, <1>2, <1>17

-----------------------------------------------------------------------------
(* The calls, in the machine.                                              *)

(* What a call for a chain of blocks returns.                              *)
ChainRead(text, cut, cbc, refused, cfb) ==
  /\ cfb.output = text
  /\ IF cut % 16 = 0 /\ Len(text) % 16 = 0
     THEN ~refused /\ cbc.output = text
     ELSE refused

(* Whole blocks, and what is left of them.                                 *)
LEMMA Sixteens ==
  ASSUME NEW a \in Int, NEW b \in Int, 0 <= a, a <= b, a % 16 = 0
  PROVE  /\ a \div 16 \in Nat /\ a = 16 * (a \div 16)
         /\ (b - a) % 16 = b % 16
         /\ b % 16 = 0 => (b - a) \div 16 \in Nat /\ b - a = 16 * ((b - a) \div 16)
<1>1. (b - a) % 16 = b % 16
  <2>1. b = (16 * (b \div 16)) + (b % 16) /\ b % 16 \in 0..15 /\ b \div 16 \in Int
    OBVIOUS
  <2>2. a = 16 * (a \div 16) /\ a \div 16 \in Int
    OBVIOUS
  <2> DEFINE q == b \div 16
             r == b % 16
             p == a \div 16
             m == b - a
  <2>3. m = (16 * (q - p)) + r /\ q - p \in Int
    BY <2>1, <2>2
  <2>4. r \in 0..15 /\ m \in Int
    BY <2>1
  <2> HIDE DEF q, r, p, m
  <2>5. m % 16 = r
    BY <2>3, <2>4
  <2> QED
    BY <2>5 DEF m, r
<1>2. a \div 16 \in Nat /\ a = 16 * (a \div 16)
  OBVIOUS
<1>3. ASSUME b % 16 = 0
      PROVE  (b - a) \div 16 \in Nat /\ b - a = 16 * ((b - a) \div 16)
  <2> DEFINE m == b - a
  <2>1. m \in Nat /\ m % 16 = 0
    BY <1>1, <1>3
  <2> HIDE DEF m
  <2>2. m \div 16 \in Nat /\ m = 16 * (m \div 16)
    BY <2>1
  <2> QED
    BY <2>2 DEF m
<1> QED
  BY <1>1, <1>2, <1>3

(* A text enciphered in two calls, in CBC and in CFB (polarssl/aes.c).     *)
LEMMA ChainReads ==
  ASSUME CipherInverts, NEW key \in Blocks16, NEW iv \in Blocks16, NEW off \in Int,
         NEW text \in Seq(Byte), NEW cut \in Nat, cut <= Len(text),
         NEW one, one = SubSeq(text, 1, cut),
         NEW two, two = SubSeq(text, cut + 1, Len(text)),
         NEW c, c = aes_crypt_cbc(key, AES_ENCRYPT, iv, one),
         NEW d, d = aes_crypt_cbc(key, AES_ENCRYPT, c.iv, two),
         NEW e, e = aes_crypt_cfb128(key, AES_ENCRYPT, off, iv, one),
         NEW f, f = aes_crypt_cfb128(key, AES_ENCRYPT, e.iv_off, e.iv, two)
  PROVE  ChainRead(text, cut,
           aes_crypt_cbc(key, AES_DECRYPT, iv, c.output \o d.output),
           c.ret # 0 \/ d.ret # 0,
           aes_crypt_cfb128(key, AES_DECRYPT, off, iv, e.output \o f.output))
<1> DEFINE L == Len(text)
           B == L - cut
           cbc == aes_crypt_cbc(key, AES_DECRYPT, iv, c.output \o d.output)
           cfb == aes_crypt_cfb128(key, AES_DECRYPT, off, iv, e.output \o f.output)
<1>1. L \in Int /\ Str(text, L) /\ B \in Nat /\ cut \in Int /\ cut >= 0 /\ cut <= L
  BY DEF Str
<1>2. InPieces(one, two, text, cut, L)
  <2> HIDE DEF L
  <2>1. InPieces(SubSeq(text, 1, cut), SubSeq(text, cut + 1, L), text, cut, L)
    BY <1>1, Pieces
  <2> QED
    BY <2>1 DEF L
<1>3. Str(one, cut) /\ Str(two, B) /\ one \o two = text
  BY <1>2 DEF InPieces
<1>4. Len(one) = cut /\ Len(two) = B
  BY <1>3 DEF Str
<1> HIDE DEF L, B
<1>5. cfb.output = text
  <2>1. cut \in Nat /\ B \in Nat
    BY <1>1
  <2>2. Str(one, cut) /\ Str(two, B) /\ one \o two = text
    BY <1>3
  <2>3. CfbInTwo(e, f, key, off, iv, text, one, two, cut, B)
    BY <2>2 DEF CfbInTwo
  <2>4. CfbBack(e, f, key, off, iv, text)
    BY <2>1, <2>3, CfbReads
  <2> QED
    BY <2>4 DEF CfbBack
<1>6. CASE cut % 16 = 0 /\ L % 16 = 0
  <2> DEFINE M == cut \div 16
             N == B \div 16
  <2>1. M \in Nat /\ N \in Nat /\ cut = 16 * M /\ B = 16 * N
    BY <1>1, <1>6, Sixteens DEF B
  <2> HIDE DEF M, N
  <2>2. Str(one, 16 * M) /\ Str(two, 16 * N)
    BY <1>3, <2>1
  <2>3. c.ret = 0 /\ d.ret = 0 /\ cbc.output = text
    <3>1. CbcInTwo(c, d, key, iv, text, one, two, M, N)
      BY <1>3, <2>2 DEF CbcInTwo
    <3>2. CbcBack(c, d, key, iv, text)
      BY <2>1, <3>1, CbcReads
    <3> QED
      BY <3>2 DEF CbcBack
  <2> QED
    BY <1>5, <1>6, <2>3 DEF ChainRead, L
<1>7. CASE cut % 16 # 0
  <2>1. c.ret # 0
    BY <1>4, <1>7, CbcRefuses
  <2> QED
    BY <1>5, <1>7, <2>1 DEF ChainRead
<1>8. CASE cut % 16 = 0 /\ L % 16 # 0
  <2>1. B % 16 # 0
    BY <1>1, <1>8, Sixteens DEF B
  <2>2. d.ret # 0
    BY <1>4, <2>1, CbcRefuses
  <2> QED
    BY <1>5, <1>8, <2>2 DEF ChainRead, L
<1> QED
  BY <1>6, <1>7, <1>8

(* The same of the machine.                                                *)
LEMMA ChainCallReads ==
  ASSUME CipherInverts, call \in ChainCalls, call.cut <= Len(call.text),
         Chain, call' = call
  PROVE  ChainsContinue'
<1> DEFINE key == call.key
           iv == call.iv
           off == call.off
           text == call.text
           cut == call.cut
           one == SubSeq(text, 1, cut)
           two == SubSeq(text, cut + 1, Len(text))
           c == aes_crypt_cbc(key, AES_ENCRYPT, iv, one)
           d == aes_crypt_cbc(key, AES_ENCRYPT, c.iv, two)
           e == aes_crypt_cfb128(key, AES_ENCRYPT, off, iv, one)
           f == aes_crypt_cfb128(key, AES_ENCRYPT, e.iv_off, e.iv, two)
           cbc == aes_crypt_cbc(key, AES_DECRYPT, iv, c.output \o d.output)
           refused == c.ret # 0 \/ d.ret # 0
           cfb == aes_crypt_cfb128(key, AES_DECRYPT, off, iv, e.output \o f.output)
           value == [cbc |-> cbc, refused |-> refused, cfb |-> cfb]
           Arrives(s, r) == ChainRead(s.text, s.cut, r.cbc, r.refused, r.cfb)
<1>1. /\ key \in Blocks16 /\ iv \in Blocks16 /\ off \in Int /\ text \in Seq(Byte)
      /\ cut \in Nat
  BY DEF ChainCalls
<1>2. ChainRead(text, cut, cbc, refused, cfb)
  <2>1. cut <= Len(text)
    OBVIOUS
  <2> QED
    BY <1>1, <2>1, ChainReads, Zenon
<1>3. result' = value
  BY Zenon DEF Chain, Returns
<1> HIDE DEF cbc, refused, cfb
<1>4. value.cbc = cbc /\ value.refused = refused /\ value.cfb = cfb
  BY Zenon
<1>5. Arrives(call, value)
  BY <1>2, <1>4, Zenon
<1> HIDE DEF value
<1>6. Arrives(call', result')
  BY <1>3, <1>5
<1> QED
  BY <1>6, Zenon DEF ChainsContinue, ChainRead

(* What a call for sectors and areas returns.                              *)
SectorsAgree(text, r) ==
  LET whole == 16 * (Len(text) \div 16)
  IN /\ r.together = r.apart
     /\ r.together = r.counter
     /\ r.boot = r.bootTwo
     /\ r.twice = text
     /\ SubSeq(r.once, whole + 1, Len(text)) = SubSeq(text, whole + 1, Len(text))

(* Sectors of the NAND in any order, areas and the boot stages, of one     *)
(* call (gm9i/crypto.c, twltool/dsi.c, main.arm7.c).                       *)
LEMMA SectorCallReads ==
  ASSUME CipherInverts, call \in SectorCalls, NumbersSectors(call),
         CryptSectors, call' = call
  PROVE  SectorsInAnyOrder'
<1> DEFINE iv == call.iv
           text == call.text
           o == call.offset
           L == Len(text)
           N == L \div 16
           ctx == [key |-> dsi_set_key(call.key), ctr |-> Zeros(16)]
           counted == dsi_set_ctr(ctx, iv)
           bootCtr == dsi_boot2_crypt_set_ctr(o)
           start == dsi_boot2_crypt(ctx, bootCtr, text, 1)
           together == dsi_nand_crypt(ctx, iv, text, o, N)
           apart == Join([n \in 1..N |->
                            dsi_nand_crypt_1(ctx, iv, Block(text, n), (o + n) - 1)], N)
           counter == dsi_crypt_ctr(dsi_set_ctr(ctx, u128_add32(iv, o)),
                                    SubSeq(text, 1, 16 * N)).output
           once == decrypt_modcrypt_area(counted, text).output
           twice == decrypt_modcrypt_area(counted, once).output
           boot == dsi_boot2_crypt(ctx, bootCtr, text, N).output
           bootTwo == start.output
                        \o dsi_boot2_crypt(ctx, start.ctr, SubSeq(text, 17, L), N - 1).output
           value == [together |-> together, apart |-> apart, counter |-> counter,
                     twice |-> twice, once |-> once, boot |-> boot, bootTwo |-> bootTwo]
           Arrives(s, r) == SectorsAgree(s.text, r)
<1>1. /\ call.key \in Blocks16 /\ iv \in Blocks16 /\ text \in Seq(Byte) /\ o \in Nat
      /\ N >= 1 /\ (o + N - 1) \div 65536 < 65536
  BY DEF SectorCalls, NumbersSectors
<1>2. L \in Nat /\ Str(text, L) /\ Str(iv, 16)
  BY <1>1 DEF Str, Blocks16
<1> HIDE DEF L
<1>3. N \in Nat /\ 16 * N <= L /\ L \in Int
  BY <1>2
<1>4. o + N <= 65536 * 65536
  <2> HIDE DEF N
  <2> QED
    BY <1>1, <1>3
<1>5. ctx \in Contexts
  <2>1. dsi_set_key(call.key) \in Blocks16
    BY <1>1, SwapIs DEF dsi_set_key
  <2>2. Zeros(16) \in Blocks16
    <3>1. Str(Zeros(16), 16)
      BY ZerosAre
    <3> QED
      BY <3>1 DEF Str, Blocks16
  <2> QED
    BY <2>1, <2>2 DEF Contexts
<1> HIDE DEF ctx
<1>6. counted \in Contexts
  BY <1>2, <1>5, SetCtrIs
<1>7. Str(bootCtr, 16)
  BY <1>1, BootCtrIs
<1>8. result' = value
  BY Zenon DEF CryptSectors, Returns, ctx, L
<1>9. /\ twice = text
      /\ SubSeq(once, (16 * N) + 1, L) = SubSeq(text, (16 * N) + 1, L)
  <2> DEFINE M == N
  <2>1. M \in Nat /\ M = L \div 16
    BY <1>3
  <2> HIDE DEF M, counted
  <2>2. Modcrypted(once, twice, counted, text)
    BY DEF Modcrypted
  <2> HIDE DEF once, twice
  <2>3. ModcryptBack(once, twice, text, M, L)
    BY <1>2, <1>3, <1>6, <2>1, <2>2, ModcryptReads
  <2> QED
    BY <2>3 DEF M, ModcryptBack
<1>10. together = apart /\ together = counter /\ boot = bootTwo
  <2>1. SectorsBack(ctx, iv, text, o, N, L, bootCtr)
    <3> HIDE DEF N, bootCtr
    <3> QED
      BY <1>1, <1>2, <1>3, <1>4, <1>5, <1>7, SectorsRead
  <2> QED
    BY <2>1, Zenon DEF SectorsBack
<1> HIDE DEF together, apart, counter, twice, once, boot, bootTwo
<1>11. /\ value.together = together /\ value.apart = apart /\ value.counter = counter
       /\ value.twice = twice /\ value.once = once /\ value.boot = boot
       /\ value.bootTwo = bootTwo
  BY Zenon
<1> HIDE DEF value
<1>12. Arrives(call, value)
  BY <1>9, <1>10, <1>11, Zenon DEF SectorsAgree, L
<1>13. Arrives(call', result')
  BY <1>8, <1>12
<1> QED
  BY <1>13, Zenon DEF SectorsInAnyOrder, SectorsAgree

(* The secure area of one call (read_card.c:77, encryption.c).             *)
LEMMA SecureCallReads ==
  ASSUME call \in SecureCalls, WholeBlocks(call), SecureArea, call' = call
  PROVE  SecureAreaReadable'
<1> DEFINE plain == call.plain
           M == Len(plain) \div 2
<1>1. /\ call.idcode \in Byte /\ plain \in Seq(Byte) /\ call.device \in CardKeys
      /\ plain # <<>> /\ Len(plain) % 2 = 0
  BY WordsAre DEF SecureCalls, WholeBlocks, Byte
<1>2. Len(plain) \in Nat /\ Len(plain) # 0
  BY <1>1
<1>3. M \in Nat /\ M >= 1 /\ Len(plain) = 2 * M
  <2> DEFINE n == Len(plain)
  <2>1. n \in Nat /\ n # 0 /\ n % 2 = 0
    BY <1>1, <1>2
  <2> HIDE DEF n
  <2>2. n \div 2 \in Nat /\ n \div 2 >= 1 /\ n = 2 * (n \div 2)
    BY <2>1
  <2> QED
    BY <2>2 DEF n
<1> HIDE DEF M
<1>4. Str(plain, 2 * M)
  BY <1>1, <1>3 DEF Str
<1>5. decryptSecureArea(call.idcode, SecureAreaOf(call.idcode, plain, call.device),
                        call.device) = plain
  BY <1>1, <1>3, <1>4, SecureRead
<1>6. result' = call.plain
  BY <1>5 DEF SecureArea, Returns
<1> QED
  BY <1>6 DEF SecureAreaReadable

(* What is enciphered is what was there once it is deciphered, in whatever *)
(* pieces and order, under every block cipher whose inverse undoes it: the *)
(* chains, sectors, areas and the secure area (polarssl/aes.c,             *)
(* twltool/dsi.c, gm9i/crypto.c, encryption.c).                            *)
THEOREM ReadBackTheorem ==
  ASSUME CipherInverts
  PROVE  Spec => []ReadBack
<1>1. Init => ReadBack
  BY DEF Init, ReadBack, ChainsContinue, SectorsInAnyOrder, SecureAreaReadable, Nothing
<1>2. CallOK /\ ReadBack /\ [Next]_algVars => ReadBack'
  <2> SUFFICES ASSUME CallOK, ReadBack, [Next]_algVars
               PROVE  ReadBack'
    OBVIOUS
  <2>1. call' = call
    BY Steps
  <2>2. CASE result' = result
    BY <2>1, <2>2 DEF ReadBack, ChainsContinue, SectorsInAnyOrder, SecureAreaReadable
  <2>3. CASE result' # result
    <3>1. ChainsContinue'
      <4>1. CASE call.alg # "chain"
        BY <2>1, <4>1 DEF ChainsContinue
      <4>2. CASE call.alg = "chain"
        <5>1. Chain
          BY <2>3, <4>2, Steps
        <5>2. call \in ChainCalls /\ call.cut <= Len(call.text)
          BY <4>2, CallsAssumption DEF CallOK
        <5> QED
          BY <2>1, <5>1, <5>2, ChainCallReads
      <4> QED
        BY <4>1, <4>2
    <3>2. SectorsInAnyOrder'
      <4>1. CASE call.alg # "sectors"
        BY <2>1, <4>1 DEF SectorsInAnyOrder
      <4>2. CASE call.alg = "sectors"
        <5>1. CryptSectors
          BY <2>3, <4>2, Steps
        <5>2. call \in SectorCalls /\ NumbersSectors(call)
          BY <4>2, CallsAssumption DEF CallOK
        <5> QED
          BY <2>1, <5>1, <5>2, SectorCallReads
      <4> QED
        BY <4>1, <4>2
    <3>3. SecureAreaReadable'
      <4>1. CASE call.alg # "secure"
        BY <2>1, <4>1 DEF SecureAreaReadable
      <4>2. CASE call.alg = "secure"
        <5>1. SecureArea
          BY <2>3, <4>2, Steps
        <5>2. call \in SecureCalls /\ WholeBlocks(call)
          BY <4>2, CallsAssumption DEF CallOK
        <5> QED
          BY <2>1, <5>1, <5>2, SecureCallReads
      <4> QED
        BY <4>1, <4>2
    <3> QED
      BY <3>1, <3>2, <3>3 DEF ReadBack
  <2> QED
    BY <2>2, <2>3
<1> QED
  BY <1>1, <1>2, CallInvariance, PTL DEF Spec

-----------------------------------------------------------------------------
(* Sealed texts (CCM).                                                     *)

(* What is handed from block to block, beside the output.                  *)
Seals == [key : Blocks16, ctr : Blocks16, S0 : Blocks16, mac : Blocks16]
Sealings == [ctx : Seals, output : Seq(Byte)]

(* The bytes a block is mixed with, and the counter after it.              *)
Stream(c) == Backwards(Cipher(c.key, c.ctr))
Counted(r) == dsi_add_ctr([key |-> r, ctr |-> r]).ctr

(* d follows c when x has been sealed.                                     *)
Stepped(c, d, x) ==
  /\ d \in Seals /\ d.key = c.key /\ d.S0 = c.S0 /\ d.ctr = Counted(c.ctr)
  /\ d.mac = Cipher(c.key, XorAll(c.mac, Backwards(x)))

(* Strings of sixteen bytes and blocks are the same.                       *)
LEMMA Sixteen ==
  ASSUME NEW v
  PROVE  Str(v, 16) <=> v \in Blocks16
  BY DEF Str, Blocks16

(* A cipher gives blocks.                                                  *)
LEMMA CipherIs ==
  ASSUME CipherInverts, NEW key, NEW v, key \in Blocks16, v \in Blocks16
  PROVE  /\ Cipher(key, v) \in Blocks16 /\ Decipher(key, v) \in Blocks16
         /\ Decipher(key, Cipher(key, v)) = v
  BY DEF CipherInverts

(* The stream is a block.                                                  *)
LEMMA SealStream ==
  ASSUME CipherInverts, NEW c, c \in Seals
  PROVE  Str(Stream(c), 16)
<1>1. c.key \in Blocks16 /\ c.ctr \in Blocks16
  BY DEF Seals
<1>2. Cipher(c.key, c.ctr) \in Blocks16
  BY <1>1, CipherIs
<1>3. Backwards(Cipher(c.key, c.ctr)) \in Blocks16
  BY <1>2, SwapIs
<1> QED
  BY <1>3, Sixteen DEF Stream

(* The counter goes on whatever else is beside it (dsi_add_ctr).           *)
LEMMA SealCounts ==
  ASSUME NEW c, c \in Seals
  PROVE  /\ Counted(c.ctr) \in Blocks16
         /\ dsi_add_ctr(c) = [c EXCEPT !.ctr = Counted(c.ctr)]
<1> DEFINE r == c.ctr
           e == [key |-> r, ctr |-> r]
<1>1. r \in Blocks16
  BY DEF Seals
<1>2. e \in Contexts
  BY <1>1 DEF Contexts
<1>3. dsi_add_ctr(e).ctr \in Blocks16
  <2> HIDE DEF e
  <2>1. dsi_add_ctr(e) \in Contexts
    BY <1>2, AddCtrIs
  <2> QED
    BY <2>1 DEF Contexts
<1>4. dsi_add_ctr(e).ctr
        = <<>> \o [i \in 1..16 |-> IF \A j \in (i + 1)..16 : r[j] = 255
                                   THEN (r[i] + 1) % 256 ELSE r[i]]
  BY DEF dsi_add_ctr
<1>5. dsi_add_ctr(c) = [c EXCEPT !.ctr = dsi_add_ctr(e).ctr]
  BY <1>4 DEF dsi_add_ctr
<1> QED
  BY <1>3, <1>5 DEF Counted

(* The seal with a block in it.                                            *)
LEMMA MixedIs ==
  ASSUME CipherInverts, NEW c, c \in Seals, NEW x, Str(x, 16)
  PROVE  /\ Mixed(c, x) \in Seals /\ Mixed(c, x).key = c.key
         /\ Mixed(c, x).S0 = c.S0 /\ Mixed(c, x).ctr = c.ctr
         /\ Mixed(c, x).mac = Cipher(c.key, XorAll(c.mac, Backwards(x)))
<1> DEFINE y == XorAll(c.mac, Backwards(x))
           m == Cipher(c.key, y)
<1>1. c.key \in Blocks16 /\ Str(c.mac, 16)
  BY Sixteen DEF Seals
<1>2. Str(Backwards(x), 16)
  BY BackwardsIs
<1>3. Str(y, 16)
  BY <1>1, <1>2, XorAllIs
<1>4. y \in Blocks16
  <2> HIDE DEF y
  <2> QED
    BY <1>3, Sixteen
<1>5. m \in Blocks16
  <2> HIDE DEF y
  <2> QED
    BY <1>1, <1>4, CipherIs
<1>6. Mixed(c, x) = [c EXCEPT !.mac = m]
  BY DEF Mixed
<1> HIDE DEF m, y
<1>7. [c EXCEPT !.mac = m] \in Seals
  BY <1>5 DEF Seals
<1>8. /\ [c EXCEPT !.mac = m].key = c.key /\ [c EXCEPT !.mac = m].S0 = c.S0
      /\ [c EXCEPT !.mac = m].ctr = c.ctr /\ [c EXCEPT !.mac = m].mac = m
  BY DEF Seals
<1> QED
  BY <1>6, <1>7, <1>8 DEF m, y

(* What the two directions make of a block (dsi_encrypt_ccm_block,         *)
(* dsi_decrypt_ccm_block).                                                 *)
LEMMA SealsBlock ==
  ASSUME CipherInverts, NEW c, c \in Seals, NEW x, Str(x, 16)
  PROVE  /\ Stepped(c, dsi_encrypt_ccm_block(c, x).ctx, x)
         /\ dsi_encrypt_ccm_block(c, x).output = XorAll(Stream(c), x)
         /\ Str(XorAll(Stream(c), x), 16)
<1> DEFINE m == Mixed(c, x)
           d == dsi_add_ctr(m)
<1>1. /\ m \in Seals /\ m.key = c.key /\ m.S0 = c.S0 /\ m.ctr = c.ctr
      /\ m.mac = Cipher(c.key, XorAll(c.mac, Backwards(x)))
  BY MixedIs
<1>2. /\ dsi_encrypt_ccm_block(c, x).ctx = d
      /\ dsi_encrypt_ccm_block(c, x).output
           = XorAll(Backwards(Cipher(m.key, m.ctr)), x)
  BY DEF dsi_encrypt_ccm_block, dsi_crypt_ctr_block
<1> HIDE DEF m
<1>3. Counted(m.ctr) \in Blocks16 /\ d = [m EXCEPT !.ctr = Counted(m.ctr)]
  BY <1>1, SealCounts
<1> HIDE DEF d
<1>4. /\ d \in Seals /\ d.key = m.key /\ d.S0 = m.S0 /\ d.mac = m.mac
      /\ d.ctr = Counted(m.ctr)
  BY <1>1, <1>3 DEF Seals
<1>5. Stepped(c, d, x)
  BY <1>1, <1>4 DEF Stepped
<1>6. Str(XorAll(Stream(c), x), 16)
  BY SealStream, XorAllIs
<1> QED
  BY <1>1, <1>2, <1>5, <1>6 DEF Stream

(* A block is opened: what comes out is sealed in its turn                 *)
(* (dsi_decrypt_ccm_block).                                                *)
LEMMA OpensBlock ==
  ASSUME CipherInverts, NEW c, c \in Seals, NEW y, Str(y, 16)
  PROVE  /\ Stepped(c, dsi_decrypt_ccm_block(c, y).ctx, XorAll(Stream(c), y))
         /\ dsi_decrypt_ccm_block(c, y).output = XorAll(Stream(c), y)
         /\ Str(XorAll(Stream(c), y), 16)
<1> DEFINE x == XorAll(Stream(c), y)
           d == dsi_add_ctr(c)
           m == Mixed(d, x)
<1>1. Str(x, 16)
  BY SealStream, XorAllIs
<1>2. /\ dsi_decrypt_ccm_block(c, y).ctx = m
      /\ dsi_decrypt_ccm_block(c, y).output = x
  BY DEF dsi_decrypt_ccm_block, dsi_crypt_ctr_block, Stream
<1> HIDE DEF x
<1>3. Counted(c.ctr) \in Blocks16 /\ d = [c EXCEPT !.ctr = Counted(c.ctr)]
  BY SealCounts
<1> HIDE DEF d
<1>4. /\ d \in Seals /\ d.key = c.key /\ d.S0 = c.S0 /\ d.mac = c.mac
      /\ d.ctr = Counted(c.ctr)
  BY <1>3 DEF Seals
<1>5. /\ m \in Seals /\ m.key = d.key /\ m.S0 = d.S0 /\ m.ctr = d.ctr
      /\ m.mac = Cipher(d.key, XorAll(d.mac, Backwards(x)))
  BY <1>1, <1>4, MixedIs
<1> HIDE DEF m
<1>6. Stepped(c, m, x)
  BY <1>4, <1>5 DEF Stepped
<1> QED
  BY <1>1, <1>2, <1>6 DEF x

(* A byte twice under a byte of the stream is itself.                      *)
LEMMA XorTells ==
  ASSUME NEW s, NEW a, s \in Byte, a \in Byte
  PROVE  Xor(s, Xor(s, a)) = a
<1>1. Xor(s, a) = Xor(a, s) /\ Xor(Xor(a, s), s) = a
  BY XorCancels
<1>2. Xor(s, a) \in Byte
  BY XorCancels
<1>3. Xor(s, Xor(s, a)) = Xor(Xor(s, a), s)
  BY <1>2, XorCancels
<1> QED
  BY <1>1, <1>3

(* A turn of the loop that seals                                           *)
SealStep(x, before) ==
  [ctx |-> dsi_encrypt_ccm_block(before.ctx, x).ctx,
   output |-> before.output \o dsi_encrypt_ccm_block(before.ctx, x).output]

(* is the same kind of state again,                                        *)
LEMMA SealStepIs ==
  ASSUME CipherInverts, NEW x, Str(x, 16), NEW before, before \in Sealings
  PROVE  SealStep(x, before) \in Sealings
<1> DEFINE c == before.ctx
           o == XorAll(Stream(c), x)
           d == dsi_encrypt_ccm_block(c, x)
<1>1. c \in Seals /\ before.output \in Seq(Byte)
  BY DEF Sealings
<1>2. Stepped(c, d.ctx, x) /\ d.output = o /\ Str(o, 16)
  <2> HIDE DEF c
  <2> QED
    BY <1>1, SealsBlock
<1>3. d.ctx \in Seals /\ o \in Seq(Byte)
  BY <1>2 DEF Stepped, Str
<1>4. SealStep(x, before) = [ctx |-> d.ctx, output |-> before.output \o d.output]
  BY DEF SealStep
<1> HIDE DEF d, o, c
<1>5. before.output \o d.output \in Seq(Byte)
  BY <1>1, <1>2, <1>3
<1> QED
  BY <1>3, <1>4, <1>5 DEF Sealings

(* and the loop runs through such states (dsi_encrypt_ccm).                *)
SealRun(at, ctx, input, N) ==
  /\ at \in [0..N -> Sealings] /\ at[0] = [ctx |-> ctx, output |-> <<>>]
  /\ \A n \in 1..N : at[n] = SealStep(Block(input, n), at[n - 1])
SealLast(full, tail) ==
  dsi_encrypt_ccm_block(full.ctx, tail \o Zeros(16 - Len(tail)))
SealDone(at, ctx, input, N) ==
  /\ SealRun(at, ctx, input, N)
  /\ dsi_encrypt_ccm(ctx, input)
       = [mac |-> Mac(SealLast(at[N], Tail16(input)).ctx),
          output |-> at[N].output
                       \o SubSeq(SealLast(at[N], Tail16(input)).output, 1,
                                 Len(Tail16(input)))]

(* dsi_encrypt_ccm runs over the whole blocks and then over the last one.  *)
LEMMA SealRuns ==
  ASSUME CipherInverts, NEW ctx, ctx \in Seals, NEW input, NEW N, N \in Nat,
         N = FullBlocks(input), \A n \in 1..N : Str(Block(input, n), 16)
  PROVE  \E at : SealDone(at, ctx, input, N)
<1> DEFINE base == [ctx |-> ctx, output |-> <<>>]
           step == [n \in 1..N |-> [x \in Sealings |-> SealStep(Block(input, n), x)]]
           at[n \in 0..N] == IF n = 0 THEN base ELSE SealStep(Block(input, n), at[n - 1])
<1>1. base \in Sealings
  BY DEF Sealings
<1>2. ASSUME NEW n \in 1..N, NEW x \in Sealings
      PROVE  SealStep(Block(input, n), x) \in Sealings
  BY SealStepIs
<1>3. step \in [1..N -> [Sealings -> Sealings]]
  BY <1>2
<1>4. PICK j \in [0..N -> Sealings] : Runs(j, N, base, step)
  <2> HIDE DEF step, base
  <2> QED
    BY <1>1, <1>3, RunsExist
<1>5. ASSUME NEW n \in 1..N
      PROVE  j[n - 1] \in Sealings /\ j[n] = SealStep(Block(input, n), j[n - 1])
  <2>1. j[n - 1] \in Sealings
    OBVIOUS
  <2>2. j[n] = step[n][j[n - 1]]
    BY <1>4 DEF Runs
  <2> QED
    BY <2>1, <2>2
<1>6. j[0] = base
  BY <1>4 DEF Runs
<1> HIDE DEF step
<1>7. j = [n \in 0..N |-> IF n = 0 THEN base ELSE SealStep(Block(input, n), j[n - 1])]
  <2> DEFINE g == [n \in 0..N |-> IF n = 0 THEN base
                                 ELSE SealStep(Block(input, n), j[n - 1])]
  <2>1. ASSUME NEW n \in 0..N PROVE j[n] = g[n]
    <3>1. CASE n = 0
      BY <1>6, <3>1
    <3>2. CASE n # 0
      <4>1. n \in 1..N
        BY <3>2
      <4> QED
        BY <1>5, <3>2, <4>1
    <3> QED
      BY <3>1, <3>2
  <2>2. j = [n \in 0..N |-> j[n]] /\ g = [n \in 0..N |-> g[n]]
    OBVIOUS
  <2> HIDE DEF g
  <2>3. j = g
    BY <2>1, <2>2
  <2> QED
    BY <2>3 DEF g
<1>8. at = [n \in 0..N |-> IF n = 0 THEN base ELSE SealStep(Block(input, n), at[n - 1])]
  BY <1>7
<1>9. dsi_encrypt_ccm(ctx, input)
        = [mac |-> Mac(SealLast(at[N], Tail16(input)).ctx),
           output |-> at[N].output
                        \o SubSeq(SealLast(at[N], Tail16(input)).output, 1,
                                  Len(Tail16(input)))]
  BY DEF dsi_encrypt_ccm, SealStep, SealLast
<1> HIDE DEF at
<1>10. ASSUME NEW n \in 1..N PROVE at[n] = SealStep(Block(input, n), at[n - 1])
  <2> DEFINE g == [y \in 0..N |-> IF y = 0 THEN base
                                 ELSE SealStep(Block(input, y), at[y - 1])]
  <2>1. n \in 0..N /\ n # 0
    OBVIOUS
  <2>2. g[n] = SealStep(Block(input, n), at[n - 1])
    BY <2>1
  <2>3. at = g
    BY <1>8, Zenon
  <2> HIDE DEF g
  <2> QED
    BY <2>2, <2>3, Zenon
<1>11. at[0] = base
  <2> DEFINE g == [n \in 0..N |-> IF n = 0 THEN base
                                 ELSE SealStep(Block(input, n), at[n - 1])]
  <2>1. 0 \in 0..N
    OBVIOUS
  <2>2. g[0] = base
    BY <2>1
  <2>3. at = g
    BY <1>8, Zenon
  <2> HIDE DEF g
  <2> QED
    BY <2>2, <2>3, Zenon
<1>12. \A n \in 0..N : at[n] \in Sealings
  <2> DEFINE T == {n \in 0..N : at[n] \in Sealings}
  <2>1. 0 \in T
    BY <1>1, <1>11
  <2>2. ASSUME NEW n \in 1..N, n - 1 \in T PROVE n \in T
    <3>1. at[n - 1] \in Sealings /\ n \in 0..N
      BY <2>2
    <3> QED
      BY <1>2, <1>10, <3>1
  <2> HIDE DEF T
  <2>3. \A n \in 0..N : n \in T
    BY <2>1, <2>2, UpTo
  <2> QED
    BY <2>3 DEF T
<1>13. at \in [0..N -> Sealings]
  BY <1>8, <1>12
<1>14. SealRun(at, ctx, input, N)
  BY <1>10, <1>11, <1>13 DEF SealRun
<1> QED
  BY <1>9, <1>14 DEF SealDone

(* A turn of the loop that opens                                           *)
OpenStep(x, before) ==
  [ctx |-> dsi_decrypt_ccm_block(before.ctx, x).ctx,
   output |-> before.output \o dsi_decrypt_ccm_block(before.ctx, x).output]

(* is the same kind of state again,                                        *)
LEMMA OpenStepIs ==
  ASSUME CipherInverts, NEW x, Str(x, 16), NEW before, before \in Sealings
  PROVE  OpenStep(x, before) \in Sealings
<1> DEFINE c == before.ctx
           o == XorAll(Stream(c), x)
           d == dsi_decrypt_ccm_block(c, x)
<1>1. c \in Seals /\ before.output \in Seq(Byte)
  BY DEF Sealings
<1>2. Stepped(c, d.ctx, o) /\ d.output = o /\ Str(o, 16)
  <2> HIDE DEF c
  <2> QED
    BY <1>1, OpensBlock
<1>3. d.ctx \in Seals /\ o \in Seq(Byte)
  BY <1>2 DEF Stepped, Str
<1>4. OpenStep(x, before) = [ctx |-> d.ctx, output |-> before.output \o d.output]
  BY DEF OpenStep
<1> HIDE DEF d, o, c
<1>5. before.output \o d.output \in Seq(Byte)
  BY <1>1, <1>2, <1>3
<1> QED
  BY <1>3, <1>4, <1>5 DEF Sealings

(* and the loop runs through such states (dsi_decrypt_ccm).                *)
OpenRun(at, ctx, input, N) ==
  /\ at \in [0..N -> Sealings] /\ at[0] = [ctx |-> ctx, output |-> <<>>]
  /\ \A n \in 1..N : at[n] = OpenStep(Block(input, n), at[n - 1])
OpenLast(full, tail) ==
  dsi_decrypt_ccm_block(full.ctx, LastBlock(full.ctx, tail))
OpenDone(at, ctx, input, N) ==
  /\ OpenRun(at, ctx, input, N)
  /\ dsi_decrypt_ccm(ctx, input)
       = [mac |-> Mac(OpenLast(at[N], Tail16(input)).ctx),
          output |-> at[N].output
                       \o SubSeq(OpenLast(at[N], Tail16(input)).output, 1,
                                 Len(Tail16(input)))]

(* So does dsi_decrypt_ccm.                                                *)
LEMMA OpenRuns ==
  ASSUME CipherInverts, NEW ctx, ctx \in Seals, NEW input, NEW N, N \in Nat,
         N = FullBlocks(input), \A n \in 1..N : Str(Block(input, n), 16)
  PROVE  \E at : OpenDone(at, ctx, input, N)
<1> DEFINE base == [ctx |-> ctx, output |-> <<>>]
           step == [n \in 1..N |-> [x \in Sealings |-> OpenStep(Block(input, n), x)]]
           at[n \in 0..N] == IF n = 0 THEN base ELSE OpenStep(Block(input, n), at[n - 1])
<1>1. base \in Sealings
  BY DEF Sealings
<1>2. ASSUME NEW n \in 1..N, NEW x \in Sealings
      PROVE  OpenStep(Block(input, n), x) \in Sealings
  BY OpenStepIs
<1>3. step \in [1..N -> [Sealings -> Sealings]]
  BY <1>2
<1>4. PICK j \in [0..N -> Sealings] : Runs(j, N, base, step)
  <2> HIDE DEF step, base
  <2> QED
    BY <1>1, <1>3, RunsExist
<1>5. ASSUME NEW n \in 1..N
      PROVE  j[n - 1] \in Sealings /\ j[n] = OpenStep(Block(input, n), j[n - 1])
  <2>1. j[n - 1] \in Sealings
    OBVIOUS
  <2>2. j[n] = step[n][j[n - 1]]
    BY <1>4 DEF Runs
  <2> QED
    BY <2>1, <2>2
<1>6. j[0] = base
  BY <1>4 DEF Runs
<1> HIDE DEF step
<1>7. j = [n \in 0..N |-> IF n = 0 THEN base ELSE OpenStep(Block(input, n), j[n - 1])]
  <2> DEFINE g == [n \in 0..N |-> IF n = 0 THEN base
                                 ELSE OpenStep(Block(input, n), j[n - 1])]
  <2>1. ASSUME NEW n \in 0..N PROVE j[n] = g[n]
    <3>1. CASE n = 0
      BY <1>6, <3>1
    <3>2. CASE n # 0
      <4>1. n \in 1..N
        BY <3>2
      <4> QED
        BY <1>5, <3>2, <4>1
    <3> QED
      BY <3>1, <3>2
  <2>2. j = [n \in 0..N |-> j[n]] /\ g = [n \in 0..N |-> g[n]]
    OBVIOUS
  <2> HIDE DEF g
  <2>3. j = g
    BY <2>1, <2>2
  <2> QED
    BY <2>3 DEF g
<1>8. at = [n \in 0..N |-> IF n = 0 THEN base ELSE OpenStep(Block(input, n), at[n - 1])]
  BY <1>7
<1>9. dsi_decrypt_ccm(ctx, input)
        = [mac |-> Mac(OpenLast(at[N], Tail16(input)).ctx),
           output |-> at[N].output
                        \o SubSeq(OpenLast(at[N], Tail16(input)).output, 1,
                                  Len(Tail16(input)))]
  BY DEF dsi_decrypt_ccm, OpenStep, OpenLast
<1> HIDE DEF at
<1>10. ASSUME NEW n \in 1..N PROVE at[n] = OpenStep(Block(input, n), at[n - 1])
  <2> DEFINE g == [y \in 0..N |-> IF y = 0 THEN base
                                 ELSE OpenStep(Block(input, y), at[y - 1])]
  <2>1. n \in 0..N /\ n # 0
    OBVIOUS
  <2>2. g[n] = OpenStep(Block(input, n), at[n - 1])
    BY <2>1
  <2>3. at = g
    BY <1>8, Zenon
  <2> HIDE DEF g
  <2> QED
    BY <2>2, <2>3, Zenon
<1>11. at[0] = base
  <2> DEFINE g == [n \in 0..N |-> IF n = 0 THEN base
                                 ELSE OpenStep(Block(input, n), at[n - 1])]
  <2>1. 0 \in 0..N
    OBVIOUS
  <2>2. g[0] = base
    BY <2>1
  <2>3. at = g
    BY <1>8, Zenon
  <2> HIDE DEF g
  <2> QED
    BY <2>2, <2>3, Zenon
<1>12. \A n \in 0..N : at[n] \in Sealings
  <2> DEFINE T == {n \in 0..N : at[n] \in Sealings}
  <2>1. 0 \in T
    BY <1>1, <1>11
  <2>2. ASSUME NEW n \in 1..N, n - 1 \in T PROVE n \in T
    <3>1. at[n - 1] \in Sealings /\ n \in 0..N
      BY <2>2
    <3> QED
      BY <1>2, <1>10, <3>1
  <2> HIDE DEF T
  <2>3. \A n \in 0..N : n \in T
    BY <2>1, <2>2, UpTo
  <2> QED
    BY <2>3 DEF T
<1>13. at \in [0..N -> Sealings]
  BY <1>8, <1>12
<1>14. OpenRun(at, ctx, input, N)
  BY <1>10, <1>11, <1>13 DEF OpenRun
<1> QED
  BY <1>9, <1>14 DEF OpenDone

(* A text of M blocks, what it is sealed into, and the states between.     *)
Flow(p, c, f, ctx, M) ==
  /\ Str(p, 16 * M) /\ Str(c, 16 * M) /\ f \in [0..M -> Seals] /\ f[0] = ctx
  /\ \A n \in 1..M : /\ Stepped(f[n - 1], f[n], Block(p, n))
                     /\ Block(c, n) = XorAll(Stream(f[n - 1]), Block(p, n))

(* One more block.                                                         *)
Further(f, d, N) == [n \in 0..(N + 1) |-> IF n = N + 1 THEN d ELSE f[n]]

(* A flow goes on with one more block.                                     *)
LEMMA FlowsOn ==
  ASSUME NEW p, NEW c, NEW f, NEW ctx, NEW N, N \in Nat, Flow(p, c, f, ctx, N),
         NEW x, NEW d, NEW y, Str(x, 16), Str(y, 16), Stepped(f[N], d, x),
         y = XorAll(Stream(f[N]), x)
  PROVE  Flow(p \o x, c \o y, Further(f, d, N), ctx, N + 1) /\ Further(f, d, N)[N + 1] = d
<1> DEFINE g == Further(f, d, N)
           M == N + 1
           I == 1
<1>1. /\ Str(p, 16 * N) /\ Str(c, 16 * N) /\ f \in [0..N -> Seals] /\ f[0] = ctx
      /\ \A n \in 1..N : /\ Stepped(f[n - 1], f[n], Block(p, n))
                         /\ Block(c, n) = XorAll(Stream(f[n - 1]), Block(p, n))
  BY DEF Flow
<1>2. d \in Seals
  BY DEF Stepped
<1>3. /\ g \in [0..M -> Seals] /\ g[M] = d /\ g[0] = ctx
      /\ \A n \in 1..N : g[n - 1] = f[n - 1] /\ g[n] = f[n]
  BY <1>1, <1>2 DEF Further
<1>4. g[M - 1] = f[N]
  BY DEF Further
<1> HIDE DEF g
<1>5. I \in Nat /\ Str(x, 16 * I) /\ Str(y, 16 * I)
  OBVIOUS
<1>6. BlocksOf(p \o x, p, x, N, I) /\ BlocksOf(c \o y, c, y, N, I)
  <2> HIDE DEF I
  <2> QED
    BY <1>1, <1>5, AppendedBlocks
<1>7. /\ Str(p \o x, 16 * M) /\ \A n \in 1..N : Block(p \o x, n) = Block(p, n)
      /\ Block(p \o x, M) = Block(x, 1)
      /\ Str(c \o y, 16 * M) /\ \A n \in 1..N : Block(c \o y, n) = Block(c, n)
      /\ Block(c \o y, M) = Block(y, 1)
  <2>1. I \in 1..I
    OBVIOUS
  <2> QED
    BY <1>6, <2>1 DEF BlocksOf
<1>8. Block(x, 1) = x /\ Block(y, 1) = y
  BY OwnBlock
<1>9. ASSUME NEW n \in 1..M
      PROVE  /\ Stepped(g[n - 1], g[n], Block(p \o x, n))
             /\ Block(c \o y, n) = XorAll(Stream(g[n - 1]), Block(p \o x, n))
  <2>1. CASE n = M
    <3>1. Stepped(g[M - 1], g[M], Block(p \o x, M))
      BY <1>3, <1>4, <1>7, <1>8
    <3>2. Block(c \o y, M) = XorAll(Stream(g[M - 1]), Block(p \o x, M))
      BY <1>4, <1>7, <1>8
    <3> QED
      BY <2>1, <3>1, <3>2
  <2>2. CASE n # M
    <3>1. n \in 1..N
      BY <2>2
    <3>2. /\ Stepped(f[n - 1], f[n], Block(p, n))
          /\ Block(c, n) = XorAll(Stream(f[n - 1]), Block(p, n))
      BY <1>1, <3>1
    <3>3. /\ g[n - 1] = f[n - 1] /\ g[n] = f[n] /\ Block(p \o x, n) = Block(p, n)
          /\ Block(c \o y, n) = Block(c, n)
      BY <1>3, <1>7, <3>1
    <3> QED
      BY <3>2, <3>3
  <2> QED
    BY <2>1, <2>2
<1>10. Flow(p \o x, c \o y, g, ctx, M)
  BY <1>3, <1>7, <1>9 DEF Flow
<1> QED
  BY <1>3, <1>10 DEF g

(* The states of a loop without their output.                              *)
Between(at, N) == [n \in 0..N |-> at[n].ctx]

(* The loop that seals is such a flow,                                     *)
LEMMA SealRunFlows ==
  ASSUME CipherInverts, NEW at, NEW ctx, NEW input, NEW N, N \in Nat,
         SealRun(at, ctx, input, N), NEW L \in Int, Str(input, L), 16 * N <= L
  PROVE  Flow(SubSeq(input, 1, 16 * N), at[N].output, Between(at, N), ctx, N)
<1> DEFINE f == Between(at, N)
           o == [n \in 1..N |-> XorAll(Stream(f[n - 1]), Block(input, n))]
           j == [n \in 0..N |-> at[n].output]
           p == SubSeq(input, 1, 16 * N)
<1>1. /\ at \in [0..N -> Sealings] /\ at[0] = [ctx |-> ctx, output |-> <<>>]
      /\ \A n \in 1..N : at[n] = SealStep(Block(input, n), at[n - 1])
  BY DEF SealRun
<1>2. f \in [0..N -> Seals] /\ \A n \in 0..N : f[n] = at[n].ctx
  BY <1>1 DEF Between, Sealings
<1>3. f[0] = ctx
  BY <1>1, <1>2
<1> HIDE DEF f
<1>4. Str(p, 16 * N) /\ \A n \in 1..N : Block(p, n) = Block(input, n)
  BY PartBlocks
<1>5. ASSUME NEW n \in 1..N
      PROVE  Str(Block(input, n), 16)
  <2>1. n \in Int /\ n >= 1 /\ 16 * n <= L
    OBVIOUS
  <2> QED
    BY <2>1, BlockIs
<1>6. ASSUME NEW n \in 1..N
      PROVE  /\ Stepped(f[n - 1], f[n], Block(input, n)) /\ Str(o[n], 16)
             /\ j[n] = j[n - 1] \o o[n]
  <2> DEFINE x == Block(input, n)
             c == f[n - 1]
             y == XorAll(Stream(c), x)
             e == dsi_encrypt_ccm_block(c, x)
  <2>1. /\ n - 1 \in 0..N /\ n \in 0..N /\ c \in Seals /\ c = at[n - 1].ctx
        /\ f[n] = at[n].ctx
    BY <1>2
  <2>2. at[n] = SealStep(x, at[n - 1])
    BY <1>1
  <2>3. at[n] = [ctx |-> e.ctx, output |-> at[n - 1].output \o e.output]
    BY <2>1, <2>2 DEF SealStep
  <2>4. Stepped(c, e.ctx, x) /\ e.output = y /\ Str(y, 16)
    <3> HIDE DEF x, c
    <3>1. Str(x, 16)
      BY <1>5 DEF x
    <3> QED
      BY <2>1, <3>1, SealsBlock
  <2>5. o[n] = y /\ j[n] = at[n].output /\ j[n - 1] = at[n - 1].output
    BY <2>1
  <2> HIDE DEF e, y, o, j
  <2>6. at[n].ctx = e.ctx /\ at[n].output = at[n - 1].output \o e.output
    <3> DEFINE u == at[n]
               v == at[n - 1].output \o e.output
               a == e.ctx
    <3>1. u = [ctx |-> a, output |-> v]
      BY <2>3, Zenon
    <3> HIDE DEF u, v, a
    <3>2. u.ctx = a /\ u.output = v
      BY <3>1
    <3> QED
      BY <3>2 DEF u, v, a
  <2> QED
    BY <2>1, <2>4, <2>5, <2>6
<1>7. j[0] = <<>> /\ j[N] = at[N].output
  BY <1>1
<1>8. \A n \in 1..N : o[n] = XorAll(Stream(f[n - 1]), Block(input, n))
  OBVIOUS
<1> HIDE DEF o, j, p
<1>9. Str(j[N], 16 * N) /\ \A n \in 1..N : Block(j[N], n) = o[n]
  BY <1>6, <1>7, GrowsByBlocks
<1>10. Flow(p, at[N].output, f, ctx, N)
  BY <1>2, <1>3, <1>4, <1>6, <1>7, <1>8, <1>9 DEF Flow
<1> QED
  BY <1>10 DEF p, f

(* and so is the loop that opens, the other way round.                     *)
LEMMA OpenRunFlows ==
  ASSUME CipherInverts, NEW at, NEW ctx, NEW input, NEW N, N \in Nat,
         OpenRun(at, ctx, input, N), NEW L \in Int, Str(input, L), 16 * N <= L
  PROVE  Flow(at[N].output, SubSeq(input, 1, 16 * N), Between(at, N), ctx, N)
<1> DEFINE f == Between(at, N)
           o == [n \in 1..N |-> XorAll(Stream(f[n - 1]), Block(input, n))]
           j == [n \in 0..N |-> at[n].output]
           p == SubSeq(input, 1, 16 * N)
<1>1. /\ at \in [0..N -> Sealings] /\ at[0] = [ctx |-> ctx, output |-> <<>>]
      /\ \A n \in 1..N : at[n] = OpenStep(Block(input, n), at[n - 1])
  BY DEF OpenRun
<1>2. f \in [0..N -> Seals] /\ \A n \in 0..N : f[n] = at[n].ctx
  BY <1>1 DEF Between, Sealings
<1>3. f[0] = ctx
  BY <1>1, <1>2
<1> HIDE DEF f
<1>4. Str(p, 16 * N) /\ \A n \in 1..N : Block(p, n) = Block(input, n)
  BY PartBlocks
<1>5. ASSUME NEW n \in 1..N
      PROVE  Str(Block(input, n), 16)
  <2>1. n \in Int /\ n >= 1 /\ 16 * n <= L
    OBVIOUS
  <2> QED
    BY <2>1, BlockIs
<1>6. ASSUME NEW n \in 1..N
      PROVE  /\ Stepped(f[n - 1], f[n], o[n]) /\ Str(o[n], 16)
             /\ j[n] = j[n - 1] \o o[n]
             /\ XorAll(Stream(f[n - 1]), o[n]) = Block(input, n)
  <2> DEFINE x == Block(input, n)
             c == f[n - 1]
             y == XorAll(Stream(c), x)
             e == dsi_decrypt_ccm_block(c, x)
  <2>1. /\ n - 1 \in 0..N /\ n \in 0..N /\ c \in Seals /\ c = at[n - 1].ctx
        /\ f[n] = at[n].ctx
    BY <1>2
  <2>2. at[n] = OpenStep(x, at[n - 1])
    BY <1>1
  <2>3. at[n] = [ctx |-> e.ctx, output |-> at[n - 1].output \o e.output]
    BY <2>1, <2>2 DEF OpenStep
  <2>4. Stepped(c, e.ctx, y) /\ e.output = y /\ Str(y, 16) /\ XorAll(Stream(c), y) = x
    <3> HIDE DEF x, c
    <3>1. Str(x, 16)
      BY <1>5 DEF x
    <3>2. Str(Stream(c), 16)
      BY <2>1, SealStream
    <3>3. XorAll(Stream(c), XorAll(Stream(c), x)) = x
      BY <3>1, <3>2, XorAllTwice
    <3>4. Stepped(c, e.ctx, y) /\ e.output = y /\ Str(y, 16)
      BY <2>1, <3>1, OpensBlock
    <3> QED
      BY <3>3, <3>4
  <2>5. o[n] = y /\ j[n] = at[n].output /\ j[n - 1] = at[n - 1].output
    BY <2>1
  <2> HIDE DEF e, y, o, j
  <2>6. at[n].ctx = e.ctx /\ at[n].output = at[n - 1].output \o e.output
    <3> DEFINE u == at[n]
               v == at[n - 1].output \o e.output
               a == e.ctx
    <3>1. u = [ctx |-> a, output |-> v]
      BY <2>3, Zenon
    <3> HIDE DEF u, v, a
    <3>2. u.ctx = a /\ u.output = v
      BY <3>1
    <3> QED
      BY <3>2 DEF u, v, a
  <2> QED
    BY <2>1, <2>4, <2>5, <2>6
<1>7. j[0] = <<>> /\ j[N] = at[N].output
  BY <1>1
<1> HIDE DEF o, j, p
<1>9. Str(j[N], 16 * N) /\ \A n \in 1..N : Block(j[N], n) = o[n]
  BY <1>6, <1>7, GrowsByBlocks
<1>10. Flow(at[N].output, p, f, ctx, N)
  BY <1>2, <1>3, <1>4, <1>6, <1>7, <1>9 DEF Flow
<1> QED
  BY <1>10 DEF p, f

(* A text of L bytes is N blocks and a rest of h bytes.                    *)
TailOf(text, L, N, h) ==
  /\ N \in Nat /\ h \in 0..16 /\ L = (16 * N) + h /\ N = FullBlocks(text)
  /\ Str(Tail16(text), h) /\ \A i \in 1..h : Tail16(text)[i] = text[(16 * N) + i]
  /\ \A n \in 1..N : Str(Block(text, n), 16)

(* There are such N and h for every text.                                  *)
LEMMA TailIs ==
  ASSUME NEW text, NEW L, Str(text, L)
  PROVE  \E N, h : TailOf(text, L, N, h)
<1> DEFINE N == FullBlocks(text)
           b == 16 * N
           h == L - b
           a == b + 1
<1>1. text \in Seq(Byte) /\ Len(text) = L /\ L \in Nat
  BY StrIs
<1>2. N \in Nat /\ h \in 0..16 /\ b <= L
  <2>1. CASE text = <<>>
    <3>1. N = 0 /\ L = 0
      BY <1>1, <2>1 DEF FullBlocks
    <3> QED
      BY <3>1
  <2>2. CASE text # <<>>
    <3>1. L >= 1 /\ N = (L - 1) \div 16
      BY <1>1, <2>2 DEF FullBlocks
    <3> HIDE DEF N
    <3> QED
      BY <1>1, <3>1
  <2> QED
    BY <2>1, <2>2
<1>3. Tail16(text) = SubSeq(text, a, L)
  BY <1>1 DEF Tail16
<1> HIDE DEF N
<1>4. L = b + h /\ a \in Int /\ a >= 1 /\ L >= a - 1 /\ L \in Int /\ L <= L
      /\ (L - a) + 1 = h /\ a - 1 = b
  BY <1>1, <1>2
<1> HIDE DEF a, h
<1>5. /\ Str(SubSeq(text, a, L), (L - a) + 1)
      /\ \A i \in 1..((L - a) + 1) : SubSeq(text, a, L)[i] = text[(a - 1) + i]
  BY <1>4, StrPart
<1>6. Str(Tail16(text), h) /\ \A i \in 1..h : Tail16(text)[i] = text[b + i]
  BY <1>3, <1>4, <1>5
<1>7. ASSUME NEW n \in 1..N
      PROVE  Str(Block(text, n), 16)
  <2>1. n \in Int /\ n >= 1 /\ 16 * n <= L
    BY <1>1, <1>2
  <2> QED
    BY <2>1, BlockIs
<1>8. TailOf(text, L, N, h)
  BY <1>2, <1>4, <1>6, <1>7 DEF TailOf, N
<1> QED
  BY <1>8

(* What a call that seals writes: the cipher text of the text filled up    *)
(* with zeros, and the seal of the last state.                             *)
SealedAs(r, text, L, M, p, c, f, ctx) ==
  /\ Flow(p, c, f, ctx, M) /\ M \in Nat /\ M >= 1 /\ L <= 16 * M
  /\ \A i \in 1..L : p[i] = text[i]
  /\ \A i \in (L + 1)..(16 * M) : p[i] = 0
  /\ r.mac = Mac(f[M]) /\ Str(r.output, L) /\ \A i \in 1..L : r.output[i] = c[i]

(* What one that opens writes: the text that has this cipher text and is   *)
(* filled up with zeros.                                                   *)
OpenedAs(r, input, L, M, p, c, f, ctx) ==
  /\ Flow(p, c, f, ctx, M) /\ M \in Nat /\ M >= 1 /\ L <= 16 * M
  /\ \A i \in 1..L : c[i] = input[i]
  /\ \A i \in (L + 1)..(16 * M) : p[i] = 0
  /\ r.mac = Mac(f[M]) /\ Str(r.output, L) /\ \A i \in 1..L : r.output[i] = p[i]

(* A string of whole blocks and the start of one more: x goes on behind v  *)
(* with w, of which the first h bytes are in y.                            *)
Headed(x, y, v, w, N, h) ==
  /\ Str(x, 16 * (N + 1)) /\ Str(y, (16 * N) + h)
  /\ \A i \in 1..((16 * N) + h) : y[i] = x[i]
  /\ \A i \in 1..(16 * N) : x[i] = v[i]
  /\ \A i \in 1..16 : x[(16 * N) + i] = w[i]

(* So it is with strings put together.                                     *)
LEMMA HeadedIs ==
  ASSUME NEW v, NEW w, NEW N, N \in Nat, NEW h, h \in 0..16, Str(v, 16 * N), Str(w, 16)
  PROVE  Headed(v \o w, v \o SubSeq(w, 1, h), v, w, N, h)
<1> DEFINE b == 16 * N
           s == SubSeq(w, 1, h)
           x == v \o w
           y == v \o s
<1>1. Str(s, h) /\ \A i \in 1..h : s[i] = w[i]
  <2>1. 1 \in Int /\ 1 >= 1 /\ h \in Int /\ h >= 1 - 1 /\ h <= 16 /\ (h - 1) + 1 = h
    OBVIOUS
  <2>2. /\ Str(SubSeq(w, 1, h), (h - 1) + 1)
        /\ \A i \in 1..((h - 1) + 1) : SubSeq(w, 1, h)[i] = w[(1 - 1) + i]
    BY <2>1, StrPart
  <2> QED
    BY <2>1, <2>2
<1> HIDE DEF s
<1>2. Str(v, b) /\ b \in Int /\ b >= 0 /\ 16 * (N + 1) = b + 16
  OBVIOUS
<1> HIDE DEF b
<1>3. Appended(x, v, w, b, 16)
  BY <1>2, StrJoined
<1>4. Appended(y, v, s, b, h)
  BY <1>1, <1>2, StrJoined
<1> HIDE DEF x, y
<1>5. /\ Str(x, b + 16) /\ \A i \in 1..b : x[i] = v[i]
      /\ \A i \in 1..16 : x[b + i] = w[i]
  BY <1>3 DEF Appended
<1>6. /\ Str(y, b + h)
      /\ \A i \in 1..b : y[i] = v[i]
      /\ \A i \in 1..h : y[b + i] = s[i]
  BY <1>4 DEF Appended
<1>7. ASSUME NEW i \in 1..(b + h)
      PROVE  y[i] = x[i]
  <2>1. CASE i <= b
    <3>1. i \in 1..b
      BY <2>1
    <3> QED
      BY <1>5, <1>6, <3>1
  <2>2. CASE ~(i <= b)
    <3> DEFINE e == i - b
    <3>1. e \in 1..h /\ e \in 1..16 /\ b + e = i
      BY <1>2, <2>2
    <3> HIDE DEF e
    <3> QED
      BY <1>1, <1>5, <1>6, <3>1
  <2> QED
    BY <2>1, <2>2
<1>8. Headed(x, y, v, w, N, h)
  BY <1>2, <1>5, <1>6, <1>7 DEF Headed, b
<1> QED
  BY <1>8 DEF x, y, s

(* A text in whole blocks and a block that has what follows them.          *)
LEMMA BytesOfText ==
  ASSUME NEW text, NEW L, NEW N, NEW h, Str(text, L), TailOf(text, L, N, h),
         NEW t, t = Tail16(text), NEW w, \A i \in 1..h : w[i] = t[i],
         NEW x, NEW y, Headed(x, y, SubSeq(text, 1, 16 * N), w, N, h)
  PROVE  \A i \in 1..L : x[i] = text[i]
<1> DEFINE b == 16 * N
           v == SubSeq(text, 1, b)
<1>1. /\ N \in Nat /\ h \in 0..16 /\ L = b + h /\ \A i \in 1..h : t[i] = text[b + i]
  BY DEF TailOf
<1>2. \A i \in 1..b : v[i] = text[i]
  <2>1. 1 \in Int /\ 1 >= 1 /\ b \in Int /\ b >= 1 - 1 /\ b <= L /\ (b - 1) + 1 = b
    BY <1>1
  <2> HIDE DEF b
  <2>2. \A i \in 1..((b - 1) + 1) : SubSeq(text, 1, b)[i] = text[(1 - 1) + i]
    BY <2>1, StrPart
  <2> QED
    BY <2>1, <2>2
<1>3. b \in Int /\ b >= 0
  BY <1>1
<1>4. /\ \A i \in 1..b : x[i] = v[i]
      /\ \A i \in 1..16 : x[b + i] = w[i]
  BY DEF Headed
<1> HIDE DEF b, v
<1>5. ASSUME NEW i \in 1..L
      PROVE  x[i] = text[i]
  <2>1. CASE i <= b
    <3>1. i \in 1..b
      BY <2>1
    <3> QED
      BY <1>2, <1>4, <3>1
  <2>2. CASE ~(i <= b)
    <3> DEFINE e == i - b
    <3>1. e \in 1..h /\ e \in 1..16 /\ b + e = i
      BY <1>1, <1>3, <2>2
    <3> HIDE DEF e
    <3> QED
      BY <1>1, <1>4, <3>1
  <2> QED
    BY <2>1, <2>2
<1> QED
  BY <1>5

(* What follows the text in its last block, if that is zeros.              *)
LEMMA ZerosBehind ==
  ASSUME NEW L, NEW N, NEW h, N \in Nat, h \in 0..16, L = (16 * N) + h,
         NEW x, NEW y, NEW v, NEW w, Headed(x, y, v, w, N, h),
         \A i \in (h + 1)..16 : w[i] = 0
  PROVE  \A i \in (L + 1)..(16 * (N + 1)) : x[i] = 0
<1> DEFINE b == 16 * N
<1>1. \A i \in 1..16 : x[b + i] = w[i]
  BY DEF Headed
<1>2. b \in Int /\ L = b + h /\ 16 * (N + 1) = b + 16
  OBVIOUS
<1> HIDE DEF b
<1>3. ASSUME NEW i \in (L + 1)..(b + 16)
      PROVE  x[i] = 0
  <2> DEFINE e == i - b
  <2>1. e \in (h + 1)..16 /\ e \in 1..16 /\ b + e = i
    BY <1>2
  <2> HIDE DEF e
  <2> QED
    BY <1>1, <2>1
<1> QED
  BY <1>2, <1>3

(* A rest filled up with zeros (dsi_encrypt_ccm).                          *)
LEMMA FilledUp ==
  ASSUME NEW t, NEW h, h \in 0..16, Str(t, h)
  PROVE  /\ Str(t \o Zeros(16 - Len(t)), 16)
         /\ \A i \in 1..h : (t \o Zeros(16 - Len(t)))[i] = t[i]
         /\ \A i \in (h + 1)..16 : (t \o Zeros(16 - Len(t)))[i] = 0
<1> DEFINE m == 16 - h
           z == Zeros(m)
           x == t \o z
<1>1. Len(t) = h
  BY DEF Str
<1>2. m \in Nat /\ h + m = 16
  OBVIOUS
<1> HIDE DEF m
<1>3. Str(z, m) /\ \A i \in 1..m : z[i] = 0
  BY <1>2, ZerosAre
<1>4. Appended(x, t, z, h, m)
  <2> HIDE DEF z
  <2> QED
    BY <1>3, StrJoined
<1> HIDE DEF x
<1>5. /\ Str(x, h + m)
      /\ \A i \in 1..h : x[i] = t[i]
      /\ \A i \in 1..m : x[h + i] = z[i]
  BY <1>4 DEF Appended
<1>6. ASSUME NEW i \in (h + 1)..16
      PROVE  x[i] = 0
  <2> DEFINE e == i - h
  <2>1. e \in 1..m /\ h + e = i
    BY <1>2
  <2> HIDE DEF e
  <2> QED
    BY <1>3, <1>5, <2>1
<1>7. Str(x, 16)
  BY <1>2, <1>5
<1>8. x = t \o Zeros(16 - Len(t))
  BY <1>1 DEF x, z, m
<1> QED
  BY <1>5, <1>6, <1>7, <1>8

(* dsi_encrypt_ccm writes that.                                            *)
LEMMA SealFlows ==
  ASSUME CipherInverts, NEW ctx, ctx \in Seals, NEW text, NEW L, NEW N, NEW h,
         Str(text, L), TailOf(text, L, N, h)
  PROVE  \E p, c, f : SealedAs(dsi_encrypt_ccm(ctx, text), text, L, N + 1, p, c, f, ctx)
<1>1. /\ N \in Nat /\ h \in 0..16 /\ L = (16 * N) + h /\ N = FullBlocks(text)
      /\ Str(Tail16(text), h) /\ \A n \in 1..N : Str(Block(text, n), 16)
  BY DEF TailOf
<1>2. PICK at : SealDone(at, ctx, text, N)
  BY <1>1, SealRuns
<1> DEFINE t == Tail16(text)
           x == t \o Zeros(16 - Len(t))
           a == at[N].ctx
           v == at[N].output
           d == dsi_encrypt_ccm_block(a, x)
           y == XorAll(Stream(a), x)
           f == Between(at, N)
           g == Further(f, d.ctx, N)
           b == SubSeq(text, 1, 16 * N)
           p == b \o x
           c == v \o y
           r == dsi_encrypt_ccm(ctx, text)
<1>3. r = [mac |-> Mac(d.ctx), output |-> v \o SubSeq(d.output, 1, Len(t))]
  BY <1>2 DEF SealDone, SealLast
<1>4. Flow(b, v, f, ctx, N)
  <2>1. SealRun(at, ctx, text, N) /\ L \in Int /\ 16 * N <= L
    BY <1>1, <1>2 DEF SealDone
  <2> QED
    BY <1>1, <2>1, SealRunFlows
<1>5. f[N] = a /\ a \in Seals
  <2>1. f \in [0..N -> Seals] /\ N \in 0..N
    BY <1>1, <1>4 DEF Flow
  <2> QED
    BY <2>1 DEF Between
<1>6. Len(t) = h
  BY <1>1 DEF Str
<1>7. /\ Str(x, 16)
      /\ \A i \in 1..h : x[i] = t[i]
      /\ \A i \in (h + 1)..16 : x[i] = 0
  BY <1>1, FilledUp
<1> HIDE DEF x, t, r, f, a, v, b
<1>8. Stepped(a, d.ctx, x) /\ d.output = y /\ Str(y, 16)
  BY <1>5, <1>7, SealsBlock
<1> HIDE DEF d, y
<1>9. Flow(p, c, g, ctx, N + 1) /\ g[N + 1] = d.ctx
  <2>1. Stepped(f[N], d.ctx, x) /\ y = XorAll(Stream(f[N]), x)
    BY <1>5, <1>8 DEF y
  <2> QED
    BY <1>1, <1>4, <1>7, <1>8, <2>1, FlowsOn
<1> HIDE DEF g
<1>10. Str(b, 16 * N) /\ Str(v, 16 * N)
  BY <1>4 DEF Flow
<1>11. Headed(p, b \o SubSeq(x, 1, h), b, x, N, h)
  BY <1>1, <1>7, <1>10, HeadedIs
<1>12. Headed(c, v \o SubSeq(y, 1, h), v, y, N, h)
  BY <1>1, <1>8, <1>10, HeadedIs
<1> HIDE DEF p, c
<1>13. \A i \in 1..L : p[i] = text[i]
  BY <1>7, <1>11, BytesOfText DEF b, t
<1>14. \A i \in (L + 1)..(16 * (N + 1)) : p[i] = 0
  BY <1>1, <1>7, <1>11, ZerosBehind
<1>15. r.mac = Mac(g[N + 1]) /\ r.output = v \o SubSeq(y, 1, h)
  BY <1>3, <1>6, <1>8, <1>9
<1>16. Str(r.output, L) /\ \A i \in 1..L : r.output[i] = c[i]
  BY <1>1, <1>12, <1>15 DEF Headed
<1>17. N + 1 \in Nat /\ N + 1 >= 1 /\ L <= 16 * (N + 1)
  BY <1>1
<1>18. SealedAs(r, text, L, N + 1, p, c, g, ctx)
  BY <1>9, <1>13, <1>14, <1>15, <1>16, <1>17 DEF SealedAs
<1> QED
  BY <1>18 DEF r

(* The last block of a cipher text, filled up with the stream, opens to    *)
(* zeros behind the text (dsi_decrypt_ccm).                                *)
FilledUpTo(y, a, t, h) ==
  /\ Str(y, 16)
  /\ \A i \in 1..h : y[i] = t[i]
  /\ \A i \in (h + 1)..16 : XorAll(Stream(a), y)[i] = 0

(* dsi_decrypt_ccm fills the last block up like that.                      *)
LEMMA FilledWithStream ==
  ASSUME CipherInverts, NEW a, a \in Seals, NEW t, NEW h, h \in 0..16, Str(t, h)
  PROVE  FilledUpTo(LastBlock(a, t), a, t, h)
<1> DEFINE s == Stream(a)
           z == Zeros(16)
           o == XorAll(s, z)
           y == LastBlock(a, t)
<1>1. Str(s, 16)
  BY SealStream
<1>2. Str(z, 16) /\ \A i \in 1..16 : z[i] = 0
  BY ZerosAre
<1>3. y = Over(o, 0, t)
  BY DEF LastBlock, dsi_crypt_ctr_block, Stream
<1> HIDE DEF z, s
<1>4. Str(o, 16) /\ \A i \in 1..16 : o[i] = Xor(s[i], z[i])
  <2>1. Str(s, 16) /\ Str(z, 16)
    BY <1>1, <1>2
  <2> QED
    BY <2>1, XorAllIs
<1> HIDE DEF o, y
<1>5. Written(y, o, 0, t, 16, h)
  <2>1. 0 \in Int /\ 0 >= 0 /\ 0 + h <= 16
    OBVIOUS
  <2> QED
    BY <1>3, <1>4, <2>1, StrOver
<1>6. /\ Str(y, 16)
      /\ \A i \in 1..16 : y[i] = IF 0 < i /\ i <= 0 + h THEN t[i - 0] ELSE o[i]
  BY <1>5 DEF Written
<1>7. \A i \in 1..h : y[i] = t[i]
  BY <1>6
<1>8. Str(XorAll(s, y), 16) /\ \A i \in 1..16 : XorAll(s, y)[i] = Xor(s[i], y[i])
  <2>1. Str(s, 16) /\ Str(y, 16)
    BY <1>1, <1>6
  <2> QED
    BY <2>1, XorAllIs
<1>9. ASSUME NEW i \in (h + 1)..16
      PROVE  XorAll(s, y)[i] = 0
  <2>1. i \in 1..16 /\ ~(i <= 0 + h)
    OBVIOUS
  <2>2. y[i] = Xor(s[i], 0)
    BY <1>2, <1>4, <1>6, <2>1
  <2>3. s[i] \in Byte /\ 0 \in Byte
    BY <1>1, <2>1, StrIs DEF Byte
  <2>4. Xor(s[i], Xor(s[i], 0)) = 0
    BY <2>3, XorTells
  <2> QED
    BY <1>8, <2>1, <2>2, <2>4
<1> QED
  BY <1>6, <1>7, <1>9 DEF FilledUpTo, y, s

(* dsi_decrypt_ccm writes what it should.                                  *)
LEMMA OpenFlows ==
  ASSUME CipherInverts, NEW ctx, ctx \in Seals, NEW text, NEW L, NEW N, NEW h,
         Str(text, L), TailOf(text, L, N, h)
  PROVE  \E p, c, f : OpenedAs(dsi_decrypt_ccm(ctx, text), text, L, N + 1, p, c, f, ctx)
<1>1. /\ N \in Nat /\ h \in 0..16 /\ L = (16 * N) + h /\ N = FullBlocks(text)
      /\ Str(Tail16(text), h) /\ \A n \in 1..N : Str(Block(text, n), 16)
  BY DEF TailOf
<1>2. PICK at : OpenDone(at, ctx, text, N)
  BY <1>1, OpenRuns
<1> DEFINE t == Tail16(text)
           a == at[N].ctx
           v == at[N].output
           y == LastBlock(a, t)
           d == dsi_decrypt_ccm_block(a, y)
           x == XorAll(Stream(a), y)
           f == Between(at, N)
           g == Further(f, d.ctx, N)
           b == SubSeq(text, 1, 16 * N)
           p == v \o x
           c == b \o y
           r == dsi_decrypt_ccm(ctx, text)
<1>3. r = [mac |-> Mac(d.ctx), output |-> v \o SubSeq(d.output, 1, Len(t))]
  BY <1>2 DEF OpenDone, OpenLast
<1>4. Flow(v, b, f, ctx, N)
  <2>1. OpenRun(at, ctx, text, N) /\ L \in Int /\ 16 * N <= L
    BY <1>1, <1>2 DEF OpenDone
  <2> QED
    BY <1>1, <2>1, OpenRunFlows
<1>5. f[N] = a /\ a \in Seals
  <2>1. f \in [0..N -> Seals] /\ N \in 0..N
    BY <1>1, <1>4 DEF Flow
  <2> QED
    BY <2>1 DEF Between
<1>6. Len(t) = h
  BY <1>1 DEF Str
<1> HIDE DEF t, r, f, a, v, b
<1>7. /\ Str(y, 16)
      /\ \A i \in 1..h : y[i] = t[i]
      /\ \A i \in (h + 1)..16 : x[i] = 0
  <2>1. Str(t, h) /\ h \in 0..16 /\ a \in Seals
    BY <1>1, <1>5 DEF t
  <2>2. FilledUpTo(y, a, t, h)
    BY <2>1, FilledWithStream
  <2> QED
    BY <2>2 DEF FilledUpTo
<1> HIDE DEF y
<1>8. Stepped(a, d.ctx, x) /\ d.output = x /\ Str(x, 16)
  BY <1>5, <1>7, OpensBlock
<1>20. XorAll(Stream(a), x) = y
  BY <1>5, <1>7, SealStream, XorAllTwice
<1> HIDE DEF d, x
<1>9. Flow(p, c, g, ctx, N + 1) /\ g[N + 1] = d.ctx
  <2>1. Stepped(f[N], d.ctx, x) /\ y = XorAll(Stream(f[N]), x)
    BY <1>5, <1>8, <1>20
  <2> QED
    BY <1>1, <1>4, <1>7, <1>8, <2>1, FlowsOn
<1> HIDE DEF g
<1>10. Str(b, 16 * N) /\ Str(v, 16 * N)
  BY <1>4 DEF Flow
<1>11. Headed(p, v \o SubSeq(x, 1, h), v, x, N, h)
  BY <1>1, <1>8, <1>10, HeadedIs
<1>12. Headed(c, b \o SubSeq(y, 1, h), b, y, N, h)
  BY <1>1, <1>7, <1>10, HeadedIs
<1> HIDE DEF p, c
<1>13. \A i \in 1..L : c[i] = text[i]
  BY <1>7, <1>12, BytesOfText DEF b, t
<1>14. \A i \in (L + 1)..(16 * (N + 1)) : p[i] = 0
  BY <1>1, <1>7, <1>11, ZerosBehind
<1>15. r.mac = Mac(g[N + 1]) /\ r.output = v \o SubSeq(x, 1, h)
  BY <1>3, <1>6, <1>8, <1>9
<1>16. Str(r.output, L) /\ \A i \in 1..L : r.output[i] = p[i]
  BY <1>1, <1>11, <1>15 DEF Headed
<1>17. N + 1 \in Nat /\ N + 1 >= 1 /\ L <= 16 * (N + 1)
  BY <1>1
<1>18. OpenedAs(r, text, L, N + 1, p, c, g, ctx)
  BY <1>9, <1>13, <1>14, <1>15, <1>16, <1>17 DEF OpenedAs
<1> QED
  BY <1>18 DEF r

(* Two strings under a third are the same only if they are.                *)
LEMMA XorsTell ==
  ASSUME NEW u, NEW v, NEW w, NEW n, Str(u, n), Str(v, n), Str(w, n)
  PROVE  /\ XorAll(u, w) = XorAll(v, w) => u = v
         /\ XorAll(w, u) = XorAll(w, v) => u = v
<1>1. XorAll(XorAll(u, w), w) = u /\ XorAll(w, XorAll(w, u)) = u
  BY XorAllTwice
<1>2. XorAll(XorAll(v, w), w) = v /\ XorAll(w, XorAll(w, v)) = v
  BY XorAllTwice
<1> QED
  BY <1>1, <1>2

(* Two states under the same key at the same place, whatever was sealed.   *)
Alike(c, d) ==
  c \in Seals /\ d \in Seals /\ c.key = d.key /\ c.ctr = d.ctr /\ c.S0 = d.S0

(* A block tells two seals apart if the blocks differ or the seals did,    *)
(* and not both.                                                           *)
MacsTold(c, d, x, y, e, g) ==
  /\ Alike(e, g)
  /\ x = y => (e.mac = g.mac <=> c.mac = d.mac)
  /\ c.mac = d.mac => (e.mac = g.mac <=> x = y)

(* One step of two seals that are alike (the cipher undone).               *)
LEMMA StepTells ==
  ASSUME CipherInverts, NEW c, NEW d, Alike(c, d), NEW x, NEW y, Str(x, 16), Str(y, 16),
         NEW e, NEW g, Stepped(c, e, x), Stepped(d, g, y)
  PROVE  MacsTold(c, d, x, y, e, g)
<1> DEFINE bx == Backwards(x)
           by == Backwards(y)
           s == XorAll(c.mac, bx)
           t == XorAll(d.mac, by)
           key == c.key
<1>1. /\ c \in Seals /\ d \in Seals /\ d.key = key /\ key \in Blocks16
      /\ Str(c.mac, 16) /\ Str(d.mac, 16)
  BY Sixteen DEF Alike, Seals
<1>2. Str(bx, 16) /\ Str(by, 16) /\ Backwards(bx) = x /\ Backwards(by) = y
  BY BackwardsIs, BackwardsTwice
<1>3. e.mac = Cipher(key, s) /\ g.mac = Cipher(key, t)
  BY <1>1 DEF Stepped
<1>4. Alike(e, g)
  BY DEF Alike, Stepped
<1> HIDE DEF bx, by, key
<1>5. Str(s, 16) /\ Str(t, 16)
  BY <1>1, <1>2, XorAllIs
<1>6. s = t => e.mac = g.mac
  BY <1>3
<1> DEFINE S == s
           T == t
<1>7. e.mac = g.mac => s = t
  <2>1. S \in Blocks16 /\ T \in Blocks16 /\ e.mac = Cipher(key, S) /\ g.mac = Cipher(key, T)
    BY <1>3, <1>5, Sixteen
  <2> HIDE DEF S, T
  <2>2. Decipher(key, Cipher(key, S)) = S /\ Decipher(key, Cipher(key, T)) = T
    BY <1>1, <2>1, CipherIs
  <2>3. e.mac = g.mac => S = T
    BY <2>1, <2>2
  <2> QED
    BY <2>3 DEF S, T
<1>8. c.mac = d.mac => (s = t => bx = by)
  BY <1>1, <1>2, XorsTell
<1>9. bx = by => (s = t => c.mac = d.mac)
  BY <1>1, <1>2, XorsTell
<1>10. (bx = by <=> x = y) /\ (c.mac = d.mac /\ bx = by => s = t)
  BY <1>2 DEF bx, by
<1> HIDE DEF s, t
<1> QED
  BY <1>4, <1>6, <1>7, <1>8, <1>9, <1>10 DEF MacsTold

(* The states of two flows from the same state are alike at each place.    *)
LEMMA FlowsAlike ==
  ASSUME NEW p, NEW c, NEW f, NEW q, NEW d, NEW g, NEW ctx, NEW M, M \in Nat,
         Flow(p, c, f, ctx, M), Flow(q, d, g, ctx, M)
  PROVE  \A n \in 0..M : Alike(f[n], g[n])
<1> DEFINE T == {n \in 0..M : Alike(f[n], g[n])}
<1>1. /\ f \in [0..M -> Seals] /\ f[0] = ctx
      /\ \A n \in 1..M : Stepped(f[n - 1], f[n], Block(p, n))
  BY DEF Flow
<1>2. /\ g \in [0..M -> Seals] /\ g[0] = ctx
      /\ \A n \in 1..M : Stepped(g[n - 1], g[n], Block(q, n))
  BY DEF Flow
<1>3. 0 \in T
  <2>1. 0 \in 0..M /\ f[0] \in Seals /\ g[0] \in Seals
    BY <1>1, <1>2
  <2> QED
    BY <1>1, <1>2, <2>1 DEF Alike
<1>4. ASSUME NEW n \in 1..M, n - 1 \in T
      PROVE  n \in T
  <2>1. Alike(f[n - 1], g[n - 1]) /\ n \in 0..M
    BY <1>4
  <2>2. Stepped(f[n - 1], f[n], Block(p, n)) /\ Stepped(g[n - 1], g[n], Block(q, n))
    BY <1>1, <1>2
  <2>3. Alike(f[n], g[n])
    BY <2>1, <2>2 DEF Alike, Stepped
  <2> QED
    BY <2>1, <2>3
<1> HIDE DEF T
<1>5. \A n \in 0..M : n \in T
  BY <1>3, <1>4, UpTo
<1> QED
  BY <1>5 DEF T

(* The blocks of a flow are blocks.                                        *)
LEMMA FlowBlocks ==
  ASSUME NEW p, NEW c, NEW f, NEW ctx, NEW M, M \in Nat, Flow(p, c, f, ctx, M),
         NEW n, n \in 1..M
  PROVE  /\ Str(Block(p, n), 16) /\ Str(Block(c, n), 16)
         /\ \A h \in 1..16 : Block(p, n)[h] = p[(16 * (n - 1)) + h]
         /\ \A h \in 1..16 : Block(c, n)[h] = c[(16 * (n - 1)) + h]
<1> DEFINE m == 16 * M
<1>1. Str(p, m) /\ Str(c, m) /\ n \in Int /\ n >= 1 /\ 16 * n <= m
  BY DEF Flow
<1> HIDE DEF m
<1>2. Str(Block(p, n), 16) /\ \A h \in 1..16 : Block(p, n)[h] = p[(16 * (n - 1)) + h]
  BY <1>1, BlockIs
<1>3. Str(Block(c, n), 16) /\ \A h \in 1..16 : Block(c, n)[h] = c[(16 * (n - 1)) + h]
  BY <1>1, BlockIs
<1> QED
  BY <1>2, <1>3

(* Of two flows from the same state, the cipher texts agree at just the    *)
(* places where the texts do.                                              *)
LEMMA FlowsAgree ==
  ASSUME CipherInverts, NEW p, NEW c, NEW f, NEW q, NEW d, NEW g, NEW ctx,
         NEW M, M \in Nat, Flow(p, c, f, ctx, M), Flow(q, d, g, ctx, M),
         NEW i, i \in 1..(16 * M)
  PROVE  c[i] = d[i] <=> p[i] = q[i]
<1>1. PICK n \in 1..M, h \in 1..16 : i = (16 * (n - 1)) + h
  BY PlaceOf
<1> DEFINE s == Stream(f[n - 1])
           x == Block(p, n)
           y == Block(q, n)
<1>2. n - 1 \in 0..M
  OBVIOUS
<1>3. Alike(f[n - 1], g[n - 1])
  BY <1>2, FlowsAlike
<1>4. Str(s, 16) /\ s = Stream(g[n - 1])
  BY <1>3, SealStream DEF Alike, Stream
<1>5. Block(c, n) = XorAll(s, x) /\ Block(d, n) = XorAll(s, y)
  BY <1>4 DEF Flow
<1>6. Str(x, 16) /\ x[h] = p[i] /\ Block(c, n)[h] = c[i]
  <2>1. /\ Str(Block(p, n), 16)
        /\ \A e \in 1..16 : Block(p, n)[e] = p[(16 * (n - 1)) + e]
        /\ \A e \in 1..16 : Block(c, n)[e] = c[(16 * (n - 1)) + e]
    BY FlowBlocks
  <2> QED
    BY <1>1, <2>1
<1>7. Str(y, 16) /\ y[h] = q[i] /\ Block(d, n)[h] = d[i]
  <2>1. /\ Str(Block(q, n), 16)
        /\ \A e \in 1..16 : Block(q, n)[e] = q[(16 * (n - 1)) + e]
        /\ \A e \in 1..16 : Block(d, n)[e] = d[(16 * (n - 1)) + e]
    BY FlowBlocks
  <2> QED
    BY <1>1, <2>1
<1> HIDE DEF s, x, y
<1>8. XorAll(s, x)[h] = Xor(s[h], x[h]) /\ XorAll(s, y)[h] = Xor(s[h], y[h])
  <2>1. \A e \in 1..16 : XorAll(s, x)[e] = Xor(s[e], x[e])
    <3>1. Str(s, 16) /\ Str(x, 16)
      BY <1>4, <1>6
    <3> QED
      BY <3>1, XorAllIs
  <2>2. \A e \in 1..16 : XorAll(s, y)[e] = Xor(s[e], y[e])
    <3>1. Str(s, 16) /\ Str(y, 16)
      BY <1>4, <1>7
    <3> QED
      BY <3>1, XorAllIs
  <2> QED
    BY <2>1, <2>2
<1> DEFINE sh == s[h]
           xh == x[h]
           yh == y[h]
<1>9. sh \in Byte /\ xh \in Byte /\ yh \in Byte
  BY <1>4, <1>6, <1>7, StrIs
<1> HIDE DEF sh, xh, yh
<1>10. Xor(sh, xh) = Xor(sh, yh) <=> xh = yh
  <2>1. Xor(sh, xh) = Xor(xh, sh) /\ Xor(Xor(xh, sh), sh) = xh
    BY <1>9, XorCancels
  <2>2. Xor(sh, yh) = Xor(yh, sh) /\ Xor(Xor(yh, sh), sh) = yh
    BY <1>9, XorCancels
  <2> QED
    BY <2>1, <2>2
<1> QED
  BY <1>5, <1>6, <1>7, <1>8, <1>10 DEF sh, xh, yh

(* Flows of the same text end with the same seal; flows of texts that      *)
(* differ in one block end with different ones.                            *)
SameBut(p, q, M, j) == \A n \in 1..M : Block(p, n) = Block(q, n) <=> n # j

(* By induction over the blocks, with the one that differs between.        *)
LEMMA MacsTell ==
  ASSUME CipherInverts, NEW p, NEW c, NEW f, NEW q, NEW d, NEW g, NEW ctx,
         NEW M, M \in Nat, Flow(p, c, f, ctx, M), Flow(q, d, g, ctx, M),
         NEW j, j \in 1..(M + 1), SameBut(p, q, M, j)
  PROVE  f[M].mac = g[M].mac <=> j = M + 1
<1> DEFINE T == {n \in 0..M : f[n].mac = g[n].mac <=> n < j}
<1>1. 0 \in T
  BY DEF Flow
<1>2. ASSUME NEW n \in 1..M, n - 1 \in T
      PROVE  n \in T
  <2> DEFINE a == f[n - 1]
             b == g[n - 1]
             u == f[n]
             v == g[n]
             x == Block(p, n)
             y == Block(q, n)
  <2>1. /\ (a.mac = b.mac <=> n - 1 < j) /\ n \in 0..M /\ n - 1 \in 0..M
        /\ (x = y <=> n # j)
    BY <1>2 DEF SameBut
  <2>2. Stepped(a, u, x) /\ Stepped(b, v, y)
    BY DEF Flow
  <2>3. Alike(a, b)
    BY <2>1, FlowsAlike
  <2>4. Str(x, 16) /\ Str(y, 16)
    BY FlowBlocks
  <2> HIDE DEF a, b, x, y, u, v
  <2>5. MacsTold(a, b, x, y, u, v)
    BY <2>2, <2>3, <2>4, StepTells
  <2>6. u.mac = v.mac <=> n < j
    <3>1. CASE n < j
      BY <2>1, <2>5, <3>1 DEF MacsTold
    <3>2. CASE n = j
      BY <2>1, <2>5, <3>2 DEF MacsTold
    <3>3. CASE n > j
      BY <2>1, <2>5, <3>3 DEF MacsTold
    <3> QED
      BY <3>1, <3>2, <3>3
  <2> QED
    BY <2>1, <2>6 DEF u, v
<1>3. \A n \in 0..M : n \in T
  <2> HIDE DEF T
  <2> QED
    BY <1>1, <1>2, UpTo
<1>4. M \in T
  <2> HIDE DEF T
  <2> QED
    BY <1>3
<1> QED
  BY <1>4

(* The seals that are given out differ if the states' do.                  *)
LEMMA MacTells ==
  ASSUME NEW c, NEW d, Alike(c, d)
  PROVE  Mac(c) = Mac(d) <=> c.mac = d.mac
<1> DEFINE a == Backwards(c.mac)
           b == Backwards(d.mac)
<1>1. Str(c.mac, 16) /\ Str(d.mac, 16) /\ Str(c.S0, 16) /\ d.S0 = c.S0
  BY Sixteen DEF Alike, Seals
<1>2. Mac(c) = XorAll(a, c.S0) /\ Mac(d) = XorAll(b, c.S0)
  BY <1>1 DEF Mac
<1>3. Str(a, 16) /\ Str(b, 16) /\ Backwards(a) = c.mac /\ Backwards(b) = d.mac
  BY <1>1, BackwardsIs, BackwardsTwice
<1>4. a = b <=> c.mac = d.mac
  BY <1>3
<1> HIDE DEF a, b
<1>5. XorAll(a, c.S0) = XorAll(b, c.S0) => a = b
  BY <1>1, <1>3, XorsTell
<1> QED
  BY <1>2, <1>4, <1>5

(* What was sealed opens to what it was, under the same seal; with one     *)
(* byte changed, under another.                                            *)
OpensAgain(r, s, text, L, u) ==
  /\ s.mac = r.mac <=> u = 0
  /\ u = 0 => s.output = text

(* A string of n bytes that is v but for byte p, if p is one of them.      *)
Altered(x, v, n, p) == Str(x, n) /\ \A i \in 1..n : x[i] = v[i] <=> i # p

(* The texts are the same where the cipher texts are, and so the seals.    *)
LEMMA SealTells ==
  ASSUME CipherInverts, NEW ctx, NEW text, NEW L, NEW M, NEW r, NEW s, NEW input,
         NEW p, NEW c, NEW f, NEW q, NEW d, NEW g, Str(text, L),
         SealedAs(r, text, L, M, p, c, f, ctx), OpenedAs(s, input, L, M, q, d, g, ctx),
         NEW u, u \in 0..L, Altered(input, r.output, L, u)
  PROVE  OpensAgain(r, s, text, L, u)
<1> DEFINE l == 16 * M
<1>1. /\ Flow(p, c, f, ctx, M) /\ M \in Nat /\ M >= 1 /\ L <= l
      /\ \A i \in 1..L : p[i] = text[i]
  BY DEF SealedAs
<1>2. /\ \A i \in (L + 1)..l : p[i] = 0
  BY DEF SealedAs
<1>3. r.mac = Mac(f[M]) /\ Str(r.output, L) /\ \A i \in 1..L : r.output[i] = c[i]
  BY DEF SealedAs
<1>0. \A i \in 1..L : input[i] = r.output[i] <=> i # u
  BY DEF Altered
<1>4. Flow(q, d, g, ctx, M) /\ \A i \in 1..L : d[i] = input[i]
  BY DEF OpenedAs
<1>5. \A i \in (L + 1)..l : q[i] = 0
  BY DEF OpenedAs
<1>6. s.mac = Mac(g[M]) /\ Str(s.output, L) /\ \A i \in 1..L : s.output[i] = q[i]
  BY DEF OpenedAs
<1>7. L \in Nat /\ l \in Nat
  BY <1>1, StrIs
<1>8. ASSUME NEW i \in 1..l
      PROVE  p[i] = q[i] <=> i # u
  <2>1. c[i] = d[i] <=> p[i] = q[i]
    BY <1>1, <1>4, FlowsAgree
  <2>2. CASE i <= L
    <3>1. i \in 1..L
      BY <2>2
    <3>2. c[i] = d[i] <=> input[i] = r.output[i]
      BY <1>3, <1>4, <3>1
    <3> QED
      BY <1>0, <2>1, <3>1, <3>2
  <2>3. CASE ~(i <= L)
    <3>1. i \in (L + 1)..l /\ i # u
      BY <1>7, <2>3
    <3> QED
      BY <1>2, <1>5, <3>1
  <2> QED
    BY <2>2, <2>3
<1>9. \E j \in 1..(M + 1) : SameBut(p, q, M, j) /\ (j = M + 1 <=> u = 0)
  <2>1. ASSUME NEW n \in 1..M, NEW h \in 1..16
        PROVE  Block(p, n)[h] = Block(q, n)[h] <=> (16 * (n - 1)) + h # u
    <3> DEFINE i == (16 * (n - 1)) + h
    <3>1. i \in 1..l
      BY <1>1
    <3>2. Block(p, n)[h] = p[i] /\ Block(q, n)[h] = q[i]
      BY <1>1, <1>4, FlowBlocks
    <3> HIDE DEF i
    <3>3. Block(p, n)[h] = Block(q, n)[h] <=> i # u
      BY <1>8, <3>1, <3>2
    <3> QED
      BY <3>3 DEF i
  <2>2. ASSUME NEW n \in 1..M, \A h \in 1..16 : (16 * (n - 1)) + h # u
        PROVE  Block(p, n) = Block(q, n)
    <3>1. Str(Block(p, n), 16) /\ Str(Block(q, n), 16)
      BY <1>1, <1>4, FlowBlocks
    <3>2. \A h \in 1..16 : Block(p, n)[h] = Block(q, n)[h]
      BY <2>1, <2>2
    <3> QED
      BY <3>1, <3>2, StrEqual
  <2>3. CASE u = 0
    <3> DEFINE j == M + 1
    <3>1. ASSUME NEW n \in 1..M
          PROVE  Block(p, n) = Block(q, n) <=> n # j
      <4>1. \A h \in 1..16 : (16 * (n - 1)) + h # u
        BY <2>3
      <4>2. n # j
        BY <1>1
      <4> QED
        BY <2>2, <4>1, <4>2
    <3>2. j \in 1..(M + 1)
      BY <1>1
    <3>3. SameBut(p, q, M, j)
      BY <3>1 DEF SameBut
    <3> QED
      BY <2>3, <3>2, <3>3
  <2>4. CASE u # 0
    <3>1. u \in 1..l
      BY <1>1, <1>7, <2>4
    <3>2. PICK j \in 1..M, m \in 1..16 : u = (16 * (j - 1)) + m
      BY <1>1, <3>1, PlaceOf
    <3>3. ASSUME NEW n \in 1..M
          PROVE  Block(p, n) = Block(q, n) <=> n # j
      <4>1. CASE n = j
        <5>1. Block(p, j)[m] # Block(q, j)[m]
          BY <2>1, <3>2
        <5> QED
          BY <4>1, <5>1
      <4>2. CASE n # j
        <5>1. ASSUME NEW h \in 1..16
              PROVE  (16 * (n - 1)) + h # u
          <6>1. CASE n < j
            BY <3>2, <6>1
          <6>2. CASE n > j
            BY <3>2, <6>2
          <6> QED
            BY <4>2, <6>1, <6>2
        <5> QED
          BY <2>2, <4>2, <5>1
      <4> QED
        BY <4>1, <4>2
    <3>4. SameBut(p, q, M, j)
      BY <3>3 DEF SameBut
    <3>5. j \in 1..(M + 1) /\ j # M + 1
      BY <1>1
    <3> QED
      BY <2>4, <3>4, <3>5
  <2> QED
    BY <2>3, <2>4
<1>10. f[M].mac = g[M].mac <=> u = 0
  <2>1. PICK j \in 1..(M + 1) : SameBut(p, q, M, j) /\ (j = M + 1 <=> u = 0)
    BY <1>9
  <2>2. f[M].mac = g[M].mac <=> j = M + 1
    BY <1>1, <1>4, <2>1, MacsTell
  <2> QED
    BY <2>1, <2>2
<1>11. s.mac = r.mac <=> u = 0
  <2>1. M \in 0..M
    BY <1>1
  <2>2. Alike(f[M], g[M])
    BY <1>1, <1>4, <2>1, FlowsAlike
  <2> QED
    BY <1>3, <1>6, <1>10, <2>2, MacTells
<1>12. ASSUME u = 0
       PROVE  s.output = text
  <2>1. ASSUME NEW i \in 1..L
        PROVE  s.output[i] = text[i]
    <3>1. i \in 1..l /\ i # u
      BY <1>1, <1>7, <1>12
    <3> QED
      BY <1>1, <1>6, <1>8, <3>1
  <2> QED
    BY <1>6, <2>1, StrEqual
<1> QED
  BY <1>11, <1>12 DEF OpensAgain

-----------------------------------------------------------------------------
(* Sealed blocks (ES).                                                     *)

(* The stream over mark and size, and the block they are put in.           *)
NonceBlock(nonce) == <<0>> \o nonce \o Zeros(3)
MetaStream(key, nonce) ==
  Backwards(Cipher(dsi_set_key(key), Backwards(NonceBlock(nonce))))
SizeBytes(L) == <<(L \div 65536) % 256, (L \div 256) % 256, L % 256>>
Scratchpad(L) == <<58>> \o Zeros(12) \o SizeBytes(L)
SizeIn(x) == (65536 * x[14]) + (256 * x[15]) + x[16]
MetaBlock(key, nonce, L) ==
  Over(XorAll(MetaStream(key, nonce), Scratchpad(L)), 1, nonce)

(* Strings of one byte, of twelve and of three.                            *)
Packed(x, a, w) == Str(x, 16) /\ x[1] = a /\ \A i \in 1..3 : x[13 + i] = w[i]

(* They make a block.                                                      *)
LEMMA OneTwelveThree ==
  ASSUME NEW a, a \in Byte, NEW v, Str(v, 12), NEW w, Str(w, 3)
  PROVE  Packed(<<a>> \o v \o w, a, w)
<1> DEFINE u == <<a>>
           x == u \o v
           y == x \o w
<1>1. Str(u, 1) /\ u[1] = a
  BY DEF Str
<1>2. Appended(x, u, v, 1, 12)
  <2> HIDE DEF u
  <2> QED
    BY <1>1, StrJoined
<1> HIDE DEF u, x
<1>3. Str(x, 1 + 12) /\ x[1] = u[1]
  BY <1>2 DEF Appended
<1>4. Str(x, 13)
  BY <1>3
<1>5. Appended(y, x, w, 13, 3)
  BY <1>4, StrJoined
<1> HIDE DEF y
<1>6. /\ Str(y, 13 + 3) /\ \A i \in 1..13 : y[i] = x[i]
  BY <1>5 DEF Appended
<1>7. \A i \in 1..3 : y[13 + i] = w[i]
  BY <1>5 DEF Appended
<1>8. Str(y, 16) /\ y[1] = a
  BY <1>1, <1>3, <1>6
<1>9. Packed(y, a, w)
  BY <1>7, <1>8 DEF Packed
<1> QED
  BY <1>9 DEF y, x, u

(* Three bytes.                                                            *)
LEMMA ThreeBytes ==
  ASSUME NEW a, NEW b, NEW c, a \in Byte, b \in Byte, c \in Byte
  PROVE  /\ Str(<<a, b, c>>, 3)
         /\ <<a, b, c>>[1] = a /\ <<a, b, c>>[2] = b /\ <<a, b, c>>[3] = c
  BY DEF Str

(* Three zeros, as dsi_es_decrypt writes them.                             *)
LEMMA ThreeZeros == Zeros(3) = <<0, 0, 0>> /\ Str(Zeros(3), 3)
<1>1. 0 \in Byte
  BY DEF Byte
<1>2. /\ Str(<<0, 0, 0>>, 3) /\ <<0, 0, 0>>[1] = 0 /\ <<0, 0, 0>>[2] = 0
      /\ <<0, 0, 0>>[3] = 0
  BY <1>1, ThreeBytes
<1>3. Str(Zeros(3), 3) /\ \A i \in 1..3 : Zeros(3)[i] = 0
  <2>1. 3 \in Nat
    OBVIOUS
  <2> QED
    BY <2>1, ZerosAre
<1>4. \A i \in 1..3 : Zeros(3)[i] = <<0, 0, 0>>[i]
  <2>1. \A i \in 1..3 : i = 1 \/ i = 2 \/ i = 3
    OBVIOUS
  <2> QED
    BY <1>2, <1>3, <2>1
<1> QED
  BY <1>2, <1>3, <1>4, StrEqual

(* A length that fits into its three bytes.                                *)
Short(L) == L \in Nat /\ L < 16777216

(* Mark and size where they are looked for.                                *)
LEMMA ScratchpadIs ==
  ASSUME NEW L, Short(L)
  PROVE  /\ Str(Scratchpad(L), 16) /\ Scratchpad(L)[1] = 58
         /\ SizeIn(Scratchpad(L)) = L
<1> DEFINE a == (L \div 65536) % 256
           b == (L \div 256) % 256
           c == L % 256
           w == SizeBytes(L)
           z == Zeros(12)
           x == Scratchpad(L)
<1>1. a \in Byte /\ b \in Byte /\ c \in Byte /\ (65536 * a) + (256 * b) + c = L
  BY DEF Byte, Short
<1>2. w = <<a, b, c>>
  BY DEF SizeBytes
<1> HIDE DEF a, b, c, w
<1>3. Str(w, 3) /\ w[1] = a /\ w[2] = b /\ w[3] = c
  BY <1>1, <1>2, ThreeBytes
<1>4. Str(z, 12)
  <2>1. 12 \in Nat
    OBVIOUS
  <2> QED
    BY <2>1, ZerosAre
<1>5. 58 \in Byte
  BY DEF Byte
<1>6. x = <<58>> \o z \o w
  BY DEF Scratchpad, w
<1> HIDE DEF z, x
<1>11. Packed(x, 58, w)
  BY <1>3, <1>4, <1>5, <1>6, OneTwelveThree
<1>7. Str(x, 16) /\ x[1] = 58 /\ \A i \in 1..3 : x[13 + i] = w[i]
  BY <1>11 DEF Packed
<1>8. x[13 + 1] = w[1] /\ x[13 + 2] = w[2] /\ x[13 + 3] = w[3]
  BY <1>7
<1>9. x[14] = a /\ x[15] = b /\ x[16] = c
  BY <1>3, <1>8
<1>10. SizeIn(x) = L
  BY <1>1, <1>9 DEF SizeIn
<1> QED
  BY <1>7, <1>10 DEF x

(* The key, as the modes take it.                                          *)
LEMMA SetKeyIs ==
  ASSUME NEW key, key \in Blocks16
  PROVE  dsi_set_key(key) \in Blocks16
  BY SwapIs DEF dsi_set_key

(* The stream is a block.                                                  *)
LEMMA MetaStreamIs ==
  ASSUME CipherInverts, NEW key, key \in Blocks16, NEW nonce, Str(nonce, 12)
  PROVE  Str(MetaStream(key, nonce), 16)
<1> DEFINE v == NonceBlock(nonce)
           k16 == dsi_set_key(key)
           w == Backwards(v)
           c == Cipher(k16, w)
<1>1. Str(v, 16)
  <2>1. 0 \in Byte
    BY DEF Byte
  <2>2. Packed(v, 0, Zeros(3))
    BY <2>1, ThreeZeros, OneTwelveThree DEF NonceBlock
  <2> QED
    BY <2>2 DEF Packed
<1>2. k16 \in Blocks16
  BY SetKeyIs
<1> HIDE DEF v, k16
<1>3. v \in Blocks16
  BY <1>1, Sixteen
<1>4. w \in Blocks16
  BY <1>3, SwapIs
<1> HIDE DEF w
<1>5. c \in Blocks16
  BY <1>2, <1>4, CipherIs
<1> HIDE DEF c
<1>6. Backwards(c) \in Blocks16
  BY <1>5, SwapIs
<1> QED
  BY <1>6, Sixteen DEF MetaStream, c, w, v, k16

(* The block that seals: nonce, mark and size.                             *)
Sealing(m, key, nonce, L) ==
  /\ Str(m, 16) /\ \A i \in 2..13 : m[i] = nonce[i - 1]
  /\ \A i \in {1, 14, 15, 16} : m[i] = Xor(MetaStream(key, nonce)[i], Scratchpad(L)[i])

(* dsi_es_encrypt writes such a block.                                     *)
LEMMA MetaBlockIs ==
  ASSUME CipherInverts, NEW key, key \in Blocks16, NEW nonce, Str(nonce, 12),
         NEW L, Short(L)
  PROVE  Sealing(MetaBlock(key, nonce, L), key, nonce, L)
<1> DEFINE s == MetaStream(key, nonce)
           x == Scratchpad(L)
           o == XorAll(s, x)
           m == MetaBlock(key, nonce, L)
<1>1. Str(s, 16) /\ Str(x, 16)
  BY MetaStreamIs, ScratchpadIs
<1>2. m = Over(o, 1, nonce)
  BY DEF MetaBlock
<1> HIDE DEF s, x, m
<1>3. Str(o, 16) /\ \A i \in 1..16 : o[i] = Xor(s[i], x[i])
  BY <1>1, XorAllIs
<1> HIDE DEF o
<1>4. Written(m, o, 1, nonce, 16, 12)
  <2>1. 1 \in Int /\ 1 >= 0 /\ 1 + 12 <= 16
    OBVIOUS
  <2> QED
    BY <1>2, <1>3, <2>1, StrOver
<1>5. /\ Str(m, 16)
      /\ \A i \in 1..16 : m[i] = IF 1 < i /\ i <= 1 + 12 THEN nonce[i - 1] ELSE o[i]
  BY <1>4 DEF Written
<1>6. \A i \in 2..13 : m[i] = nonce[i - 1]
  BY <1>5
<1>7. \A i \in {1, 14, 15, 16} : i \in 1..16 /\ ~(1 < i /\ i <= 1 + 12)
  OBVIOUS
<1>8. \A i \in {1, 14, 15, 16} : m[i] = Xor(s[i], x[i])
  BY <1>3, <1>5, <1>7
<1> QED
  BY <1>5, <1>6, <1>8 DEF Sealing, s, x, m

(* A string with one byte changed, if any.                                 *)
LEMMA ChangedIs ==
  ASSUME NEW v, NEW n, Str(v, n), NEW p, p \in 0..n
  PROVE  Altered(Changed(v, p), v, n, p)
<1>1. n \in Nat /\ v \in Seq(Byte) /\ Len(v) = n /\ \A i \in 1..n : v[i] \in Byte
  BY StrIs
<1>2. CASE p = 0
  BY <1>1, <1>2 DEF Changed, Altered
<1>3. CASE p # 0
  <2> DEFINE b == (v[p] + 1) % 256
             x == [v EXCEPT ![p] = b]
  <2>1. p \in 1..n
    BY <1>1, <1>3
  <2>2. v[p] \in Byte
    BY <1>1, <2>1
  <2>3. b \in Byte /\ b # v[p]
    BY <2>2 DEF Byte
  <2>4. Changed(v, p) = x
    BY <1>3 DEF Changed
  <2> HIDE DEF b
  <2>5. Str(x, n)
    BY <1>1, <2>1, <2>3 DEF Str
  <2>6. ASSUME NEW i \in 1..n
        PROVE  x[i] = v[i] <=> i # p
    <3>1. x[i] = IF i = p THEN b ELSE v[i]
      BY <1>1, <2>1
    <3> QED
      BY <2>3, <3>1
  <2> QED
    BY <2>4, <2>5, <2>6 DEF Altered
<1> QED
  BY <1>2, <1>3

(* XorAll, byte by byte.                                                   *)
Xored(x, v, w, n) == Str(x, n) /\ \A i \in 1..n : x[i] = Xor(v[i], w[i])

(* XorAll gives such a string.                                             *)
LEMMA XorOf ==
  ASSUME NEW v, NEW w, NEW n, Str(v, n), Str(w, n)
  PROVE  Xored(XorAll(v, w), v, w, n)
  BY XorAllIs DEF Xored

(* What is read in a block that seals, of which at most one byte was       *)
(* changed, and not the nonce: mark and size, or that they were changed.   *)
HeaderTold(x, L, w) ==
  /\ Str(x, 16)
  /\ (x[1] = 58) <=> (w # 1)
  /\ (SizeIn(x) = L) <=> (w \notin 14..16)

(* dsi_es_decrypt reads that.                                              *)
LEMMA HeaderRead ==
  ASSUME CipherInverts, NEW key, key \in Blocks16, NEW nonce, Str(nonce, 12),
         NEW L, Short(L), NEW m, Sealing(m, key, nonce, L),
         NEW v, NEW w, w \in 0..16, Altered(v, m, 16, w)
  PROVE  HeaderTold(XorAll(MetaStream(key, nonce), v), L, w)
<1> DEFINE s == MetaStream(key, nonce)
           y == Scratchpad(L)
           x == XorAll(s, v)
<1>1. Str(s, 16) /\ Str(y, 16) /\ y[1] = 58 /\ SizeIn(y) = L
  BY MetaStreamIs, ScratchpadIs
<1>2. Str(m, 16) /\ \A i \in {1, 14, 15, 16} : m[i] = Xor(s[i], y[i])
  BY DEF Sealing
<1>7. Str(v, 16)
  BY DEF Altered
<1>8. \A i \in 1..16 : v[i] = m[i] <=> i # w
  BY DEF Altered
<1> HIDE DEF s, y
<1>9. Xored(x, s, v, 16)
  BY <1>1, <1>7, XorOf
<1> HIDE DEF x
<1>3. Str(x, 16) /\ \A i \in 1..16 : x[i] = Xor(s[i], v[i])
  BY <1>9 DEF Xored
<1>4. ASSUME NEW i, i \in {1, 14, 15, 16}
      PROVE  (x[i] = y[i] <=> i # w) /\ x[i] \in Byte /\ y[i] \in Byte
  <2> DEFINE a == s[i]
             b == y[i]
             c == v[i]
  <2>1. i \in 1..16
    BY <1>4
  <2>2. a \in Byte /\ b \in Byte /\ c \in Byte /\ x[i] \in Byte
    <3>1. Str(s, 16) /\ Str(y, 16) /\ Str(v, 16) /\ Str(x, 16)
      BY <1>1, <1>3, <1>7
    <3>2. /\ \A j \in 1..16 : s[j] \in Byte
          /\ \A j \in 1..16 : y[j] \in Byte
          /\ \A j \in 1..16 : v[j] \in Byte
          /\ \A j \in 1..16 : x[j] \in Byte
      BY <3>1, StrIs
    <3> QED
      BY <2>1, <3>2
  <2>3. x[i] = Xor(a, c) /\ m[i] = Xor(a, b) /\ (c = m[i] <=> i # w)
    BY <1>2, <1>3, <1>4, <1>8, <2>1
  <2> HIDE DEF a, b, c
  <2>4. Xor(a, b) \in Byte /\ Xor(a, Xor(a, b)) = b /\ Xor(a, Xor(a, c)) = c
    BY <2>2, XorCancels, XorTells
  <2>5. x[i] = b <=> c = m[i]
    BY <2>3, <2>4
  <2> QED
    BY <2>2, <2>3, <2>5 DEF b
<1>5. x[1] = 58 <=> w # 1
  BY <1>1, <1>4
<1>6. SizeIn(x) = L <=> w \notin 14..16
  <2> DEFINE a == x[14]
             b == x[15]
             c == x[16]
             d == y[14]
             e == y[15]
             f == y[16]
  <2>1. /\ a \in Byte /\ b \in Byte /\ c \in Byte /\ d \in Byte /\ e \in Byte /\ f \in Byte
        /\ (a = d <=> w # 14) /\ (b = e <=> w # 15) /\ (c = f <=> w # 16)
    BY <1>4
  <2>2. SizeIn(x) = (65536 * a) + (256 * b) + c /\ L = (65536 * d) + (256 * e) + f
    BY <1>1 DEF SizeIn
  <2> HIDE DEF a, b, c, d, e, f
  <2>3. (SizeIn(x) = L) <=> (a = d /\ b = e /\ c = f)
    BY <2>1, <2>2 DEF Byte
  <2>4. w \notin 14..16 <=> (w # 14 /\ w # 15 /\ w # 16)
    OBVIOUS
  <2> QED
    BY <2>1, <2>3, <2>4
<1> QED
  BY <1>3, <1>5, <1>6 DEF HeaderTold, x, s

(* The state a seal begins with.                                           *)
LEMMA InitSeals ==
  ASSUME CipherInverts, NEW key, key \in Blocks16, NEW nonce, Str(nonce, 12),
         NEW L, L \in Nat
  PROVE  dsi_init_ccm(key, 16, L, 0, nonce) \in Seals
<1> DEFINE padded == ((L + 15) \div 16) * 16
           flags == (((16 - 2) \div 2) * 8) + 2 + (IF 0 # 0 THEN 64 ELSE 0)
           k16 == dsi_set_key(key)
           n == Backwards(nonce)
           sizes == <<(padded \div 65536) % 256, (padded \div 256) % 256, padded % 256>>
           B0 == <<flags>> \o n \o sizes
           A0 == <<2>> \o n \o <<0, 0, 0>>
           start == [key |-> k16, ctr |-> A0]
           S0 == dsi_crypt_ctr_block(start, Zeros(16))
<1>1. k16 \in Blocks16
  BY SetKeyIs
<1>2. Str(n, 12)
  BY BackwardsIs
<1>3. flags \in Byte /\ 2 \in Byte
  BY DEF Byte
<1>4. Str(sizes, 3)
  <2>1. padded \in Nat
    OBVIOUS
  <2> HIDE DEF padded
  <2>2. /\ (padded \div 65536) % 256 \in Byte /\ (padded \div 256) % 256 \in Byte
        /\ padded % 256 \in Byte
    BY <2>1 DEF Byte
  <2> QED
    BY <2>2, ThreeBytes
<1>5. dsi_init_ccm(key, 16, L, 0, nonce)
        = [key |-> k16, ctr |-> S0.ctx.ctr, S0 |-> S0.output, mac |-> Cipher(k16, B0)]
  BY DEF dsi_init_ccm
<1> HIDE DEF flags, sizes, n, k16
<1>6. Str(B0, 16)
  <2>1. Packed(B0, flags, sizes)
    BY <1>2, <1>3, <1>4, OneTwelveThree
  <2> QED
    BY <2>1 DEF Packed
<1>7. Str(A0, 16)
  <2>1. Packed(A0, 2, <<0, 0, 0>>)
    BY <1>2, <1>3, ThreeZeros, OneTwelveThree
  <2> QED
    BY <2>1 DEF Packed
<1> HIDE DEF A0, B0
<1>8. A0 \in Blocks16 /\ B0 \in Blocks16
  BY <1>6, <1>7, Sixteen
<1>9. Cipher(k16, B0) \in Blocks16
  BY <1>1, <1>8, CipherIs
<1>10. start \in Contexts
  BY <1>1, <1>8 DEF Contexts
<1>11. S0.ctx = dsi_add_ctr(start)
       /\ S0.output = XorAll(Backwards(Cipher(k16, A0)), Zeros(16))
  BY DEF dsi_crypt_ctr_block
<1> HIDE DEF start, S0
<1>12. S0.ctx.ctr \in Blocks16
  <2>1. dsi_add_ctr(start) \in Contexts
    BY <1>10, AddCtrIs
  <2> QED
    BY <1>11, <2>1 DEF Contexts
<1>13. S0.output \in Blocks16
  <2> DEFINE c == Cipher(k16, A0)
  <2>1. c \in Blocks16
    BY <1>1, <1>8, CipherIs
  <2> HIDE DEF c
  <2>2. Str(Backwards(c), 16)
    BY <2>1, SwapIs, Sixteen
  <2>3. Str(Zeros(16), 16)
    <3>1. 16 \in Nat
      OBVIOUS
    <3> QED
      BY <3>1, ZerosAre
  <2>4. Str(XorAll(Backwards(c), Zeros(16)), 16)
    BY <2>2, <2>3, XorAllIs
  <2> QED
    BY <1>11, <2>4, Sixteen DEF c
<1> QED
  BY <1>1, <1>5, <1>9, <1>12, <1>13 DEF Seals

(* What dsi_es_encrypt gives out, whose nonce it may be.                   *)
SealOf(key, nonce, text) ==
  dsi_encrypt_ccm(dsi_init_ccm(key, 16, Len(text), 0, nonce), text)

(* A text and its block as it writes them.                                 *)
SealedUp(es, key, nonce, text, sealed) ==
  /\ sealed.buffer = SealOf(key, nonce, text).output
  /\ sealed.metablock
       = SealOf(key, nonce, text).mac \o MetaBlock(key, nonce, Len(text))
  /\ es.key = key

(* dsi_es_encrypt, with a nonce that was set and with one it draws.        *)
LEMMA SealsUp ==
  ASSUME NEW key, NEW nonce, NEW text, NEW random, random \in BOOLEAN, NEW es,
         es = IF random THEN dsi_es_set_random_nonce(dsi_es_init(key))
              ELSE dsi_es_set_nonce(dsi_es_init(key), nonce)
  PROVE  SealedUp(es, key, nonce, text, dsi_es_encrypt(es, text, nonce))
<1>1. es.key = key /\ (IF es.randomnonce THEN nonce ELSE es.nonce) = nonce
  <2>1. CASE random
    BY <2>1 DEF dsi_es_set_random_nonce, dsi_es_init
  <2>2. CASE ~random
    BY <2>2 DEF dsi_es_set_nonce, dsi_es_init
  <2> QED
    BY <2>1, <2>2
<1> DEFINE stamp(n) ==
             dsi_crypt_ctr_block(dsi_init_ctr(es.key, <<0>> \o n \o Zeros(3)),
                                 Scratchpad(Len(text))).output
           sealed(n) == SealOf(es.key, n, text)
           chosen == IF es.randomnonce THEN nonce ELSE es.nonce
<1>2. dsi_es_encrypt(es, text, nonce)
        = [buffer |-> sealed(chosen).output,
           metablock |-> sealed(chosen).mac \o Over(stamp(chosen), 1, chosen)]
  BY DEF dsi_es_encrypt, SealOf, Scratchpad, SizeBytes
<1>3. stamp(nonce) = XorAll(MetaStream(key, nonce), Scratchpad(Len(text)))
  BY <1>1 DEF dsi_crypt_ctr_block, dsi_init_ctr, MetaStream, NonceBlock
<1>4. chosen = nonce
  BY <1>1
<1> HIDE DEF chosen
<1>5. dsi_es_encrypt(es, text, nonce)
        = [buffer |-> sealed(nonce).output,
           metablock |-> sealed(nonce).mac \o Over(stamp(nonce), 1, nonce)]
  BY <1>2, <1>4
<1>6. sealed(nonce) = SealOf(key, nonce, text)
  BY <1>1
<1>7. Over(stamp(nonce), 1, nonce) = MetaBlock(key, nonce, Len(text))
  BY <1>3 DEF MetaBlock
<1> DEFINE s == SealOf(key, nonce, text)
           m == MetaBlock(key, nonce, Len(text))
           e == dsi_es_encrypt(es, text, nonce)
<1> HIDE DEF stamp, sealed, s, m, e
<1>8. e = [buffer |-> s.output, metablock |-> s.mac \o m]
  BY <1>5, <1>6, <1>7 DEF s, m, e
<1>9. e.buffer = s.output /\ e.metablock = s.mac \o m
  BY <1>8
<1> QED
  BY <1>1, <1>9 DEF SealedUp, s, m, e

(* What dsi_es_decrypt answers, by what it reads.                          *)
Answered(r, x, size, buffer, opened, mac) ==
  /\ x[1] # 58 => r.ret = -1
  /\ x[1] = 58 /\ SizeIn(x) # size => r.ret = -2
  /\ x[1] = 58 /\ SizeIn(x) = size =>
       r = [ret |-> IF opened.mac # mac THEN -3 ELSE 0, buffer |-> opened.output]

(* The three answers of dsi_es_decrypt (twltool/dsi.c:300-331).            *)
LEMMA Answers ==
  ASSUME NEW es, NEW key, es.key = key, NEW buffer, NEW metablock, NEW size, NEW nonce,
         SubSeq(SubSeq(metablock, 17, 32), 2, 13) = nonce
  PROVE  Answered(dsi_es_decrypt(es, buffer, metablock, size),
                  XorAll(MetaStream(key, nonce), SubSeq(metablock, 17, 32)), size, buffer,
                  dsi_decrypt_ccm(dsi_init_ccm(key, 16, size, 0, nonce), buffer),
                  SubSeq(metablock, 1, 16))
<1> DEFINE meta == SubSeq(metablock, 17, 32)
           zeros == <<0, 0, 0>>
           n == SubSeq(meta, 2, 13)
           x == dsi_crypt_ctr_block(dsi_init_ctr(es.key, <<0>> \o n \o zeros), meta).output
           y == XorAll(MetaStream(key, nonce), meta)
           opened == dsi_decrypt_ccm(dsi_init_ccm(es.key, 16, size, 0, n), buffer)
           mac == SubSeq(metablock, 1, 16)
           r == dsi_es_decrypt(es, buffer, metablock, size)
<1>1. r = CASE x[1] # 58 -> [ret |-> -1, buffer |-> buffer]
            [] x[1] = 58 /\ SizeIn(x) # size -> [ret |-> -2, buffer |-> buffer]
            [] OTHER -> [ret |-> IF opened.mac # mac THEN -3 ELSE 0,
                         buffer |-> opened.output]
  BY DEF dsi_es_decrypt, SizeIn
<1>2. n = nonce
  OBVIOUS
<1>3. x = y
  <2>1. x = XorAll(Backwards(Cipher(dsi_set_key(es.key),
                                    Backwards(<<0>> \o n \o zeros))), meta)
    BY DEF dsi_crypt_ctr_block, dsi_init_ctr
  <2> HIDE DEF meta, x, zeros
  <2>2. zeros = Zeros(3)
    BY ThreeZeros DEF zeros
  <2> QED
    BY <1>2, <2>1, <2>2 DEF MetaStream, NonceBlock
<1>4. opened = dsi_decrypt_ccm(dsi_init_ccm(key, 16, size, 0, nonce), buffer)
  BY <1>2
<1> HIDE DEF x, y, opened, mac, r
<1>5. x[1] # 58 => r.ret = -1
  BY <1>1
<1>6. x[1] = 58 /\ SizeIn(x) # size => r.ret = -2
  BY <1>1
<1>7. x[1] = 58 /\ SizeIn(x) = size =>
        r = [ret |-> IF opened.mac # mac THEN -3 ELSE 0, buffer |-> opened.output]
  BY <1>1
<1>8. Answered(r, y, size, buffer, opened, mac)
  BY <1>3, <1>5, <1>6, <1>7 DEF Answered
<1> QED
  BY <1>4, <1>8 DEF y, mac, r

(* A seal has sixteen bytes, and the text sealed is as long as it was.     *)
LEMMA SealGives ==
  ASSUME CipherInverts, NEW ctx, ctx \in Seals, NEW text, NEW L, Str(text, L)
  PROVE  /\ Str(dsi_encrypt_ccm(ctx, text).mac, 16)
         /\ Str(dsi_encrypt_ccm(ctx, text).output, L)
<1>1. PICK N, h : TailOf(text, L, N, h)
  BY TailIs
<1> DEFINE r == dsi_encrypt_ccm(ctx, text)
           M == N + 1
<1>2. PICK p, c, f : SealedAs(r, text, L, M, p, c, f, ctx)
  BY <1>1, SealFlows
<1> HIDE DEF r, M
<1>3. r.mac = Mac(f[M]) /\ Str(r.output, L) /\ f \in [0..M -> Seals] /\ M \in Nat
  BY <1>2 DEF SealedAs, Flow
<1>4. f[M] \in Seals
  BY <1>3
<1> DEFINE d == f[M]
<1>5. Str(d.mac, 16) /\ Str(d.S0, 16)
  BY <1>4, Sixteen DEF Seals
<1> HIDE DEF d
<1>6. Str(Backwards(d.mac), 16)
  BY <1>5, BackwardsIs
<1>7. Str(XorAll(Backwards(d.mac), d.S0), 16)
  BY <1>5, <1>6, XorAllIs
<1>8. Str(Mac(d), 16)
  BY <1>7 DEF Mac
<1> QED
  BY <1>3, <1>8 DEF r, d

(* Strings of one length have as many blocks.                              *)
LEMMA TailAlike ==
  ASSUME NEW text, NEW input, NEW L, NEW N, NEW h, Str(text, L), Str(input, L),
         TailOf(text, L, N, h)
  PROVE  TailOf(input, L, N, h)
<1>1. text \in Seq(Byte) /\ input \in Seq(Byte) /\ Len(text) = L /\ Len(input) = L
  BY StrIs
<1>2. FullBlocks(text) = FullBlocks(input)
  BY <1>1 DEF FullBlocks
<1>3. PICK P, i : TailOf(input, L, P, i)
  BY TailIs
<1>4. P \in Nat /\ i \in 0..16 /\ L = (16 * P) + i /\ P = FullBlocks(input)
  BY <1>3 DEF TailOf
<1>5. N \in Nat /\ h \in 0..16 /\ L = (16 * N) + h /\ N = FullBlocks(text)
  BY DEF TailOf
<1>6. P = N
  BY <1>2, <1>4, <1>5
<1>7. i = h
  BY <1>4, <1>5, <1>6
<1> QED
  BY <1>3, <1>6, <1>7

(* What was sealed opens again, under the same key, nonce and size.        *)
LEMMA OpensUp ==
  ASSUME CipherInverts, NEW ctx, ctx \in Seals, NEW text, NEW L, Str(text, L),
         NEW u, u \in 0..L
  PROVE  OpensAgain(dsi_encrypt_ccm(ctx, text),
                    dsi_decrypt_ccm(ctx, Changed(dsi_encrypt_ccm(ctx, text).output, u)),
                    text, L, u)
<1> DEFINE r == dsi_encrypt_ccm(ctx, text)
           o == r.output
           input == Changed(o, u)
           s == dsi_decrypt_ccm(ctx, input)
<1>1. Str(o, L)
  BY SealGives
<1>2. PICK N, h : TailOf(text, L, N, h)
  BY TailIs
<1> DEFINE M == N + 1
<1>3. PICK p, c, f : SealedAs(r, text, L, M, p, c, f, ctx)
  BY <1>2, SealFlows
<1> HIDE DEF r
<1>4. Altered(input, o, L, u)
  <2> HIDE DEF o
  <2> QED
    BY <1>1, ChangedIs
<1>8. Str(input, L)
  BY <1>4 DEF Altered
<1> HIDE DEF input
<1>5. TailOf(input, L, N, h)
  BY <1>2, <1>8, TailAlike
<1>6. PICK q, d, g : OpenedAs(s, input, L, M, q, d, g, ctx)
  BY <1>5, <1>8, OpenFlows
<1> HIDE DEF s, M
<1>7. OpensAgain(r, s, text, L, u)
  BY <1>3, <1>4, <1>6, SealTells
<1> QED
  BY <1>7 DEF s, input, r

(* A block that seals with byte q of it changed: its seal, and its nonce.  *)
Presented(b, mac, m, nonce, q) ==
  /\ SubSeq(SubSeq(b, 17, 32), 2, 13) = nonce
  /\ Altered(SubSeq(b, 17, 32), m, 16, IF q > 16 THEN q - 16 ELSE 0)
  /\ SubSeq(b, 1, 16) = mac <=> q \notin 1..16

(* The block as dsi_es_encrypt writes it, changed.                         *)
LEMMA PresentedIs ==
  ASSUME NEW key, NEW nonce, NEW L, NEW mac, NEW m, Str(mac, 16), Str(nonce, 12),
         Sealing(m, key, nonce, L), NEW q, q \in 0..32, q \notin 18..29
  PROVE  Presented(Changed(mac \o m, q), mac, m, nonce, q)
<1> DEFINE a == mac \o m
           b == Changed(a, q)
           v == SubSeq(b, 17, 32)
           w == SubSeq(b, 1, 16)
           n == SubSeq(v, 2, 13)
<1>1. Str(m, 16) /\ \A i \in 2..13 : m[i] = nonce[i - 1]
  BY DEF Sealing
<1>2. Appended(a, mac, m, 16, 16)
  BY <1>1, StrJoined
<1> HIDE DEF a
<1>3. /\ Str(a, 16 + 16) /\ \A i \in 1..16 : a[i] = mac[i]
  BY <1>2 DEF Appended
<1>4. \A i \in 1..16 : a[16 + i] = m[i]
  BY <1>2 DEF Appended
<1>5. Str(a, 32)
  BY <1>3
<1>13. Altered(b, a, 32, q)
  BY <1>5, ChangedIs
<1>6. Str(b, 32) /\ \A i \in 1..32 : b[i] = a[i] <=> i # q
  BY <1>13 DEF Altered
<1> HIDE DEF b
<1>7. Str(v, 16) /\ \A i \in 1..16 : v[i] = b[16 + i]
  <2>1. 17 \in Int /\ 32 \in Int /\ 17 >= 1 /\ 32 >= 17 - 1 /\ 32 <= 32
        /\ (32 - 17) + 1 = 16 /\ 17 - 1 = 16
    OBVIOUS
  <2>2. /\ Str(SubSeq(b, 17, 32), (32 - 17) + 1)
        /\ \A i \in 1..((32 - 17) + 1) : SubSeq(b, 17, 32)[i] = b[(17 - 1) + i]
    BY <1>6, <2>1, StrPart
  <2> QED
    BY <2>1, <2>2
<1>8. Str(w, 16) /\ \A i \in 1..16 : w[i] = b[i]
  <2>1. 1 \in Int /\ 16 \in Int /\ 1 >= 1 /\ 16 >= 1 - 1 /\ 16 <= 32
        /\ (16 - 1) + 1 = 16 /\ \A i \in 1..16 : (1 - 1) + i = i
    OBVIOUS
  <2>2. /\ Str(SubSeq(b, 1, 16), (16 - 1) + 1)
        /\ \A i \in 1..((16 - 1) + 1) : SubSeq(b, 1, 16)[i] = b[(1 - 1) + i]
    BY <1>6, <2>1, StrPart
  <2> QED
    BY <2>1, <2>2
<1> HIDE DEF v, w
<1>9. ASSUME NEW i \in 1..16
      PROVE  v[i] = m[i] <=> i # q - 16
  <2>1. 16 + i \in 1..32
    OBVIOUS
  <2>2. v[i] = b[16 + i] /\ m[i] = a[16 + i]
    BY <1>4, <1>7
  <2>3. b[16 + i] = a[16 + i] <=> 16 + i # q
    BY <1>6, <2>1
  <2> QED
    BY <2>2, <2>3
<1>10. Str(n, 12) /\ \A i \in 1..12 : n[i] = v[1 + i]
  <2>1. 2 \in Int /\ 13 \in Int /\ 2 >= 1 /\ 13 >= 2 - 1 /\ 13 <= 16
        /\ (13 - 2) + 1 = 12 /\ 2 - 1 = 1
    OBVIOUS
  <2>2. /\ Str(SubSeq(v, 2, 13), (13 - 2) + 1)
        /\ \A i \in 1..((13 - 2) + 1) : SubSeq(v, 2, 13)[i] = v[(2 - 1) + i]
    BY <1>7, <2>1, StrPart
  <2> QED
    BY <2>1, <2>2
<1> HIDE DEF n
<1>11. n = nonce
  <2>1. ASSUME NEW i \in 1..12
        PROVE  n[i] = nonce[i]
    <3> DEFINE j == 1 + i
    <3>1. j \in 1..16 /\ j \in 2..13 /\ j - 1 = i /\ j # q - 16
      OBVIOUS
    <3>2. n[i] = v[j]
      BY <1>10
    <3> HIDE DEF j
    <3>3. v[j] = m[j]
      BY <1>9, <3>1
    <3>4. m[j] = nonce[i]
      BY <1>1, <3>1
    <3> QED
      BY <3>2, <3>3, <3>4
  <2> QED
    BY <1>10, <2>1, StrEqual
<1>12. w = mac <=> q \notin 1..16
  <2>1. CASE q \in 1..16
    <3>1. q \in 1..32 /\ b[q] # a[q]
      BY <1>6, <2>1
    <3>2. w[q] = b[q] /\ a[q] = mac[q]
      BY <1>3, <1>8, <2>1
    <3> QED
      BY <2>1, <3>1, <3>2
  <2>2. CASE q \notin 1..16
    <3>1. ASSUME NEW i \in 1..16
          PROVE  w[i] = mac[i]
      <4>1. i \in 1..32 /\ i # q
        BY <2>2
      <4>2. b[i] = a[i]
        BY <1>6, <4>1
      <4> QED
        BY <1>3, <1>8, <4>2
    <3> QED
      BY <1>8, <2>2, <3>1, StrEqual
  <2> QED
    BY <2>1, <2>2
<1>14. Altered(v, m, 16, IF q > 16 THEN q - 16 ELSE 0)
  <2> DEFINE p == IF q > 16 THEN q - 16 ELSE 0
  <2>1. \A i \in 1..16 : i # q - 16 <=> i # p
    OBVIOUS
  <2> HIDE DEF p
  <2>2. \A i \in 1..16 : v[i] = m[i] <=> i # p
    BY <1>9, <2>1
  <2>3. Altered(v, m, 16, p)
    BY <1>7, <2>2 DEF Altered
  <2> QED
    BY <2>3 DEF p
<1> QED
  BY <1>11, <1>12, <1>14 DEF Presented, n, v, w, b, a

(* What a sealed text answers with byte u of it or byte q of the block     *)
(* changed, if any, when so many bytes more are asked for.                 *)
Refused(r, text, u, q, more) ==
  /\ u = 0 /\ q = 0 /\ more = 0 => r = [ret |-> 0, buffer |-> text]
  /\ u # 0 \/ q # 0 \/ more # 0 => r.ret \in {-1, -2, -3}
  /\ q = 0 /\ more # 0 => r.ret = -2

(* The changes it can tell: not of the nonce, and of the size not in both  *)
(* places.                                                                 *)
Tampered(u, q, more, L) ==
  /\ u \in 0..L /\ q \in 0..32 /\ more \in Nat /\ (u = 0 \/ q = 0)
  /\ q \notin 18..29 /\ (q \in 30..32 => more = 0)

(* dsi_es_decrypt refuses every such change, and no unchanged text.        *)
LEMMA Refuses ==
  ASSUME CipherInverts, NEW key, key \in Blocks16, NEW nonce, Str(nonce, 12),
         NEW text, NEW L, Str(text, L), Short(L), NEW es, NEW sealed,
         SealedUp(es, key, nonce, text, sealed), NEW u, NEW q, NEW more,
         Tampered(u, q, more, L)
  PROVE  Refused(dsi_es_decrypt(es, Changed(sealed.buffer, u),
                                Changed(sealed.metablock, q), L + more),
                 text, u, q, more)
<1> DEFINE ctx == dsi_init_ccm(key, 16, L, 0, nonce)
           sent == dsi_encrypt_ccm(ctx, text)
           m == MetaBlock(key, nonce, L)
           input == Changed(sealed.buffer, u)
           b == Changed(sealed.metablock, q)
           size == L + more
           r == dsi_es_decrypt(es, input, b, size)
           v == SubSeq(b, 17, 32)
           w == IF q > 16 THEN q - 16 ELSE 0
           y == XorAll(MetaStream(key, nonce), v)
           opened == dsi_decrypt_ccm(dsi_init_ccm(key, 16, size, 0, nonce), input)
<1>0. /\ u \in 0..L /\ q \in 0..32 /\ more \in Nat /\ (u = 0 \/ q = 0)
      /\ q \notin 18..29 /\ (q \in 30..32 => more = 0)
  BY DEF Tampered
<1>1. L \in Nat /\ Len(text) = L
  BY StrIs
<1>2. /\ sealed.buffer = sent.output /\ sealed.metablock = sent.mac \o m
      /\ es.key = key
  BY <1>1 DEF SealedUp, SealOf
<1>3. ctx \in Seals
  BY <1>1, InitSeals
<1>4. Str(sent.mac, 16)
  BY <1>3, SealGives
<1>5. Sealing(m, key, nonce, L)
  BY <1>1, MetaBlockIs
<1>6. more = 0 => opened = dsi_decrypt_ccm(ctx, input)
  <2>1. more = 0 => size = L
    BY <1>0, <1>1
  <2> QED
    BY <2>1
<1>7. OpensAgain(sent, dsi_decrypt_ccm(ctx, Changed(sent.output, u)), text, L, u)
  BY <1>0, <1>3, OpensUp
<1>8. more = 0 => OpensAgain(sent, opened, text, L, u)
  BY <1>2, <1>6, <1>7
<1> HIDE DEF ctx, sent, m, input, opened
<1>9. Presented(b, sent.mac, m, nonce, q)
  <2> DEFINE mac == sent.mac
  <2>1. b = Changed(mac \o m, q)
    BY <1>2
  <2>2. q \in 0..32 /\ q \notin 18..29
    BY <1>0
  <2> HIDE DEF b
  <2>3. Str(mac, 16)
    BY <1>4
  <2> HIDE DEF mac
  <2>4. Presented(Changed(mac \o m, q), mac, m, nonce, q)
    BY <1>5, <2>2, <2>3, PresentedIs
  <2> QED
    BY <2>1, <2>4 DEF mac
<1>10. SubSeq(v, 2, 13) = nonce /\ Altered(v, m, 16, w)
  BY <1>9 DEF Presented
<1>11. SubSeq(b, 1, 16) = sent.mac <=> q \notin 1..16
  BY <1>9 DEF Presented
<1> HIDE DEF b
<1> HIDE DEF r, v, size, y
<1>12. Answered(r, y, size, input, opened, SubSeq(b, 1, 16))
  <2>1. es.key = key /\ SubSeq(SubSeq(b, 17, 32), 2, 13) = nonce
    BY <1>2, <1>10 DEF v
  <2>2. Answered(dsi_es_decrypt(es, input, b, size),
                 XorAll(MetaStream(key, nonce), SubSeq(b, 17, 32)), size, input,
                 dsi_decrypt_ccm(dsi_init_ccm(key, 16, size, 0, nonce), input),
                 SubSeq(b, 1, 16))
    BY <2>1, Answers
  <2> QED
    BY <2>2 DEF r, y, v, opened
<1>13. w \in 0..16
  BY <1>0
<1>15. (w = 1 <=> q = 17) /\ (w \in 14..16 <=> q \in 30..32)
  BY <1>0
<1> HIDE DEF w
<1>16. HeaderTold(y, L, w)
  <2>1. w \in 0..16
    BY <1>13
  <2>2. Altered(v, m, 16, w)
    BY <1>10
  <2>3. HeaderTold(XorAll(MetaStream(key, nonce), v), L, w)
    BY <1>5, <2>1, <2>2, HeaderRead
  <2> QED
    BY <2>3 DEF y
<1>17. (y[1] = 58) <=> (q # 17)
  BY <1>15, <1>16 DEF HeaderTold
<1>18. (SizeIn(y) = L) <=> (q \notin 30..32)
  BY <1>15, <1>16 DEF HeaderTold
<1>19. size = L <=> more = 0
  BY <1>0, <1>1 DEF size
<1>20. /\ q = 17 => r.ret = -1
       /\ q # 17 /\ SizeIn(y) # size => r.ret = -2
       /\ q # 17 /\ SizeIn(y) = size =>
            r = [ret |-> IF opened.mac # SubSeq(b, 1, 16) THEN -3 ELSE 0,
                 buffer |-> opened.output]
  BY <1>12, <1>17 DEF Answered
<1>21. SizeIn(y) = size <=> (q \notin 30..32 /\ more = 0)
  <2>1. CASE q \in 30..32
    BY <1>0, <1>18, <1>19, <2>1
  <2>2. CASE q \notin 30..32
    BY <1>18, <1>19, <2>2
  <2> QED
    BY <2>1, <2>2
<1> SUFFICES Refused(r, text, u, q, more)
  BY DEF r, input, b, size
<1>22. CASE q = 17
  BY <1>0, <1>20, <1>22 DEF Refused
<1>23. CASE q # 17 /\ SizeIn(y) # size
  <2>1. r.ret = -2
    BY <1>20, <1>23
  <2>2. ~(u = 0 /\ q = 0 /\ more = 0)
    BY <1>21, <1>23
  <2> QED
    BY <2>1, <2>2 DEF Refused
<1>24. CASE q # 17 /\ SizeIn(y) = size
  <2>1. more = 0 /\ r = [ret |-> IF opened.mac # SubSeq(b, 1, 16) THEN -3 ELSE 0,
                         buffer |-> opened.output]
    BY <1>20, <1>21, <1>24
  <2>2. (opened.mac = sent.mac <=> u = 0) /\ (u = 0 => opened.output = text)
    BY <1>8, <2>1 DEF OpensAgain
  <2>3. q \in 0..16
    BY <1>0, <1>21, <1>24
  <2>4. opened.mac = SubSeq(b, 1, 16) <=> (u = 0 /\ q = 0)
    <3>1. CASE q = 0
      <4>1. SubSeq(b, 1, 16) = sent.mac
        BY <1>11, <3>1
      <4> QED
        BY <2>2, <3>1, <4>1
    <3>2. CASE q # 0
      <4>1. SubSeq(b, 1, 16) # sent.mac /\ u = 0
        BY <1>0, <1>11, <2>3, <3>2
      <4> QED
        BY <2>2, <3>2, <4>1
    <3> QED
      BY <3>1, <3>2
  <2>5. CASE u = 0 /\ q = 0
    <3>1. r = [ret |-> 0, buffer |-> text]
      BY <2>1, <2>2, <2>4, <2>5
    <3> QED
      BY <2>1, <2>5, <3>1 DEF Refused
  <2>6. CASE ~(u = 0 /\ q = 0)
    <3>1. r.ret = -3
      BY <2>1, <2>4, <2>6
    <3> QED
      BY <2>1, <2>6, <3>1 DEF Refused
  <2> QED
    BY <2>5, <2>6
<1> QED
  BY <1>22, <1>23, <1>24

(* A call that seals, changes and opens.                                   *)
LEMMA SealCallHolds ==
  ASSUME CipherInverts, call \in SealCalls, ProperSeal(call), Seal, call' = call
  PROVE  (LeftToTheCipher(call) \/ SealsHold)'
<1> DEFINE key == call.key
           nonce == call.nonce
           text == call.text
           L == Len(text)
           init == dsi_es_init(key)
           es == IF call.random THEN dsi_es_set_random_nonce(init)
                 ELSE dsi_es_set_nonce(init, nonce)
           sealed == dsi_es_encrypt(es, text, nonce)
           u == call.inText
           q == call.inMeta
           more == call.more
           r == dsi_es_decrypt(es, Changed(sealed.buffer, u),
                               Changed(sealed.metablock, q), L + more)
<1>1. /\ key \in Blocks16 /\ text \in Seq(Byte) /\ nonce \in Seq(Byte)
      /\ call.random \in BOOLEAN /\ u \in Nat /\ q \in 0..32 /\ more \in Nat
  BY DEF SealCalls
<1>2. Len(nonce) = 12 /\ Short(L) /\ u <= L /\ (u = 0 \/ q = 0)
  BY <1>1 DEF ProperSeal, Short
<1>3. result' = r /\ call.alg = "seal"
  BY DEF Seal, Returns
<1>4. SealedUp(es, key, nonce, text, sealed)
  <2> HIDE DEF es
  <2> SUFFICES es = IF call.random THEN dsi_es_set_random_nonce(dsi_es_init(key))
                    ELSE dsi_es_set_nonce(dsi_es_init(key), nonce)
    BY <1>1, SealsUp
  <2> QED
    BY DEF es
<1> HIDE DEF es, sealed
<1>5. Str(nonce, 12) /\ Str(text, L) /\ u \in 0..L
  BY <1>1, <1>2 DEF Str
<1> HIDE DEF key, nonce, text, L, u, q, more
<1>6. CASE LeftToTheCipher(call)
  BY <1>6 DEF LeftToTheCipher
<1>7. CASE ~LeftToTheCipher(call)
  <2>1. q \notin 18..29 /\ (q \in 30..32 => more = 0)
    BY <1>1, <1>7 DEF LeftToTheCipher, q, more
  <2>4. Tampered(u, q, more, L)
    BY <1>1, <1>2, <1>5, <2>1 DEF Tampered
  <2>2. Refused(r, text, u, q, more)
    BY <1>1, <1>2, <1>4, <1>5, <2>4, Refuses
  <2> HIDE DEF r
  <2>3. /\ u = 0 /\ q = 0 /\ more = 0 => r = [ret |-> 0, buffer |-> text]
        /\ u # 0 \/ q # 0 \/ more # 0 => r.ret \in {-1, -2, -3}
        /\ q = 0 /\ more # 0 => r.ret = -2
    BY <2>2 DEF Refused
  <2>5. SealsHold'
    BY <1>3, <2>3 DEF SealsHold, text, u, q, more
  <2> QED
    BY <2>5
<1> QED
  BY <1>6, <1>7

(* What is sealed opens to what it was, and with one byte changed, or      *)
(* another size asked for, it is refused, whatever the text, its length,   *)
(* the nonce and the change, under every block cipher whose inverse undoes *)
(* it; but for a changed nonce, and a size changed in both places, where   *)
(* it depends on the cipher (twltool/dsi.c:190-331).                       *)
THEOREM SealsTheorem ==
  ASSUME CipherInverts
  PROVE  Spec => [](LeftToTheCipher(call) \/ SealsHold)
<1> DEFINE P == LeftToTheCipher(call) \/ SealsHold
<1>1. Init => P
  BY DEF Init, SealsHold, Nothing
<1>2. CallOK /\ P /\ [Next]_algVars => P'
  <2> SUFFICES ASSUME CallOK, P, [Next]_algVars
               PROVE  P'
    OBVIOUS
  <2>1. call' = call
    BY Steps
  <2>2. CASE result' = result
    BY <2>1, <2>2 DEF SealsHold, LeftToTheCipher
  <2>3. CASE result' # result
    <3>1. CASE call.alg # "seal"
      BY <2>1, <3>1 DEF SealsHold
    <3>2. CASE call.alg = "seal"
      <4>1. Seal
        BY <2>3, <3>2, Steps
      <4>2. call \in SealCalls /\ ProperSeal(call)
        BY <3>2, CallsAssumption DEF CallOK
      <4> QED
        BY <2>1, <4>1, <4>2, SealCallHolds
    <3> QED
      BY <3>1, <3>2
  <2> QED
    BY <2>2, <2>3
<1> QED
  BY <1>1, <1>2, CallInvariance, PTL DEF Spec

=============================================================================
