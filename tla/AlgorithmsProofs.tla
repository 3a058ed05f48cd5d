--------------------------- MODULE AlgorithmsProofs ---------------------------
(***************************************************************************)
(* What is proved of Algorithms, for calls of any size: the hook goes to   *)
(* the table of the game's handler (HookTheorem), the launcher takes and   *)
(* changes the game's own parameters and sleep routine (PatchesTheorem), a *)
(* move or a fill changes the bytes it is asked for and no other           *)
(* (MovesTheorem), and what the launcher leaves in video memory arrives    *)
(* (EngineTheorem).                                                        *)
(*                                                                         *)
(* The call never changes (CallInvariance), so the invariant of each       *)
(* theorem is the property itself with CallsAssumption: what is to be      *)
(* shown is what a routine computes.  A binary is described by where its   *)
(* parts lie in it (Lies), a list of writes by the memory it makes of a    *)
(* stretch (Tiles), the bank by the byte at each place (ImageByte); each   *)
(* step of a routine has a lemma that hands such a description on.         *)
(***************************************************************************)
EXTENDS Algorithms, SequenceTheorems, WellFoundedInduction, TLAPS

-----------------------------------------------------------------------------
(* Searches (find_common.c).                                               *)

(* The least of a set of numbers is the member that none is below.         *)
LEMMA LeastIs ==
  ASSUME NEW found \in SUBSET Int, NEW n \in found, \A m \in found : n <= m
  PROVE  (CHOOSE r \in found : \A m \in found : r <= m) = n
<1> DEFINE first == CHOOSE r \in found : \A m \in found : r <= m
<1>1. \E r \in found : \A m \in found : r <= m
  OBVIOUS
<1>2. first \in found /\ \A m \in found : first <= m
  BY <1>1
<1> HIDE DEF first
<1>3. first = n
  BY <1>2
<1> QED
  BY <1>3 DEF first

(* Nowhere in the first n places of a search.                              *)
Avoids(mem, start, step, n, find) ==
  \A m \in 0..(n - 1) : ~IsAt(mem, start + (step * m), find)

(* memsearch gives the first place, if it is among those searched...       *)
LEMMA FoundAt ==
  ASSUME NEW mem, NEW find, NEW start \in Int, NEW dataLen \in Int, NEW step \in Int,
         NEW n \in Int, Avoids(mem, start, step, n, find),
         n \in 0..(dataLen - 1), IsAt(mem, start + (step * n), find)
  PROVE  memsearch(mem, start, dataLen, find, step) = start + (step * n)
<1> DEFINE found == {m \in 0..(dataLen - 1) : IsAt(mem, start + (step * m), find)}
<1>1. n \in found
  OBVIOUS
<1>2. \A m \in found : n <= m
  BY DEF Avoids
<1>3. found \in SUBSET Int
  OBVIOUS
<1> HIDE DEF found
<1>4. (CHOOSE r \in found : \A m \in found : r <= m) = n
  BY <1>1, <1>2, <1>3, LeastIs
<1> QED
  BY <1>1, <1>4 DEF memsearch, found

(* ... and NULL if there is none (find_common.c).                          *)
LEMMA FoundNowhere ==
  ASSUME NEW mem, NEW find, NEW start \in Int, NEW dataLen \in Int, NEW step \in Int,
         Avoids(mem, start, step, dataLen, find)
  PROVE  memsearch(mem, start, dataLen, find, step) = NULL
<1> DEFINE found == {m \in 0..(dataLen - 1) : IsAt(mem, start + (step * m), find)}
<1>1. found = {}
  BY DEF Avoids
<1> QED
  BY <1>1 DEF memsearch

(* Words of nothing.                                                       *)
LEMMA BlankIs ==
  ASSUME NEW n \in Nat
  PROVE  /\ Blank(n) \in Seq(Nat) /\ Len(Blank(n)) = n
         /\ \A i \in 1..n : Blank(n)[i] = NULL
<1>1. [i \in 1..n |-> NULL] \in Seq(Nat)
  BY DEF NULL
<1> QED
  BY <1>1 DEF Blank, NULL

(* v lies in mem behind its first p entries.                               *)
Lies(mem, p, v) == p + Len(v) <= Len(mem) /\ \A i \in 1..Len(v) : mem[p + i] = v[i]

(* What lies there is found there.                                         *)
LEMMA LiesIsAt ==
  ASSUME NEW mem, NEW v, NEW p \in Int, p >= 0, Lies(mem, p, v),
         mem \in Seq(Nat), v \in Seq(Nat)
  PROVE  IsAt(mem, p + 1, v)
<1>1. DOMAIN mem = 1..Len(mem) /\ Len(mem) \in Nat /\ Len(v) \in Nat
  OBVIOUS
<1>2. ASSUME NEW j \in 1..Len(v)
      PROVE  p + 1 + j - 1 \in DOMAIN mem /\ mem[p + 1 + j - 1] = v[j]
  <2>1. p + 1 + j - 1 = p + j
    BY <1>1
  <2> QED
    BY <1>1, <2>1 DEF Lies
<1> QED
  BY <1>2 DEF IsAt

(* Where the first word differs, nothing is found.                         *)
LEMMA NotAt ==
  ASSUME NEW mem, NEW find, NEW p \in Int, Len(find) >= 1,
         p \in DOMAIN mem => mem[p] # find[1]
  PROVE  ~IsAt(mem, p, find)
<1>1. 1 \in 1..Len(find) /\ p + 1 - 1 = p
  OBVIOUS
<1> QED
  BY <1>1 DEF IsAt

(* A string lies in itself.                                                *)
LEMMA LiesItself ==
  ASSUME NEW v
  PROVE  Lies(v, 0, v)
BY DEF Lies

(* What one string after another holds.                                    *)
LEMMA Joined ==
  ASSUME NEW v, NEW w, v \in Seq(Nat), w \in Seq(Nat)
  PROVE  /\ v \o w \in Seq(Nat)
         /\ Len(v) \in Nat /\ Len(w) \in Nat
         /\ Len(v \o w) = Len(v) + Len(w)
         /\ \A i \in 1..Len(v) : (v \o w)[i] = v[i]
         /\ \A i \in 1..Len(w) : (v \o w)[Len(v) + i] = w[i]
<1>1. v \o w \in Seq(Nat)
  OBVIOUS
<1>2. Len(v) \in Nat /\ Len(w) \in Nat
  OBVIOUS
<1>3. Len(v \o w) = Len(v) + Len(w)
  OBVIOUS
<1>4. \A i \in 1..Len(v) : (v \o w)[i] = v[i]
  OBVIOUS
<1>5. \A i \in 1..Len(w) : (v \o w)[Len(v) + i] = w[i]
  OBVIOUS
<1> QED
  BY <1>1, <1>2, <1>3, <1>4, <1>5

(* Where two strings lie together, each lies at its place.                 *)
LEMMA LiesApart ==
  ASSUME NEW mem, NEW v, NEW w, NEW p \in Int, p >= 0, Len(mem) \in Nat,
         v \in Seq(Nat), w \in Seq(Nat), Lies(mem, p, v \o w)
  PROVE  Lies(mem, p, v) /\ Lies(mem, p + Len(v), w)
<1> DEFINE vw == v \o w
<1>1. /\ Len(v) \in Nat /\ Len(w) \in Nat
      /\ Len(vw) = Len(v) + Len(w)
      /\ \A i \in 1..Len(v) : vw[i] = v[i]
      /\ \A i \in 1..Len(w) : vw[Len(v) + i] = w[i]
  BY Joined
<1>2. p + Len(vw) <= Len(mem) /\ \A i \in 1..Len(vw) : mem[p + i] = vw[i]
  BY DEF Lies
<1> HIDE DEF vw
<1>3. Lies(mem, p, v)
  BY <1>1, <1>2 DEF Lies
<1>4. p + Len(v) + Len(w) <= Len(mem)
  BY <1>1, <1>2
<1>5. ASSUME NEW i \in 1..Len(w)
      PROVE  mem[p + Len(v) + i] = w[i]
  <2>1. Len(v) + i \in 1..Len(vw) /\ vw[Len(v) + i] = w[i]
    BY <1>1
  <2>2. mem[p + (Len(v) + i)] = w[i]
    BY <1>2, <2>1
  <2> QED
    BY <1>1, <2>2
<1> QED
  BY <1>3, <1>4, <1>5 DEF Lies

(* The same of three...                                                    *)
LEMMA LiesInThree ==
  ASSUME NEW mem, NEW u, NEW v, NEW w, NEW p \in Int, p >= 0, Len(mem) \in Nat,
         u \in Seq(Nat), v \in Seq(Nat), w \in Seq(Nat),
         Lies(mem, p, u \o v \o w)
  PROVE  /\ Lies(mem, p, u) /\ Lies(mem, p + Len(u), v)
         /\ Lies(mem, p + Len(u) + Len(v), w)
<1> DEFINE uv == u \o v
<1>1. uv \in Seq(Nat) /\ Len(uv) = Len(u) + Len(v) /\ Len(u) \in Nat /\ Len(v) \in Nat
  BY Joined
<1>2. Lies(mem, p, uv) /\ Lies(mem, p + Len(uv), w)
  <2>1. Lies(mem, p, uv \o w)
    OBVIOUS
  <2> HIDE DEF uv
  <2> QED
    BY <1>1, <2>1, LiesApart
<1>3. Lies(mem, p, u) /\ Lies(mem, p + Len(u), v)
  BY <1>2, LiesApart
<1>4. p + Len(uv) = p + Len(u) + Len(v)
  BY <1>1
<1> QED
  BY <1>2, <1>3, <1>4

(* ... and their length.                                                   *)
LEMMA ThreeJoined ==
  ASSUME NEW u, NEW v, NEW w, u \in Seq(Nat), v \in Seq(Nat), w \in Seq(Nat)
  PROVE  /\ u \o v \o w \in Seq(Nat)
         /\ Len(u \o v \o w) = Len(u) + Len(v) + Len(w)
<1> DEFINE uv == u \o v
<1>1. uv \in Seq(Nat) /\ Len(uv) = Len(u) + Len(v)
  BY Joined
<1> HIDE DEF uv
<1>2. uv \o w \in Seq(Nat) /\ Len(uv \o w) = Len(uv) + Len(w)
  BY <1>1, Joined
<1> QED
  BY <1>1, <1>2 DEF uv

(* Five strings, one after the other.                                      *)
Row(a, b, c, d, e) == a \o b \o c \o d \o e

(* They are as long as all of them...                                      *)
LEMMA RowJoined ==
  ASSUME NEW a, NEW b, NEW c, NEW d, NEW e,
         a \in Seq(Nat), b \in Seq(Nat), c \in Seq(Nat), d \in Seq(Nat), e \in Seq(Nat)
  PROVE  /\ Row(a, b, c, d, e) \in Seq(Nat)
         /\ Len(Row(a, b, c, d, e)) = Len(a) + Len(b) + Len(c) + Len(d) + Len(e)
<1> DEFINE abc == a \o b \o c
           row == abc \o d \o e
<1>1. abc \in Seq(Nat)
  BY ThreeJoined
<1>2. Len(abc) = Len(a) + Len(b) + Len(c)
  BY ThreeJoined
<1> HIDE DEF abc
<1>3. row \in Seq(Nat)
  BY <1>1, ThreeJoined
<1>4. Len(row) = Len(abc) + Len(d) + Len(e)
  BY <1>1, ThreeJoined
<1>5. Row(a, b, c, d, e) = row
  BY DEF Row, abc
<1>6. Len(row) = Len(a) + Len(b) + Len(c) + Len(d) + Len(e)
  BY <1>2, <1>4
<1> HIDE DEF row
<1> QED
  BY <1>3, <1>5, <1>6

(* ... and where they lie, each lies behind those before it.               *)
RowIn(mem, a, b, c, d, e) ==
  /\ Lies(mem, 0, a) /\ Lies(mem, Len(a), b) /\ Lies(mem, Len(a) + Len(b), c)
  /\ Lies(mem, Len(a) + Len(b) + Len(c), d)
  /\ Lies(mem, Len(a) + Len(b) + Len(c) + Len(d), e)

(* Where they lie together, each lies at its place.                        *)
LEMMA RowLies ==
  ASSUME NEW mem, NEW a, NEW b, NEW c, NEW d, NEW e,
         a \in Seq(Nat), b \in Seq(Nat), c \in Seq(Nat), d \in Seq(Nat), e \in Seq(Nat),
         Len(mem) \in Nat, Lies(mem, 0, Row(a, b, c, d, e))
  PROVE  RowIn(mem, a, b, c, d, e)
<1> DEFINE abc == a \o b \o c
<1>1. abc \in Seq(Nat)
  BY ThreeJoined
<1>2. Len(abc) = Len(a) + Len(b) + Len(c)
  BY ThreeJoined
<1>3. Row(a, b, c, d, e) = abc \o d \o e
  BY DEF Row
<1>4. Len(a) \in Nat /\ Len(b) \in Nat /\ Len(c) \in Nat /\ Len(d) \in Nat
  OBVIOUS
<1> HIDE DEF abc
<1>5. Lies(mem, 0, abc \o d \o e)
  BY <1>3
<1>6. Lies(mem, 0, abc) /\ Lies(mem, 0 + Len(abc), d) /\ Lies(mem, 0 + Len(abc) + Len(d), e)
  BY <1>1, <1>5, LiesInThree
<1>7. Lies(mem, 0, a \o b \o c)
  BY <1>6 DEF abc
<1>8. Lies(mem, 0, a) /\ Lies(mem, 0 + Len(a), b) /\ Lies(mem, 0 + Len(a) + Len(b), c)
  BY <1>7, LiesInThree
<1>9. /\ 0 + Len(abc) = Len(a) + Len(b) + Len(c)
      /\ 0 + Len(abc) + Len(d) = Len(a) + Len(b) + Len(c) + Len(d)
      /\ 0 + Len(a) = Len(a) /\ 0 + Len(a) + Len(b) = Len(a) + Len(b)
  BY <1>2, <1>4
<1> QED
  BY <1>6, <1>8, <1>9 DEF RowIn

-----------------------------------------------------------------------------
(* The parameters.                                                         *)

ParamsIn(mem, pre, sdk) ==
  LET half == 2 + pre + PARAMS_HALVES
  IN /\ mem \in Seq(Nat) /\ Lies(mem, half, moduleParamsSignature)
     /\ mem[1] = moduleParamsSignature[1] /\ mem[half] = sdk
     /\ \A i \in 3..(half - 1) : mem[i] = NULL

(* ParamsMemory is such a binary.                                          *)
LEMMA ParamsLie ==
  ASSUME NEW pre \in Int, NEW sdk \in Int, pre \in Nat, sdk \in Nat
  PROVE  ParamsIn(ParamsMemory(pre, sdk), pre, sdk)
<1> DEFINE mem == ParamsMemory(pre, sdk)
           decoy == <<moduleParamsSignature[1], moduleParamsSignature[2]>>
           u == Blank(pre)
           v == Blank(PARAMS_HALVES - 1)
           w == <<sdk>>
           half == 2 + pre + PARAMS_HALVES
<1>1. PARAMS_HALVES \in Nat /\ PARAMS_HALVES >= 1 /\ moduleParamsSignature \in Seq(Nat)
  BY ParamsAssumption
<1>2. Len(moduleParamsSignature) = 4
  BY ParamsAssumption
<1>3. moduleParamsSignature[1] \in Nat /\ moduleParamsSignature[2] \in Nat
  BY <1>1, <1>2
<1>4. decoy \in Seq(Nat) /\ Len(decoy) = 2 /\ decoy[1] = moduleParamsSignature[1]
  BY <1>3
<1>5. u \in Seq(Nat) /\ v \in Seq(Nat)
  BY <1>1, BlankIs
<1>6. Len(u) = pre /\ Len(v) = PARAMS_HALVES - 1
  BY <1>1, BlankIs
<1>7. (\A i \in 1..pre : u[i] = NULL) /\ (\A i \in 1..(PARAMS_HALVES - 1) : v[i] = NULL)
  BY <1>1, BlankIs
<1>8. w \in Seq(Nat) /\ Len(w) = 1 /\ w[1] = sdk
  OBVIOUS
<1>9. mem = Row(decoy, u, v, w, moduleParamsSignature)
  BY DEF ParamsMemory, Row
<1> HIDE DEF mem, decoy, u, v, w
<1>10. mem \in Seq(Nat)
  BY <1>1, <1>4, <1>5, <1>8, <1>9, RowJoined
<1>11. Lies(mem, 0, Row(decoy, u, v, w, moduleParamsSignature)) /\ Len(mem) \in Nat
  BY <1>9, <1>10, LiesItself, LenProperties
<1>12. RowIn(mem, decoy, u, v, w, moduleParamsSignature)
  BY <1>1, <1>4, <1>5, <1>8, <1>11, RowLies
<1>13. /\ Lies(mem, 0, decoy) /\ Lies(mem, Len(decoy), u)
       /\ Lies(mem, Len(decoy) + Len(u), v)
       /\ Lies(mem, Len(decoy) + Len(u) + Len(v), w)
       /\ Lies(mem, Len(decoy) + Len(u) + Len(v) + Len(w), moduleParamsSignature)
  BY <1>12 DEF RowIn
<1>14. /\ Lies(mem, 0, decoy) /\ Lies(mem, 2, u) /\ Lies(mem, 2 + pre, v)
       /\ Lies(mem, half - 1, w) /\ Lies(mem, half, moduleParamsSignature)
  BY <1>1, <1>4, <1>6, <1>8, <1>13
<1>15. mem[0 + 1] = decoy[1] /\ mem[(half - 1) + 1] = w[1]
  BY <1>4, <1>8, <1>14 DEF Lies
<1>16. \A i \in 1..pre : mem[2 + i] = NULL
  BY <1>6, <1>7, <1>14 DEF Lies
<1>17. \A i \in 1..(PARAMS_HALVES - 1) : mem[(2 + pre) + i] = NULL
  BY <1>1, <1>6, <1>7, <1>14, ZenonT(60) DEF Lies
<1>18. ASSUME NEW i \in 3..(half - 1)
       PROVE  mem[i] = NULL
  <2>1. CASE i <= 2 + pre
    <3>1. i - 2 \in 1..pre /\ 2 + (i - 2) = i
      BY <2>1
    <3> QED
      BY <1>16, <3>1
  <2>2. CASE i > 2 + pre
    <3>1. i - (2 + pre) \in 1..(PARAMS_HALVES - 1) /\ (2 + pre) + (i - (2 + pre)) = i
      BY <1>1, <2>2
    <3> QED
      BY <1>17, <3>1
  <2> QED
    BY <2>1, <2>2
<1>19. mem[1] = moduleParamsSignature[1] /\ mem[half] = sdk
  BY <1>1, <1>4, <1>8, <1>15
<1> QED
  BY <1>10, <1>14, <1>18, <1>19 DEF ParamsIn, mem

(* The parameters are found where they are, if they are in the binary, and *)
(* their decoy never is.                                                   *)
LEMMA ParamsFound ==
  ASSUME NEW mem, NEW pre \in Int, NEW sdk \in Int, NEW words \in Int,
         pre \in Nat, pre % 2 = 0, words \in Nat, ParamsIn(mem, pre, sdk)
  PROVE  findOffset(mem, 1, words, moduleParamsSignature)
           = IF 2 * words > 2 + pre + PARAMS_HALVES THEN 2 + pre + PARAMS_HALVES + 1
             ELSE NULL
<1> DEFINE half == 2 + pre + PARAMS_HALVES
           n == half \div 2
           sig == moduleParamsSignature
<1>1. PARAMS_HALVES \in Nat /\ PARAMS_HALVES >= 1 /\ PARAMS_HALVES % 2 = 0
  BY ParamsAssumption
<1>2. half = 2 * n /\ n \in Nat /\ n >= 2 /\ half \in Nat
  BY <1>1
<1>3. sig \in Seq(Nat) /\ Len(sig) = 4 /\ sig[1] # NULL /\ sig[3] # NULL
  <2>1. sig \in Seq(Nat \ {NULL}) /\ Len(sig) = 4
    BY ParamsAssumption
  <2>2. \A i \in 1..Len(sig) : sig[i] \in Nat \ {NULL}
    BY <2>1, ElementOfSeq
  <2>3. sig \in Seq(Nat)
    BY <2>1
  <2> QED
    BY <2>1, <2>2, <2>3
<1> HIDE DEF half, sig, n
<1>4. /\ mem \in Seq(Nat) /\ Lies(mem, half, sig)
      /\ \A i \in 3..(half - 1) : mem[i] = NULL
  BY DEF ParamsIn, half, sig
<1>5. IsAt(mem, half + 1, sig)
  BY <1>2, <1>3, <1>4, LiesIsAt
<1>6. Avoids(mem, 1, 2, n, sig)
  <2>1. ASSUME NEW m \in 0..(n - 1)
        PROVE  ~IsAt(mem, 1 + (2 * m), sig)
    <3>1. CASE m = 0
      <4>1. 3 \in 3..(half - 1)
        BY <1>2
      <4>2. mem[3] # sig[3]
        BY <1>3, <1>4, <4>1
      <4>3. 3 \in 1..Len(sig) /\ (1 + (2 * m)) + 3 - 1 = 3
        BY <1>3, <3>1
      <4> QED
        BY <4>2, <4>3 DEF IsAt
    <3>2. CASE m # 0
      <4>1. 1 + (2 * m) \in 3..(half - 1)
        BY <1>2, <3>2
      <4>2. mem[1 + (2 * m)] # sig[1]
        BY <1>3, <1>4, <4>1
      <4>3. Len(sig) >= 1
        BY <1>3
      <4> QED
        BY <4>2, <4>3, NotAt
    <3> QED
      BY <3>1, <3>2
  <2> QED
    BY <2>1 DEF Avoids
<1>7. CASE 2 * words > half
  <2>1. n \in 0..(words - 1) /\ 1 + (2 * n) = half + 1
    BY <1>2, <1>7
  <2>2. memsearch(mem, 1, words, sig, 2) = 1 + (2 * n)
    BY <1>5, <1>6, <2>1, FoundAt
  <2> QED
    BY <1>7, <2>1, <2>2 DEF findOffset, half, sig
<1>8. CASE ~(2 * words > half)
  <2>1. \A m \in 0..(words - 1) : m \in 0..(n - 1)
    BY <1>2, <1>8
  <2>2. Avoids(mem, 1, 2, words, sig)
    BY <1>6, <2>1 DEF Avoids
  <2>3. memsearch(mem, 1, words, sig, 2) = NULL
    BY <2>2, FoundNowhere
  <2> QED
    BY <1>8, <2>3 DEF findOffset, half, sig
<1> QED
  BY <1>7, <1>8

-----------------------------------------------------------------------------
(* The sleep input.                                                        *)

(* The version of the binary that is not sdk's, whose constants are a      *)
(* decoy.                                                                  *)
Other(sdk) == IF sdk = FIRST_SDK5_VERSION THEN LAST_NON_SDK5_VERSION ELSE FIRST_SDK5_VERSION

(* A binary with the constants of both versions, the instruction before    *)
(* each.                                                                   *)
SleepIn(mem, kind, gap, sdk) ==
  LET own == sleepInputWriteEndSignature[sdk]
      other == sleepInputWriteEndSignature[Other(sdk)]
      code == SleepInstruction(kind)
  IN /\ mem \in Seq(Nat) /\ Len(mem) = 22 + (2 * gap)
     /\ \A i \in {1, 2, 9, 10} : mem[i] = NULL
     /\ \A i \in 1..4 : mem[2 + i] = other[i]
     /\ \A i \in 1..2 : mem[6 + i] = code[i] /\ mem[10 + i] = code[i]
     /\ \A i \in 1..(2 * gap) : mem[12 + i] = NULL
     /\ Lies(mem, 12 + (2 * gap), own)

(* The signatures are strings of words, of the lengths the searches use.   *)
LEMMA Signatures ==
  /\ \A sdk \in Versions :
       /\ Other(sdk) \in Versions
       /\ sleepInputWriteEndSignature[sdk] \in Seq(Nat)
       /\ Len(sleepInputWriteEndSignature[sdk]) = 4
  /\ \A kind \in Kinds :
       SleepInstruction(kind) \in Seq(Nat) /\ Len(SleepInstruction(kind)) = 2
<1>1. ASSUME NEW sdk \in Versions
      PROVE  /\ Other(sdk) \in Versions
             /\ sleepInputWriteEndSignature[sdk] \in Seq(Nat)
             /\ Len(sleepInputWriteEndSignature[sdk]) = 4
  <2>1. Other(sdk) \in Versions
    BY DEF Other, Versions
  <2>2. sleepInputWriteEndSignature[sdk] \in Seq(Words1)
    BY SleepAssumption
  <2>3. Len(sleepInputWriteEndSignature[sdk]) = 4
    BY SleepAssumption
  <2>4. sleepInputWriteEndSignature[sdk] \in Seq(Nat)
    BY <2>2 DEF Words1
  <2> QED
    BY <2>1, <2>3, <2>4
<1>2. ASSUME NEW kind \in Kinds
      PROVE  SleepInstruction(kind) \in Seq(Nat) /\ Len(SleepInstruction(kind)) = 2
  <2>1. CASE kind = "arm"
    <3>1. sleepInputWriteSignature \in Seq(Words1)
      BY SleepAssumption
    <3>2. Len(sleepInputWriteSignature) = 2
      BY SleepAssumption
    <3>3. sleepInputWriteSignature \in Seq(Nat)
      BY <3>1 DEF Words1
    <3> QED
      BY <2>1, <3>2, <3>3 DEF SleepInstruction
  <2>2. CASE kind = "arm2"
    <3>1. sleepInputWriteSignature2 \in Seq(Words1)
      BY SleepAssumption
    <3>2. Len(sleepInputWriteSignature2) = 2
      BY SleepAssumption
    <3>3. sleepInputWriteSignature2 \in Seq(Nat)
      BY <3>1 DEF Words1
    <3> QED
      BY <2>2, <3>2, <3>3 DEF SleepInstruction
  <2>3. CASE kind = "thumb"
    <3>1. sleepInputWriteBeqSignatureThumb \in Seq(Words1)
      BY SleepAssumption
    <3>2. Len(sleepInputWriteBeqSignatureThumb) = 1
      BY SleepAssumption
    <3>3. sleepInputWriteBeqSignatureThumb \in Seq(Nat)
      BY <3>1 DEF Words1
    <3>4. <<1>> \in Seq(Nat) /\ Len(<<1>>) = 1
      OBVIOUS
    <3>5. sleepInputWriteBeqSignatureThumb \o <<1>> \in Seq(Nat)
      BY <3>3, <3>4, Joined
    <3>6. Len(sleepInputWriteBeqSignatureThumb \o <<1>>) = 2
      BY <3>2, <3>3, <3>4, Joined
    <3>7. SleepInstruction(kind) = sleepInputWriteBeqSignatureThumb \o <<1>>
      BY <2>3 DEF SleepInstruction
    <3> QED
      BY <3>5, <3>6, <3>7
  <2> QED
    BY <2>1, <2>2, <2>3 DEF Kinds
<1> QED
  BY <1>1, <1>2

(* SleepMemory is such a binary.                                           *)
LEMMA SleepLies ==
  ASSUME NEW kind \in Kinds, NEW gap \in Nat, NEW sdk \in Versions
  PROVE  SleepIn(SleepMemory(kind, gap, sdk), kind, gap, sdk)
<1> DEFINE mem == SleepMemory(kind, gap, sdk)
           own == sleepInputWriteEndSignature[sdk]
           other == sleepInputWriteEndSignature[Other(sdk)]
           code == SleepInstruction(kind)
           two == Blank(2)
           none == Blank(0)
           body == Blank(2 * gap)
           one == code \o body \o own
           next == code \o none \o own
           row == Row(two, other, code, two, one)
<1>1. own \in Seq(Nat) /\ other \in Seq(Nat) /\ code \in Seq(Nat)
  BY Signatures
<1>2. Len(own) = 4 /\ Len(other) = 4 /\ Len(code) = 2
  BY Signatures
<1>3. two \in Seq(Nat) /\ body \in Seq(Nat) /\ none \in Seq(Nat)
  BY BlankIs
<1>4. Len(two) = 2 /\ Len(body) = 2 * gap /\ Len(none) = 0
  <2>1. Len(two) = 2
    BY BlankIs
  <2>2. Len(body) = 2 * gap
    BY BlankIs
  <2>3. Len(none) = 0
    BY BlankIs
  <2> QED
    BY <2>1, <2>2, <2>3
<1>5. (\A i \in 1..2 : two[i] = NULL) /\ (\A i \in 1..(2 * gap) : body[i] = NULL)
  BY BlankIs
<1>6. mem = row \o next
  BY DEF SleepMemory, Routine, Row, Other
<1> HIDE DEF mem, own, other, code, two, none, body
<1>7. one \in Seq(Nat) /\ next \in Seq(Nat)
  BY <1>1, <1>3, ThreeJoined
<1>8. /\ Len(one) = Len(code) + Len(body) + Len(own)
      /\ Len(next) = Len(code) + Len(none) + Len(own)
  BY <1>1, <1>3, ThreeJoined
<1> HIDE DEF one, next
<1>9. row \in Seq(Nat)
  BY <1>1, <1>3, <1>7, RowJoined
<1>10. Len(row) = Len(two) + Len(other) + Len(code) + Len(two) + Len(one)
  BY <1>1, <1>3, <1>7, RowJoined
<1> HIDE DEF row
<1>11. mem \in Seq(Nat)
  BY <1>6, <1>7, <1>9, Joined
<1>12. Len(mem) = Len(row) + Len(next)
  BY <1>6, <1>7, <1>9, Joined
<1>13. Len(mem) = 22 + (2 * gap)
  BY <1>2, <1>4, <1>8, <1>10, <1>12
<1>14. Lies(mem, 0, row)
  <2>1. Lies(mem, 0, row \o next) /\ Len(mem) \in Nat
    BY <1>6, <1>11, LiesItself, LenProperties
  <2> QED
    BY <1>7, <1>9, <2>1, LiesApart
<1>15. RowIn(mem, two, other, code, two, one)
  <2>1. Len(mem) \in Nat
    BY <1>11
  <2> QED
    BY <1>1, <1>3, <1>7, <1>14, <2>1, RowLies DEF row
<1>16. /\ Lies(mem, 0, two) /\ Lies(mem, Len(two), other)
       /\ Lies(mem, Len(two) + Len(other), code)
       /\ Lies(mem, Len(two) + Len(other) + Len(code), two)
       /\ Lies(mem, Len(two) + Len(other) + Len(code) + Len(two), one)
  BY <1>15 DEF RowIn
<1>17. /\ Lies(mem, 0, two) /\ Lies(mem, 2, other) /\ Lies(mem, 6, code)
       /\ Lies(mem, 8, two) /\ Lies(mem, 10, one)
  BY <1>2, <1>4, <1>16
<1>18. /\ Lies(mem, 10, code) /\ Lies(mem, 10 + Len(code), body)
       /\ Lies(mem, 10 + Len(code) + Len(body), own)
  <2>1. Lies(mem, 10, code \o body \o own) /\ Len(mem) \in Nat
    BY <1>11, <1>17 DEF one
  <2> QED
    BY <1>1, <1>3, <2>1, LiesInThree
<1>19. Lies(mem, 12, body) /\ Lies(mem, 12 + (2 * gap), own)
  BY <1>2, <1>4, <1>18
<1>20. /\ \A i \in 1..2 : mem[0 + i] = two[i]
       /\ \A i \in 1..2 : mem[8 + i] = two[i]
  BY <1>4, <1>17 DEF Lies
<1>21. /\ mem[0 + 1] = two[1] /\ mem[0 + 2] = two[2]
       /\ mem[8 + 1] = two[1] /\ mem[8 + 2] = two[2]
  BY <1>20
<1>22. two[1] = NULL /\ two[2] = NULL
  BY <1>5
<1>23. \A i \in {1, 2, 9, 10} : mem[i] = NULL
  BY <1>21, <1>22
<1>24. \A i \in 1..4 : mem[2 + i] = other[i]
  BY <1>2, <1>17 DEF Lies
<1>25. \A i \in 1..2 : mem[6 + i] = code[i]
  BY <1>2, <1>17 DEF Lies
<1>26. \A i \in 1..2 : mem[10 + i] = code[i]
  BY <1>2, <1>18 DEF Lies
<1>27. \A i \in 1..(2 * gap) : mem[12 + i] = NULL
  BY <1>4, <1>5, <1>19 DEF Lies
<1> QED
  BY <1>11, <1>13, <1>19, <1>23, <1>24, <1>25, <1>26, <1>27
     DEF SleepIn, mem, own, other, code

(* A word that the constants of neither routine have.                      *)
Foreign(word, sdk) ==
  /\ word # NULL
  /\ \A i \in 1..4 : /\ sleepInputWriteEndSignature[sdk][i] # word
                    /\ sleepInputWriteEndSignature[Other(sdk)][i] # word

(* A word that none of the constants has, and that the instruction does    *)
(* not have or lies after, is nowhere before the constants of the routine. *)
LEMMA SleepElsewhere ==
  ASSUME NEW mem, NEW kind, NEW sdk, NEW word, NEW gap \in Int, NEW p \in Int,
         kind \in Kinds, gap \in Nat, sdk \in Versions,
         SleepIn(mem, kind, gap, sdk), Foreign(word, sdk),
         p <= 13 + (2 * gap), p \in DOMAIN mem,
         \/ p > 12
         \/ p > 11 /\ SleepInstruction(kind)[2] # word
         \/ \A i \in 1..2 : SleepInstruction(kind)[i] # word
  PROVE  mem[p] # word
<1> DEFINE own == sleepInputWriteEndSignature[sdk]
           other == sleepInputWriteEndSignature[Other(sdk)]
           code == SleepInstruction(kind)
<1>1. /\ mem \in Seq(Nat)
      /\ \A i \in {1, 2, 9, 10} : mem[i] = NULL
      /\ \A i \in 1..4 : mem[2 + i] = other[i]
      /\ \A i \in 1..2 : mem[6 + i] = code[i] /\ mem[10 + i] = code[i]
      /\ \A i \in 1..(2 * gap) : mem[12 + i] = NULL
  BY DEF SleepIn
<1>2. mem[12 + (2 * gap) + 1] = own[1]
  <2>1. Lies(mem, 12 + (2 * gap), own)
    BY DEF SleepIn
  <2>2. Len(own) = 4
    BY Signatures
  <2> HIDE DEF own
  <2>3. \A i \in 1..4 : mem[12 + (2 * gap) + i] = own[i]
    BY <2>1, <2>2 DEF Lies
  <2> QED
    BY <2>3
<1>3. /\ \A i \in 1..4 : own[i] # word /\ other[i] # word
      /\ \/ p > 12
         \/ p > 11 /\ code[2] # word
         \/ \A i \in 1..2 : code[i] # word
      /\ word # NULL
  BY DEF Foreign
<1> HIDE DEF own, other, code
<1>4. p >= 1
  BY <1>1
<1>5. CASE p = 13 + (2 * gap)
  <2>1. mem[p] = own[1]
    BY <1>2, <1>5
  <2> QED
    BY <1>3, <2>1
<1>6. CASE p \in 13..(12 + (2 * gap))
  <2>1. p - 12 \in 1..(2 * gap) /\ 12 + (p - 12) = p
    BY <1>6
  <2> QED
    BY <1>1, <1>3, <2>1
<1>7. CASE p \in 11..12
  <2>1. p - 10 \in 1..2 /\ 10 + (p - 10) = p
    BY <1>7
  <2>2. mem[p] = code[p - 10]
    BY <1>1, <2>1
  <2>3. code[p - 10] # word
    <3>1. CASE p = 12 /\ code[2] # word
      BY <3>1
    <3>2. CASE \A i \in 1..2 : code[i] # word
      BY <2>1, <3>2
    <3> QED
      BY <1>3, <1>7, <3>1, <3>2
  <2> QED
    BY <2>2, <2>3
<1>8. CASE p \in 7..8
  <2>1. p - 6 \in 1..2 /\ 6 + (p - 6) = p
    BY <1>8
  <2>2. mem[p] = code[p - 6]
    BY <1>1, <2>1
  <2>3. code[p - 6] # word
    BY <1>3, <1>8, <2>1
  <2> QED
    BY <2>2, <2>3
<1>9. CASE p \in 3..6
  <2>1. p - 2 \in 1..4 /\ 2 + (p - 2) = p
    BY <1>9
  <2>2. mem[p] = other[p - 2]
    BY <1>1, <2>1
  <2> QED
    BY <1>3, <2>1, <2>2
<1>10. CASE p \in {1, 2, 9, 10}
  BY <1>1, <1>3, <1>10
<1> QED
  BY <1>4, <1>5, <1>6, <1>7, <1>8, <1>9, <1>10

(* What tells the signatures apart (SleepAssumption), for a given          *)
(* instruction.                                                            *)
LEMMA SleepWords ==
  ASSUME NEW kind \in Kinds, NEW sdk \in Versions
  PROVE  LET own == sleepInputWriteEndSignature[sdk]
             other == sleepInputWriteEndSignature[Other(sdk)]
             code == SleepInstruction(kind)
             first == {sleepInputWriteSignature[1], sleepInputWriteSignature2[1],
                       sleepInputWriteBeqSignatureThumb[1]}
         IN /\ \A word \in first :
                 /\ word # NULL
                 /\ \A i \in 1..4 : own[i] # word /\ other[i] # word
                 /\ word = code[1] \/ \A i \in 1..2 : code[i] # word
            /\ code[2] # sleepInputWriteBeqSignatureThumb[1]
            /\ code[1] \in first /\ code[1] # own[1] /\ own[1] # NULL
            /\ other[3] # own[1] /\ \E i \in 1..4 : other[i] # own[i]
<1> DEFINE own == sleepInputWriteEndSignature[sdk]
           other == sleepInputWriteEndSignature[Other(sdk)]
           arm == sleepInputWriteSignature
           arm2 == sleepInputWriteSignature2
           beq == sleepInputWriteBeqSignatureThumb
           code == SleepInstruction(kind)
           first == {arm[1], arm2[1], beq[1]}
<1>1. Other(sdk) \in Versions \ {sdk}
  BY DEF Other, Versions, LAST_NON_SDK5_VERSION, FIRST_SDK5_VERSION
<1>2. \A i \in 1..4 : own[i] \notin first /\ other[i] \notin first
  BY <1>1, SleepAssumption
<1>3. other[3] # own[1] /\ \E i \in 1..4 : other[i] # own[i]
  BY <1>1, SleepAssumption
<1>4. /\ arm[1] \in Words1 /\ arm2[1] \in Words1 /\ beq[1] \in Words1
      /\ own[1] \in Words1
  <2>1. arm \in Seq(Words1) /\ 1 \in 1..Len(arm)
    BY SleepAssumption
  <2>2. arm2 \in Seq(Words1) /\ 1 \in 1..Len(arm2)
    BY SleepAssumption
  <2>3. beq \in Seq(Words1) /\ 1 \in 1..Len(beq)
    BY SleepAssumption
  <2>4. own \in Seq(Words1) /\ 1 \in 1..Len(own)
    BY SleepAssumption
  <2>5. arm[1] \in Words1
    BY <2>1, ElementOfSeq
  <2>6. arm2[1] \in Words1
    BY <2>2, ElementOfSeq
  <2>7. beq[1] \in Words1
    BY <2>3, ElementOfSeq
  <2>8. own[1] \in Words1
    BY <2>4, ElementOfSeq
  <2> QED
    BY <2>5, <2>6, <2>7, <2>8
<1>5. /\ arm[1] \notin {arm2[1], arm2[2], beq[1]} /\ arm2[1] \notin {arm[2], beq[1]}
      /\ beq[1] \notin {arm[2], arm2[2]}
  BY SleepAssumption
<1>6. /\ code[1] \in first /\ code[2] # beq[1]
      /\ \A word \in first : word = code[1] \/ (word # code[1] /\ word # code[2])
  <2>1. CASE kind = "arm"
    BY <1>5, <2>1 DEF SleepInstruction
  <2>2. CASE kind = "arm2"
    BY <1>5, <2>2 DEF SleepInstruction
  <2>3. CASE kind = "thumb"
    <3>1. code = beq \o <<1>>
      BY <2>3 DEF SleepInstruction
    <3>2. beq \in Seq(Nat) /\ Len(beq) = 1 /\ <<1>> \in Seq(Nat) /\ Len(<<1>>) = 1
      BY SleepAssumption DEF Words1
    <3>3. code[1] = beq[1]
      BY <3>1, <3>2, Joined
    <3>4. code[2] = 1
      <4>1. (beq \o <<1>>)[Len(beq) + 1] = <<1>>[1]
        BY <3>2, Joined
      <4> QED
        BY <3>1, <3>2, <4>1
    <3> QED
      BY <1>4, <1>5, <3>3, <3>4 DEF Words1
  <2> QED
    BY <2>1, <2>2, <2>3 DEF Kinds
<1>7. \A word \in first : word = code[1] \/ \A i \in 1..2 : code[i] # word
  BY <1>6
<1>8. code[1] # own[1]
  BY <1>2, <1>6
<1> HIDE DEF code
<1> QED
  BY <1>2, <1>3, <1>4, <1>6, <1>7, <1>8 DEF Words1, code

(* The constants found are those of the first routine.                     *)
LEMMA EndFound ==
  ASSUME NEW mem, NEW kind \in Kinds, NEW gap \in Nat, NEW sdk \in Versions,
         SleepIn(mem, kind, gap, sdk)
  PROVE  findOffset(mem, 1, Len(mem) \div 2, sleepInputWriteEndSignature[sdk])
           = 13 + (2 * gap)
<1> DEFINE own == sleepInputWriteEndSignature[sdk]
           other == sleepInputWriteEndSignature[Other(sdk)]
           code == SleepInstruction(kind)
           n == 6 + gap
           size == Len(mem) \div 2
<1>1. /\ mem \in Seq(Nat)
      /\ \A i \in {1, 2, 9, 10} : mem[i] = NULL
      /\ \A i \in 1..4 : mem[2 + i] = other[i]
      /\ \A i \in 1..2 : mem[6 + i] = code[i] /\ mem[10 + i] = code[i]
      /\ \A i \in 1..(2 * gap) : mem[12 + i] = NULL
      /\ Lies(mem, 12 + (2 * gap), own)
  BY DEF SleepIn
<1>2. size = 11 + gap
  <2>1. Len(mem) = 22 + (2 * gap)
    BY DEF SleepIn
  <2> QED
    BY <2>1
<1>3. own \in Seq(Nat) /\ Len(own) = 4
  BY Signatures
<1>4. /\ code[1] # own[1] /\ own[1] # NULL /\ other[3] # own[1]
      /\ \E i \in 1..4 : other[i] # own[i]
  BY SleepWords
<1> HIDE DEF own, other, code, size
<1>5. Len(own) >= 1 /\ Len(own) = 4
  BY <1>3
<1>6. IsAt(mem, 13 + (2 * gap), own)
  <2>1. 12 + (2 * gap) \in Int /\ 12 + (2 * gap) >= 0
    OBVIOUS
  <2>2. IsAt(mem, (12 + (2 * gap)) + 1, own)
    BY <1>1, <1>3, <2>1, LiesIsAt
  <2> QED
    BY <2>2
<1>7. /\ mem[1] = NULL /\ mem[9] = NULL
      /\ mem[5] = other[3] /\ mem[7] = code[1] /\ mem[11] = code[1]
  <2>1. mem[2 + 3] = other[3] /\ mem[6 + 1] = code[1] /\ mem[10 + 1] = code[1]
    BY <1>1
  <2> QED
    BY <1>1, <2>1
<1>8. Avoids(mem, 1, 2, n, own)
  <2>1. ASSUME NEW m \in 0..(n - 1)
        PROVE  ~IsAt(mem, 1 + (2 * m), own)
    <3>1. CASE m = 1
      <4>1. PICK i \in 1..4 : other[i] # own[i]
        BY <1>4
      <4>2. mem[2 + i] # own[i]
        BY <1>1, <4>1
      <4>3. (1 + (2 * m)) + i - 1 = 2 + i /\ i \in 1..Len(own)
        BY <1>5, <3>1
      <4> QED
        BY <4>2, <4>3 DEF IsAt
    <3>2. CASE m \in {0, 2, 3, 4, 5}
      <4> DEFINE p == 1 + (2 * m)
      <4>1. p \in Int /\ p \in {1, 5, 7, 9, 11}
        BY <3>2
      <4>2. Len(own) >= 1
        BY <1>5
      <4> HIDE DEF p
      <4>3. mem[p] # own[1]
        BY <1>4, <1>7, <4>1
      <4>4. ~IsAt(mem, p, own)
        BY <4>1, <4>2, <4>3, NotAt
      <4> QED
        BY <4>4 DEF p
    <3>3. CASE m >= 6
      <4> DEFINE j == (2 * m) - 11
      <4>1. j \in 1..(2 * gap) /\ j \in Int
        BY <3>3
      <4>2. 12 + j = 1 + (2 * m)
        OBVIOUS
      <4> HIDE DEF j
      <4>3. mem[12 + j] # own[1]
        BY <1>1, <1>4, <4>1
      <4>4. Len(own) >= 1
        BY <1>5
      <4>5. ~IsAt(mem, 12 + j, own)
        BY <4>1, <4>3, <4>4, NotAt
      <4> QED
        BY <4>2, <4>5
    <3> QED
      BY <3>1, <3>2, <3>3
  <2> QED
    BY <2>1 DEF Avoids
<1>9. n \in 0..(size - 1) /\ 1 + (2 * n) = 13 + (2 * gap) /\ size \in Int
  BY <1>2
<1>10. memsearch(mem, 1, size, own, 2) = 1 + (2 * n)
  BY <1>6, <1>8, <1>9, FoundAt
<1> QED
  BY <1>9, <1>10 DEF findOffset, own, size

(* A search back from there for an instruction finds it in the routine, if *)
(* that is its own and near enough, or nothing.                            *)
LEMMA BackFound ==
  ASSUME NEW mem, NEW kind \in Kinds, NEW gap \in Nat, NEW sdk \in Versions,
         SleepIn(mem, kind, gap, sdk),
         NEW find \in {sleepInputWriteSignature, sleepInputWriteSignature2},
         NEW span \in Nat
  PROVE  findOffsetBackwards(mem, 13 + (2 * gap), span, find)
           = IF find = SleepInstruction(kind) /\ gap + 1 < span THEN 11 ELSE NULL
<1> DEFINE code == SleepInstruction(kind)
           end == 13 + (2 * gap)
           own == sleepInputWriteEndSignature[sdk]
           other == sleepInputWriteEndSignature[Other(sdk)]
<1>1. find \in Seq(Nat) /\ Len(find) = 2
  BY SleepAssumption DEF Words1
<1>2. /\ Foreign(find[1], sdk)
      /\ find[1] = code[1] \/ \A i \in 1..2 : code[i] # find[1]
  BY SleepWords DEF Foreign
<1>3. find[1] = code[1] => find = code
  <2>1. sleepInputWriteSignature[1] # sleepInputWriteSignature2[1]
    BY SleepAssumption
  <2>2. /\ sleepInputWriteSignature[1] # sleepInputWriteBeqSignatureThumb[1]
        /\ sleepInputWriteSignature2[1] # sleepInputWriteBeqSignatureThumb[1]
    BY SleepAssumption
  <2>3. CASE kind = "arm"
    BY <2>1, <2>3 DEF SleepInstruction
  <2>4. CASE kind = "arm2"
    BY <2>1, <2>4 DEF SleepInstruction
  <2>5. CASE kind = "thumb"
    <3>1. code = sleepInputWriteBeqSignatureThumb \o <<1>>
      BY <2>5 DEF SleepInstruction
    <3>2. /\ sleepInputWriteBeqSignatureThumb \in Seq(Nat)
          /\ Len(sleepInputWriteBeqSignatureThumb) = 1
          /\ <<1>> \in Seq(Nat)
      BY SleepAssumption DEF Words1
    <3>3. code[1] = sleepInputWriteBeqSignatureThumb[1]
      BY <3>1, <3>2, Joined
    <3> QED
      BY <2>2, <3>3
  <2> QED
    BY <2>3, <2>4, <2>5 DEF Kinds
<1>4. ASSUME NEW n \in Nat, n <= gap + 1 \/ \A i \in 1..2 : code[i] # find[1]
      PROVE  Avoids(mem, end, -2, n, find)
  <2>1. ASSUME NEW m \in 0..(n - 1)
        PROVE  ~IsAt(mem, end + ((-2) * m), find)
    <3> DEFINE p == end + ((-2) * m)
    <3>1. p \in Int /\ p <= 13 + (2 * gap)
      OBVIOUS
    <3>2. p > 12 \/ \A i \in 1..2 : code[i] # find[1]
      BY <1>4
    <3>3. p \in DOMAIN mem => mem[p] # find[1]
      BY <1>2, <3>1, <3>2, SleepElsewhere
    <3>4. Len(find) >= 1
      BY <1>1
    <3> HIDE DEF p
    <3>5. ~IsAt(mem, p, find)
      BY <3>1, <3>3, <3>4, NotAt
    <3> QED
      BY <3>5 DEF p
  <2> QED
    BY <2>1 DEF Avoids
<1>5. CASE find = code /\ gap + 1 < span
  <2>1. Avoids(mem, end, -2, gap + 1, find)
    BY <1>4
  <2>2. IsAt(mem, end + ((-2) * (gap + 1)), find)
    <3>1. /\ mem \in Seq(Nat) /\ Len(mem) = 22 + (2 * gap)
          /\ \A i \in 1..2 : mem[10 + i] = code[i]
      BY DEF SleepIn
    <3>2. mem[10 + 1] = find[1] /\ mem[10 + 2] = find[2]
      BY <1>5, <3>1
    <3>3. IsAt(mem, 11, find)
      BY <1>1, <3>1, <3>2 DEF IsAt
    <3>4. 11 = end + ((-2) * (gap + 1))
      OBVIOUS
    <3> QED
      BY <3>3, <3>4
  <2>3. gap + 1 \in 0..(span - 1) /\ end \in Int /\ -2 \in Int
    BY <1>5
  <2> HIDE DEF end
  <2>4. memsearch(mem, end, span, find, -2) = end + ((-2) * (gap + 1))
    BY <2>1, <2>2, <2>3, FoundAt
  <2>5. end + ((-2) * (gap + 1)) = 11
    BY DEF end
  <2> QED
    BY <1>5, <2>4, <2>5 DEF findOffsetBackwards, end
<1>6. CASE ~(find = code /\ gap + 1 < span)
  <2>1. Avoids(mem, end, -2, span, find)
    <3>1. span <= gap + 1 \/ \A i \in 1..2 : code[i] # find[1]
      BY <1>2, <1>3, <1>6
    <3> QED
      BY <1>4, <3>1
  <2>2. end \in Int /\ -2 \in Int
    OBVIOUS
  <2> HIDE DEF end
  <2>3. memsearch(mem, end, span, find, -2) = NULL
    BY <2>1, <2>2, FoundNowhere
  <2> QED
    BY <1>6, <2>3 DEF findOffsetBackwards, end
<1> QED
  BY <1>5, <1>6

(* And back for the branch of Thumb code.                                  *)
LEMMA ThumbFound ==
  ASSUME NEW mem, NEW kind \in Kinds, NEW gap \in Nat, NEW sdk \in Versions,
         SleepIn(mem, kind, gap, sdk), NEW span \in Nat
  PROVE  findOffsetBackwardsThumb(mem, 13 + (2 * gap), span,
                                  sleepInputWriteBeqSignatureThumb)
           = IF kind = "thumb" /\ 2 * (gap + 1) < span THEN 11 ELSE NULL
<1> DEFINE code == SleepInstruction(kind)
           end == 13 + (2 * gap)
           find == sleepInputWriteBeqSignatureThumb
           own == sleepInputWriteEndSignature[sdk]
           other == sleepInputWriteEndSignature[Other(sdk)]
<1>1. find \in Seq(Nat) /\ Len(find) = 1
  BY SleepAssumption DEF Words1
<1>2. /\ Foreign(find[1], sdk)
      /\ find[1] = code[1] \/ \A i \in 1..2 : code[i] # find[1]
      /\ code[2] # find[1]
  BY SleepWords DEF Foreign
<1>3. kind = "thumb" <=> find[1] = code[1]
  <2>1. find[1] # sleepInputWriteSignature[1] /\ find[1] # sleepInputWriteSignature2[1]
    BY SleepAssumption
  <2>2. CASE kind = "thumb"
    <3>1. code = find \o <<1>> /\ <<1>> \in Seq(Nat)
      BY <2>2 DEF SleepInstruction
    <3> HIDE DEF find
    <3>2. (find \o <<1>>)[1] = find[1]
      BY <1>1, <3>1, Joined
    <3> QED
      BY <2>2, <3>1, <3>2
  <2>3. CASE kind = "arm"
    BY <2>1, <2>3 DEF SleepInstruction
  <2>4. CASE kind = "arm2"
    BY <2>1, <2>4 DEF SleepInstruction
  <2> QED
    BY <2>2, <2>3, <2>4 DEF Kinds
<1>4. ASSUME NEW n \in Nat, n <= 2 * (gap + 1) \/ \A i \in 1..2 : code[i] # find[1]
      PROVE  Avoids(mem, end, -1, n, find)
  <2>1. ASSUME NEW m \in 0..(n - 1)
        PROVE  ~IsAt(mem, end + ((-1) * m), find)
    <3> DEFINE p == end + ((-1) * m)
    <3>1. p \in Int /\ p <= 13 + (2 * gap)
      OBVIOUS
    <3>2. p > 11 \/ \A i \in 1..2 : code[i] # find[1]
      BY <1>4
    <3>3. p \in DOMAIN mem => mem[p] # find[1]
      BY <1>2, <3>1, <3>2, SleepElsewhere
    <3>4. Len(find) >= 1
      BY <1>1
    <3> HIDE DEF p
    <3>5. ~IsAt(mem, p, find)
      BY <3>1, <3>3, <3>4, NotAt
    <3> QED
      BY <3>5 DEF p
  <2> QED
    BY <2>1 DEF Avoids
<1>5. CASE kind = "thumb" /\ 2 * (gap + 1) < span
  <2> DEFINE n == 2 * (gap + 1)
  <2>1. Avoids(mem, end, -1, n, find)
    BY <1>4
  <2>2. IsAt(mem, end + ((-1) * n), find)
    <3>1. /\ mem \in Seq(Nat) /\ Len(mem) = 22 + (2 * gap)
          /\ mem[10 + 1] = code[1]
      BY DEF SleepIn
    <3>2. mem[10 + 1] = find[1]
      BY <1>3, <1>5, <3>1
    <3>3. IsAt(mem, 11, find)
      BY <1>1, <3>1, <3>2 DEF IsAt
    <3>4. 11 = end + ((-1) * n)
      OBVIOUS
    <3> QED
      BY <3>3, <3>4
  <2>3. n \in 0..(span - 1) /\ end \in Int /\ -1 \in Int
    BY <1>5
  <2>4. end + ((-1) * n) = 11
    OBVIOUS
  <2> HIDE DEF end, n
  <2>5. memsearch(mem, end, span, find, -1) = end + ((-1) * n)
    BY <2>1, <2>2, <2>3, FoundAt
  <2> QED
    BY <1>5, <2>4, <2>5 DEF findOffsetBackwardsThumb, end
<1>6. CASE ~(kind = "thumb" /\ 2 * (gap + 1) < span)
  <2>1. Avoids(mem, end, -1, span, find)
    <3>1. span <= 2 * (gap + 1) \/ \A i \in 1..2 : code[i] # find[1]
      BY <1>2, <1>3, <1>6
    <3> QED
      BY <1>4, <3>1
  <2>2. end \in Int /\ -1 \in Int
    OBVIOUS
  <2> HIDE DEF end
  <2>3. memsearch(mem, end, span, find, -1) = NULL
    BY <2>1, <2>2, FoundNowhere
  <2> QED
    BY <1>6, <2>3 DEF findOffsetBackwardsThumb, end
<1> QED
  BY <1>5, <1>6

(* The whole of the sleep patch.                                           *)
LEMMA SleepIsPatched ==
  ASSUME NEW kind \in Kinds, NEW gap \in Nat, NEW sdk \in Versions,
         NEW sleepMode \in BOOLEAN,
         NEW mem, mem = SleepMemory(kind, gap, sdk)
  PROVE  patchSleepInputWrite(mem, [at |-> 1, size |-> Len(mem) \div 2], sdk, sleepMode)
           = IF ~sleepMode /\ SleepFound(kind, gap) THEN SleepPatched(kind, gap, sdk)
             ELSE mem
<1>1. SleepIn(mem, kind, gap, sdk)
  BY SleepLies
<1> DEFINE arm7 == [at |-> 1, size |-> Len(mem) \div 2]
           end == 13 + (2 * gap)
           arm == findOffsetBackwards(mem, end, SleepSpan[1], sleepInputWriteSignature)
           arm2 == findOffsetBackwards(mem, end, SleepSpan[2], sleepInputWriteSignature2)
           thumb == findOffsetBackwardsThumb(mem, end, SleepSpan[3],
                                             sleepInputWriteBeqSignatureThumb)
           offset == findSleepInputWriteOffset(mem, arm7, sdk)
<1>2. findOffset(mem, arm7.at, arm7.size, sleepInputWriteEndSignature[sdk]) = end
  BY <1>1, EndFound
<1>3. SleepSpan[1] \in Nat /\ SleepSpan[2] \in Nat /\ SleepSpan[3] \in Nat
  BY SleepAssumption
<1>4. /\ kind = "arm" <=> sleepInputWriteSignature = SleepInstruction(kind)
      /\ kind = "arm2" <=> sleepInputWriteSignature2 = SleepInstruction(kind)
  <2>1. sleepInputWriteSignature[1] # sleepInputWriteSignature2[1]
    BY SleepAssumption
  <2>2. kind = "thumb" => /\ sleepInputWriteSignature # SleepInstruction(kind)
                         /\ sleepInputWriteSignature2 # SleepInstruction(kind)
    <3> SUFFICES ASSUME kind = "thumb"
                 PROVE  /\ sleepInputWriteSignature # SleepInstruction(kind)
                        /\ sleepInputWriteSignature2 # SleepInstruction(kind)
      OBVIOUS
    <3>1. SleepInstruction(kind) = sleepInputWriteBeqSignatureThumb \o <<1>>
      BY DEF SleepInstruction
    <3>2. /\ sleepInputWriteBeqSignatureThumb \in Seq(Nat)
          /\ Len(sleepInputWriteBeqSignatureThumb) = 1
          /\ <<1>> \in Seq(Nat)
      BY SleepAssumption DEF Words1
    <3>3. (sleepInputWriteBeqSignatureThumb \o <<1>>)[1]
             = sleepInputWriteBeqSignatureThumb[1]
      BY <3>2, Joined
    <3>4. /\ sleepInputWriteSignature[1] # sleepInputWriteBeqSignatureThumb[1]
          /\ sleepInputWriteSignature2[1] # sleepInputWriteBeqSignatureThumb[1]
      BY SleepAssumption
    <3> QED
      BY <3>1, <3>3, <3>4
  <2>3. kind = "arm" => /\ sleepInputWriteSignature = SleepInstruction(kind)
                       /\ sleepInputWriteSignature2 # SleepInstruction(kind)
    BY <2>1 DEF SleepInstruction
  <2>4. kind = "arm2" => /\ sleepInputWriteSignature # SleepInstruction(kind)
                        /\ sleepInputWriteSignature2 = SleepInstruction(kind)
    BY <2>1 DEF SleepInstruction
  <2> QED
    BY <2>2, <2>3, <2>4 DEF Kinds
<1>5. arm = IF kind = "arm" /\ gap + 1 < SleepSpan[1] THEN 11 ELSE NULL
  BY <1>1, <1>3, <1>4, BackFound
<1>6. arm2 = IF kind = "arm2" /\ gap + 1 < SleepSpan[2] THEN 11 ELSE NULL
  BY <1>1, <1>3, <1>4, BackFound
<1>7. thumb = IF kind = "thumb" /\ 2 * (gap + 1) < SleepSpan[3] THEN 11 ELSE NULL
  BY <1>1, <1>3, ThumbFound
<1>8. offset = CASE end = NULL -> [at |-> NULL, isArm |-> TRUE]
                [] end # NULL /\ arm # NULL -> [at |-> arm, isArm |-> TRUE]
                [] end # NULL /\ arm = NULL /\ arm2 # NULL -> [at |-> arm2, isArm |-> TRUE]
                [] OTHER -> [at |-> IF thumb = NULL THEN NULL ELSE thumb + 1,
                             isArm |-> FALSE]
  BY <1>2 DEF findSleepInputWriteOffset
<1>9. end # NULL
  BY DEF NULL
<1> HIDE DEF end, arm, arm2, thumb, offset, arm7
<1>10. patchSleepInputWrite(mem, arm7, sdk, sleepMode)
        = IF sleepMode \/ offset.at = NULL THEN mem
          ELSE IF offset.isArm THEN [mem EXCEPT ![offset.at] = Nop[1],
                                                ![offset.at + 1] = Nop[2]]
          ELSE [mem EXCEPT ![offset.at] = NopThumb]
  BY DEF patchSleepInputWrite, offset
<1>11. CASE ~SleepFound(kind, gap)
  <2>1. arm = NULL /\ arm2 = NULL /\ thumb = NULL
    BY <1>5, <1>6, <1>7, <1>11 DEF SleepFound
  <2>2. offset.at = NULL
    BY <1>8, <1>9, <2>1
  <2> QED
    BY <1>10, <1>11, <2>2 DEF arm7
<1>12. CASE SleepFound(kind, gap)
  <2>1. CASE kind \in {"arm", "arm2"}
    <3>1. offset.at = 11 /\ offset.isArm
      <4>1. CASE kind = "arm"
        <5>1. arm = 11 /\ arm # NULL
          BY <1>5, <1>12, <4>1 DEF SleepFound, NULL
        <5>2. offset = [at |-> arm, isArm |-> TRUE]
          BY <1>8, <1>9, <5>1
        <5> QED
          BY <5>1, <5>2
      <4>2. CASE kind = "arm2"
        <5>1. arm = NULL /\ arm2 = 11 /\ arm2 # NULL
          BY <1>5, <1>6, <1>12, <4>2 DEF SleepFound, NULL
        <5>2. offset = [at |-> arm2, isArm |-> TRUE]
          BY <1>8, <1>9, <5>1
        <5> QED
          BY <5>1, <5>2
      <4> QED
        BY <2>1, <4>1, <4>2
    <3>2. SleepPatched(kind, gap, sdk) = [mem EXCEPT ![11] = Nop[1], ![11 + 1] = Nop[2]]
      BY <2>1 DEF SleepPatched, SleepPlace
    <3> QED
      BY <1>10, <1>12, <3>1, <3>2 DEF NULL, arm7
  <2>2. CASE kind = "thumb"
    <3>1. offset.at = 11 + 1 /\ ~offset.isArm
      <4>1. arm = NULL /\ arm2 = NULL /\ thumb = 11 /\ thumb # NULL
        BY <1>5, <1>6, <1>7, <1>12, <2>2 DEF SleepFound, NULL
      <4>2. offset = [at |-> IF thumb = NULL THEN NULL ELSE thumb + 1, isArm |-> FALSE]
        BY <1>8, <1>9, <4>1
      <4> QED
        BY <4>1, <4>2
    <3>2. SleepPatched(kind, gap, sdk) = [mem EXCEPT ![11 + 1] = NopThumb]
      BY <2>2 DEF SleepPatched, SleepPlace
    <3> QED
      BY <1>10, <1>12, <3>1, <3>2 DEF NULL, arm7
  <2> QED
    BY <2>1, <2>2 DEF Kinds
<1> QED
  BY <1>11, <1>12 DEF arm7

(* A handler and what is around it, in six parts.                          *)
Six(a, b, c, d, e, f) == a \o (b \o c \o d \o e) \o f

(* Each part lies behind those before it.                                  *)
LEMMA SixParts ==
  ASSUME NEW mem, NEW a, NEW b, NEW c, NEW d, NEW e, NEW f,
         mem = Six(a, b, c, d, e, f),
         a \in Seq(Nat), b \in Seq(Nat), c \in Seq(Nat),
         d \in Seq(Nat), e \in Seq(Nat), f \in Seq(Nat)
  PROVE  /\ mem \in Seq(Nat)
         /\ Len(mem) = Len(a) + Len(b) + Len(c) + Len(d) + Len(e) + Len(f)
         /\ Lies(mem, 0, a) /\ Lies(mem, Len(a), b) /\ Lies(mem, Len(a) + Len(b), c)
         /\ Lies(mem, Len(a) + Len(b) + Len(c), d)
         /\ Lies(mem, Len(a) + Len(b) + Len(c) + Len(d), e)
<1> DEFINE bcd == b \o c \o d
           inner == bcd \o e
<1>1. bcd \in Seq(Nat) /\ Len(bcd) = Len(b) + Len(c) + Len(d)
  BY ThreeJoined
<1>2. inner \in Seq(Nat) /\ Len(inner) = Len(bcd) + Len(e)
  <2> HIDE DEF bcd
  <2> QED
    BY <1>1, Joined
<1>3. mem \in Seq(Nat) /\ Len(mem) = Len(a) + Len(inner) + Len(f)
  <2>1. inner \in Seq(Nat)
    BY <1>2
  <2>2. mem = a \o inner \o f
    BY DEF Six
  <2> HIDE DEF inner
  <2>3. a \o inner \o f \in Seq(Nat)
    BY <2>1, ThreeJoined
  <2>4. Len(a \o inner \o f) = Len(a) + Len(inner) + Len(f)
    BY <2>1, ThreeJoined
  <2> QED
    BY <2>2, <2>3, <2>4
<1>4. /\ Len(a) \in Nat /\ Len(b) \in Nat /\ Len(c) \in Nat /\ Len(d) \in Nat
      /\ Len(e) \in Nat /\ Len(f) \in Nat
  OBVIOUS
<1>5. Lies(mem, 0, a) /\ Lies(mem, Len(a), inner)
  <2>1. mem = a \o inner \o f /\ Lies(mem, 0, mem)
    BY LiesItself DEF Six
  <2> HIDE DEF inner
  <2>2. Lies(mem, 0, a \o inner \o f) /\ Len(mem) \in Nat
    BY <1>2, <1>3, <1>4, <2>1
  <2>3. Lies(mem, 0, a) /\ Lies(mem, 0 + Len(a), inner)
    BY <1>2, <2>2, LiesInThree
  <2> QED
    BY <1>4, <2>3
<1>6. Len(mem) \in Nat
  BY <1>3, LenProperties
<1>7. Lies(mem, Len(a), bcd) /\ Lies(mem, Len(a) + Len(bcd), e)
  <2>1. Lies(mem, Len(a), bcd \o e) /\ Len(a) \in Int /\ Len(a) >= 0
    BY <1>4, <1>5
  <2>2. bcd \in Seq(Nat)
    BY <1>1
  <2> HIDE DEF bcd, inner
  <2> QED
    BY <1>6, <2>1, <2>2, LiesApart
<1>8. /\ Lies(mem, Len(a), b) /\ Lies(mem, Len(a) + Len(b), c)
      /\ Lies(mem, Len(a) + Len(b) + Len(c), d)
  BY <1>4, <1>6, <1>7, LiesInThree
<1>9. Len(a) + Len(bcd) = Len(a) + Len(b) + Len(c) + Len(d)
  BY <1>1, <1>4
<1>10. Len(mem) = Len(a) + Len(b) + Len(c) + Len(d) + Len(e) + Len(f)
  BY <1>1, <1>2, <1>3, <1>4
<1> QED
  BY <1>3, <1>5, <1>7, <1>8, <1>9, <1>10

(* A handler in a binary: its start, its body, its end, the address of the *)
(* table and where it was linked.                                          *)
HandlerIn(mem, pre, body, table, linked, after) ==
  LET s == pre + Len(handlerStartSig)
      e == s + body + Len(handlerEndSig)
  IN /\ mem \in Seq(Nat) /\ Len(mem) = e + 2 + Len(after)
     /\ Lies(mem, 0, Blank(pre)) /\ Lies(mem, pre, handlerStartSig)
     /\ Lies(mem, s, Blank(body)) /\ Lies(mem, s + body, handlerEndSig)
     /\ mem[e + 1] = table + linked /\ mem[e + 2] = e + 3 + linked

(* A handler in the binary is what HandlerMemory says.                     *)
LEMMA HandlerLies ==
  ASSUME NEW after, NEW pre \in Int, NEW body \in Int, NEW table \in Int,
         NEW linked \in Int,
         pre \in Nat, body \in Nat, table \in Nat, linked \in Nat, after \in Seq(Nat)
  PROVE  HandlerIn(HandlerMemory(pre, body, table, linked, after),
                   pre, body, table, linked, after)
<1> DEFINE size == pre + Len(handlerStartSig) + body + Len(handlerEndSig) + 2
           addresses == <<table + linked, size + 1 + linked>>
           mem == HandlerMemory(pre, body, table, linked, after)
           u == Blank(pre)
           v == Blank(body)
           l == Len(handlerStartSig)
           r == Len(handlerEndSig)
<1>1. /\ handlerStartSig \in Seq(Nat) /\ handlerEndSig \in Seq(Nat)
      /\ l \in Nat /\ r \in Nat
  BY HandlerAssumption
<1>2. u \in Seq(Nat) /\ v \in Seq(Nat)
  BY BlankIs
<1>3. addresses \in Seq(Nat)
  BY <1>1
<1>4. /\ Len(addresses) = 2 /\ addresses[1] = table + linked
      /\ addresses[2] = size + 1 + linked
  OBVIOUS
<1>5. mem = Six(u, handlerStartSig, v, handlerEndSig, addresses, after)
  BY DEF HandlerMemory, Handler, Six
<1> HIDE DEF addresses, mem, u, v
<1>6. /\ Lies(mem, 0, u) /\ Lies(mem, Len(u), handlerStartSig)
      /\ Lies(mem, Len(u) + l, v)
      /\ Lies(mem, Len(u) + l + Len(v), handlerEndSig)
      /\ Lies(mem, Len(u) + l + Len(v) + r, addresses)
  BY <1>1, <1>2, <1>3, <1>5, SixParts
<1>7. /\ Len(mem) = Len(u) + l + Len(v) + r + Len(addresses) + Len(after)
      /\ mem \in Seq(Nat)
  BY <1>1, <1>2, <1>3, <1>5, SixParts
<1>8. Len(u) = pre /\ Len(v) = body
  BY BlankIs DEF u, v
<1> DEFINE s == pre + l
           e == s + body + r
<1>9. /\ Lies(mem, 0, u) /\ Lies(mem, pre, handlerStartSig)
      /\ Lies(mem, s, v) /\ Lies(mem, s + body, handlerEndSig)
      /\ Lies(mem, e, addresses)
  BY <1>6, <1>8
<1>10. Len(mem) = e + 2 + Len(after)
  BY <1>4, <1>7, <1>8
<1>11. mem[e + 1] = addresses[1] /\ mem[e + 2] = addresses[2]
  BY <1>4, <1>9 DEF Lies
<1>12. mem[e + 1] = table + linked /\ mem[e + 2] = e + 3 + linked
  BY <1>1, <1>4, <1>11
<1> QED
  BY <1>7, <1>9, <1>10, <1>12 DEF HandlerIn, mem, u, v

(* The table of a handler in the binary is found, if it ends soon enough.  *)
LEMMA HandlerFound ==
  ASSUME NEW pre \in Nat, NEW body \in Nat, NEW table \in Nat, NEW linked \in Nat,
         NEW after \in Seq(Nat),
         NEW mem, HandlerIn(mem, pre, body, table, linked, after)
  PROVE  hookInterruptHandler(mem, 1, Len(mem) - Len(after))
           = IF Len(handlerStartSig) + body < MAX_HANDLER_SIZE THEN table ELSE NULL
<1> DEFINE l == Len(handlerStartSig)
           r == Len(handlerEndSig)
           s == pre + l
           e == s + body + r
           size == Len(mem) - Len(after)
           start == memsearch(mem, 1, size, handlerStartSig, 1)
<1>1. l \in Nat \ {0} /\ r \in Nat \ {0} /\ MAX_HANDLER_SIZE \in Nat
  BY HandlerAssumption, EmptySeq, LenProperties
<1>2. /\ handlerStartSig[1] # NULL /\ handlerEndSig[1] # NULL
      /\ \A i \in 1..l : handlerStartSig[i] # handlerEndSig[1]
      /\ handlerStartSig \in Seq(Nat) /\ handlerEndSig \in Seq(Nat)
  BY <1>1, HandlerAssumption
<1>3. Len(after) \in Nat
  BY LenProperties
<1>4. /\ Lies(mem, 0, Blank(pre)) /\ Lies(mem, pre, handlerStartSig)
      /\ Lies(mem, s, Blank(body)) /\ Lies(mem, s + body, handlerEndSig)
      /\ mem \in Seq(Nat)
  BY DEF HandlerIn
<1>5. /\ mem[e + 1] = table + linked /\ mem[e + 2] = e + 3 + linked
      /\ Len(mem) = e + 2 + Len(after)
  BY DEF HandlerIn
<1>6. s = pre + l /\ e = s + body + r /\ s \in Nat /\ e \in Nat
  BY <1>1
<1>7. s \in Nat /\ e \in Nat
  BY <1>1
<1>8. Len(handlerStartSig) >= 1 /\ Len(handlerEndSig) >= 1
  BY <1>1
<1> HIDE DEF s, e
<1>9. /\ Len(Blank(pre)) = pre /\ \A i \in 1..pre : Blank(pre)[i] = NULL
      /\ Len(Blank(body)) = body /\ \A i \in 1..body : Blank(body)[i] = NULL
  BY BlankIs
<1>10. \A i \in 1..pre : mem[i] = NULL
  BY <1>4, <1>9 DEF Lies
<1>11. \A i \in 1..body : mem[s + i] = NULL
  BY <1>6, <1>4, <1>9 DEF Lies
<1>12. \A i \in 1..l : mem[pre + i] = handlerStartSig[i]
  BY <1>4 DEF Lies
<1>13. size = e + 2 /\ size \in Nat
  BY <1>3, <1>6, <1>5
<1> HIDE DEF l, r, size
<1>14. start = 1 + pre
  <2>1. IsAt(mem, 1 + pre, handlerStartSig)
    BY <1>2, <1>4, LiesIsAt
  <2>2. Avoids(mem, 1, 1, pre, handlerStartSig)
    <3>1. ASSUME NEW m \in 0..(pre - 1)
          PROVE  ~IsAt(mem, 1 + m, handlerStartSig)
      <4>1. mem[1 + m] = NULL
        <5>1. 1 + m \in 1..pre
          OBVIOUS
        <5> QED
          BY <1>10, <5>1
      <4> QED
        BY <1>8, <1>2, <4>1, NotAt
    <3> QED
      BY <3>1 DEF Avoids
  <2>3. pre \in 0..(size - 1)
    BY <1>1, <1>6, <1>13 DEF s, e
  <2>4. start = 1 + (1 * pre)
    BY <1>13, <2>1, <2>2, <2>3, FoundAt
  <2> QED
    BY <2>4
<1> DEFINE from == pre + 1
           n == l + body
<1>15. from = 1 + pre /\ n = l + body
  BY <1>1
<1>16. from \in Nat /\ n \in Nat
  BY <1>1
<1> HIDE DEF from, n
<1>17. Avoids(mem, from, 1, n, handlerEndSig)
  <2>1. ASSUME NEW m \in 0..(n - 1)
        PROVE  ~IsAt(mem, from + m, handlerEndSig)
    <3>1. mem[from + m] # handlerEndSig[1]
      <4>1. CASE m < l
        <5>1. m + 1 \in 1..l /\ pre + (m + 1) = from + m
          BY <1>1, <1>15, <4>1
        <5> QED
          BY <1>2, <1>12, <5>1
      <4>2. CASE m >= l
        <5>1. m - l + 1 \in 1..body /\ s + (m - l + 1) = from + m
          BY <1>1, <1>6, <1>15, <4>2
        <5> QED
          BY <1>2, <1>11, <5>1
      <4> QED
        BY <1>1, <4>1, <4>2
    <3> QED
      BY <1>8, <1>16, <3>1, NotAt
  <2> QED
    BY <2>1 DEF Avoids
<1> DEFINE end == memsearch(mem, from, MAX_HANDLER_SIZE, handlerEndSig, 1)
<1>18. CASE n < MAX_HANDLER_SIZE
  <2>1. IsAt(mem, from + (1 * n), handlerEndSig)
    <3>1. s + body \in Int /\ s + body >= 0
      BY <1>7
    <3>2. IsAt(mem, (s + body) + 1, handlerEndSig)
      BY <1>2, <1>4, <3>1, LiesIsAt
    <3>3. (s + body) + 1 = from + (1 * n)
      BY <1>1, <1>6, <1>15
    <3> QED
      BY <3>2, <3>3
  <2>2. n \in 0..(MAX_HANDLER_SIZE - 1)
    BY <1>1, <1>16, <1>18
  <2>3. end = from + (1 * n)
    BY <1>1, <1>16, <1>17, <2>1, <2>2, FoundAt
  <2> HIDE DEF end, start
  <2>4. end # NULL /\ start # NULL /\ end + r = e + 1
    BY <1>1, <1>6, <1>14, <1>15, <2>3 DEF NULL
  <2>5. (e + 1 + 2) + (mem[e + 1] - mem[(e + 1) + 1]) = table
    <3>1. mem[(e + 1) + 1] = e + 3 + linked
      BY <1>7, <1>5
    <3> QED
      BY <1>7, <1>5, <3>1
  <2>6. ((end + r) + 2) + (mem[end + r] - mem[(end + r) + 1]) = table
    BY <2>4, <2>5
  <2> QED
    BY <1>14, <1>15, <1>18, <2>4, <2>6 DEF hookInterruptHandler, l, r, size, end, start
<1>19. CASE ~(n < MAX_HANDLER_SIZE)
  <2>1. \A m \in 0..(MAX_HANDLER_SIZE - 1) : m \in 0..(n - 1)
    BY <1>1, <1>16, <1>19
  <2>2. Avoids(mem, from, 1, MAX_HANDLER_SIZE, handlerEndSig)
    BY <1>17, <2>1 DEF Avoids
  <2>3. end = NULL
    BY <1>1, <1>16, <2>2, FoundNowhere
  <2> QED
    BY <1>14, <1>15, <1>19, <2>3 DEF hookInterruptHandler, l, r, size
<1> QED
  BY <1>18, <1>19

(* Without one there is none, whatever lies after the binary.              *)
LEMMA NoHandlerFound ==
  ASSUME NEW pre \in Nat, NEW after \in Seq(Nat),
         NEW mem, mem = NoHandlerMemory(pre, after)
  PROVE  Len(mem) - Len(after) = pre /\ hookInterruptHandler(mem, 1, pre) = NULL
<1>1. /\ Blank(pre) \in Seq(Nat) /\ Len(Blank(pre)) = pre
      /\ \A i \in 1..pre : Blank(pre)[i] = NULL
  BY BlankIs
<1>2. Len(mem) = pre + Len(after) /\ Len(after) \in Nat
  BY <1>1, Joined DEF NoHandlerMemory
<1>3. \A i \in 1..pre : mem[i] = NULL
  BY <1>1, Joined DEF NoHandlerMemory
<1>4. Len(handlerStartSig) \in Nat \ {0} /\ handlerStartSig[1] # NULL
  BY HandlerAssumption, EmptySeq, LenProperties
<1>5. Avoids(mem, 1, 1, pre, handlerStartSig)
  <2>1. ASSUME NEW m \in 0..(pre - 1)
        PROVE  ~IsAt(mem, 1 + m, handlerStartSig)
    <3>1. mem[1 + m] = NULL
      BY <1>3
    <3> QED
      BY <1>4, <3>1, NotAt
  <2> QED
    BY <2>1 DEF Avoids
<1>6. memsearch(mem, 1, pre, handlerStartSig, 1) = NULL
  BY <1>5, FoundNowhere
<1> QED
  BY <1>2, <1>6 DEF hookInterruptHandler

-----------------------------------------------------------------------------
(* Calls, and the theorem of the hook.                                     *)

(* The call is one of those that are asked for, or the block cipher's.     *)
CallOK == call \in Calls \cup {[alg |-> "aes"]}

(* A step leaves the call alone, and a result is its routine's.            *)
LEMMA Steps ==
  ASSUME [Next]_algVars
  PROVE  /\ call' = call
         /\ result' # result =>
              \/ call.alg = "arithmetic" /\ Arithmetic
              \/ call.alg = "scramble" /\ Scramble
              \/ call.alg = "derive" /\ DeriveKeys
              \/ call.alg = "chain" /\ Chain
              \/ call.alg = "seal" /\ Seal
              \/ call.alg = "sectors" /\ CryptSectors
              \/ call.alg = "secure" /\ SecureArea
              \/ call.alg = "move" /\ Move
              \/ call.alg = "handover" /\ HandOver
              \/ call.alg = "params" /\ FindParams
              \/ call.alg = "sleep" /\ PatchSleep
              \/ call.alg = "hook" /\ Hook
<1>1. CASE UNCHANGED algVars
  BY <1>1 DEF algVars
<1>2. CASE AesNext /\ UNCHANGED <<call, result>>
  BY <1>2
<1>3. CASE Arithmetic
  BY <1>3 DEF Arithmetic, Returns
<1>4. CASE Scramble
  BY <1>4 DEF Scramble, Returns
<1>5. CASE DeriveKeys
  BY <1>5 DEF DeriveKeys, Returns
<1>6. CASE Chain
  BY <1>6 DEF Chain, Returns
<1>7. CASE Seal
  BY <1>7 DEF Seal, Returns
<1>8. CASE CryptSectors
  BY <1>8 DEF CryptSectors, Returns
<1>9. CASE SecureArea
  BY <1>9 DEF SecureArea, Returns
<1>10. CASE Move
  BY <1>10 DEF Move, Returns
<1>11. CASE HandOver
  BY <1>11 DEF HandOver, Returns
<1>12. CASE FindParams
  BY <1>12 DEF FindParams, Returns
<1>13. CASE PatchSleep
  BY <1>13 DEF PatchSleep, Returns
<1>14. CASE Hook
  BY <1>14 DEF Hook, Returns
<1> QED
  BY <1>1, <1>2, <1>3, <1>4, <1>5, <1>6, <1>7, <1>8, <1>9, <1>10, <1>11, <1>12,
     <1>13, <1>14 DEF Next

(* It stays one.                                                           *)
LEMMA CallInvariance == Spec => []CallOK
<1>1. Init => CallOK
  BY DEF Init, CallOK
<1>2. CallOK /\ [Next]_algVars => CallOK'
  BY Steps DEF CallOK
<1> QED
  BY <1>1, <1>2, PTL DEF Spec

(* The hook goes to the table of the game's own handler, wherever it was   *)
(* linked, of every binary and whatever lies after it (hook.c:44).         *)
THEOREM HookTheorem == Spec => []HookIsTheGamesTable
<1>1. Init => HookIsTheGamesTable
  BY DEF Init, HookIsTheGamesTable, Nothing
<1>2. CallOK /\ HookIsTheGamesTable /\ [Next]_algVars => HookIsTheGamesTable'
  <2> SUFFICES ASSUME CallOK, HookIsTheGamesTable, [Next]_algVars, call.alg = "hook",
                      result' # Nothing
               PROVE  HookIsTheGamesTable'
    BY Steps DEF HookIsTheGamesTable
  <2>1. call' = call /\ (result' # result => Hook)
    BY Steps
  <2>2. CASE result' = result
    BY <2>1, <2>2 DEF HookIsTheGamesTable
  <2>3. CASE result' # result
    <3> DEFINE mem == IF call.handler
                      THEN HandlerMemory(call.pre, call.body, call.table, call.linked,
                                         call.after)
                      ELSE NoHandlerMemory(call.pre, call.after)
               size == Len(mem) - Len(call.after)
    <3>1. result' = [at |-> getHookLocation(mem, [at |-> 1, size |-> size], call.unitCode),
                     size |-> size]
      BY <2>1, <2>3 DEF Hook, Returns
    <3>2. call \in HookCalls
      BY CallsAssumption DEF CallOK
    <3>3. hookInterruptHandler(mem, 1, size)
            = IF call.handler /\ Len(handlerStartSig) + call.body < MAX_HANDLER_SIZE
              THEN call.table ELSE NULL
      <4>1. CASE call.handler
        <5>1. HandlerIn(mem, call.pre, call.body, call.table, call.linked, call.after)
          BY <3>2, <4>1, HandlerLies DEF HookCalls
        <5> QED
          BY <3>2, <4>1, <5>1, HandlerFound, SMTT(30) DEF HookCalls
      <4>2. CASE ~call.handler
        <5> DEFINE blank == NoHandlerMemory(call.pre, call.after)
        <5>1. call.pre \in Nat /\ call.after \in Seq(Nat)
          BY <3>2 DEF HookCalls
        <5>2. Len(blank) - Len(call.after) = call.pre
          BY <5>1, NoHandlerFound
        <5>3. hookInterruptHandler(blank, 1, call.pre) = NULL
          BY <5>1, NoHandlerFound
        <5>4. mem = blank
          BY <4>2
        <5> HIDE DEF mem, blank
        <5> QED
          BY <4>2, <5>2, <5>3, <5>4
      <4> QED
        BY <4>1, <4>2
    <3>4. call.table # NULL
      BY <3>2 DEF HookCalls
    <3> HIDE DEF mem, size
    <3>5. result'.at = getHookLocation(mem, [at |-> 1, size |-> size], call.unitCode)
          /\ result'.size = size
      BY <3>1
    <3> QED
      BY <2>1, <3>3, <3>4, <3>5 DEF HookIsTheGamesTable, getHookLocation
  <2> QED
    BY <2>2, <2>3
<1> QED
  BY <1>1, <1>2, CallInvariance, PTL DEF Spec

(* The parameters found are those of the binary, wherever it is and        *)
(* however much of it is searched.                                         *)
LEMMA ParamsOfTheGame ==
  ASSUME NEW pre \in Int, NEW sdk \in Int, NEW words \in Int, NEW known, NEW dsi,
         pre \in Nat, sdk \in Nat, words \in Nat, pre % 2 = 0,
         known \in BOOLEAN, dsi \in BOOLEAN
  PROVE  findModuleParamsOffset(ParamsMemory(pre, sdk), [at |-> 1, size |-> words],
                                known, dsi)
           = IF 2 * words > (2 + pre + 1) + PARAMS_HALVES - 1
             THEN [found |-> TRUE, at |-> 2 + pre + 1, sdk |-> sdk]
             ELSE EmulatedParams(CASE known -> LAST_NON_SDK5_VERSION
                                   [] ~known /\ dsi -> FIRST_SDK5_VERSION
                                   [] OTHER -> NULL)
<1> DEFINE mem == ParamsMemory(pre, sdk)
           half == 2 + pre + PARAMS_HALVES
           p == findOffset(mem, 1, words, moduleParamsSignature)
           arm9 == [at |-> 1, size |-> words]
<1>1. PARAMS_HALVES \in Nat /\ PARAMS_HALVES >= 1
  BY ParamsAssumption
<1>2. ParamsIn(mem, pre, sdk)
  BY ParamsLie
<1>3. mem[half] = sdk
  BY <1>2 DEF ParamsIn
<1>4. (2 + pre + 1) + PARAMS_HALVES - 1 = half /\ half \in Nat
  BY <1>1
<1> HIDE DEF mem
<1>5. p = IF 2 * words > half THEN half + 1 ELSE NULL
  BY <1>2, ParamsFound
<1>6. findModuleParamsOffset(mem, arm9, known, dsi)
        = CASE p = NULL /\ known -> EmulatedParams(LAST_NON_SDK5_VERSION)
            [] p = NULL /\ ~known /\ dsi -> EmulatedParams(FIRST_SDK5_VERSION)
            [] p = NULL /\ ~known /\ ~dsi -> EmulatedParams(NULL)
            [] p # NULL /\ p <= PARAMS_HALVES -> EmulatedParams(NULL)
            [] OTHER -> [found |-> TRUE, at |-> p - PARAMS_HALVES, sdk |-> mem[p - 1]]
  BY DEF findModuleParamsOffset
<1> HIDE DEF p, arm9
<1>7. CASE 2 * words > half
  <2>1. p = half + 1 /\ p # NULL /\ ~(p <= PARAMS_HALVES)
    BY <1>1, <1>4, <1>5, <1>7 DEF NULL
  <2>2. p - 1 = half /\ p - PARAMS_HALVES = 2 + pre + 1
    BY <1>1, <2>1
  <2>3. mem[p - 1] = sdk
    BY <1>3, <2>2
  <2>4. findModuleParamsOffset(mem, arm9, known, dsi)
          = [found |-> TRUE, at |-> p - PARAMS_HALVES, sdk |-> mem[p - 1]]
    BY <1>6, <2>1
  <2> HIDE DEF half
  <2> QED
    BY <1>4, <1>7, <2>2, <2>3, <2>4 DEF mem, arm9
<1>8. CASE ~(2 * words > half)
  <2>1. p = NULL
    BY <1>5, <1>8
  <2>2. findModuleParamsOffset(mem, arm9, known, dsi)
          = EmulatedParams(CASE known -> LAST_NON_SDK5_VERSION
                             [] ~known /\ dsi -> FIRST_SDK5_VERSION
                             [] OTHER -> NULL)
    BY <1>6, <2>1
  <2> HIDE DEF half
  <2> QED
    BY <1>4, <1>8, <2>2 DEF mem, arm9
<1> QED
  BY <1>7, <1>8

(* Of decoys and the game's own, the launcher takes and changes the game's *)
(* own, in binaries of any length (main.arm7.c:166 and 246).               *)
THEOREM PatchesTheorem == Spec => []PatchesTheGame
<1>1. Init => PatchesTheGame
  BY DEF Init, PatchesTheGame, ParamsAreTheGames, OnlySleepInputPatched, Nothing
<1>2. ASSUME CallOK, ParamsAreTheGames, [Next]_algVars
      PROVE  ParamsAreTheGames'
  <2> SUFFICES ASSUME call.alg = "params", result' # result
               PROVE  ParamsAreTheGames'
    BY <1>2, Steps DEF ParamsAreTheGames
  <2>1. call' = call /\ FindParams
    BY <1>2, Steps
  <2>2. call \in ParamsCalls /\ call.pre % 2 = 0
    BY <1>2, CallsAssumption DEF CallOK
  <2>3. /\ call.pre \in Nat /\ call.sdk \in Nat /\ call.words \in Nat
        /\ call.known \in BOOLEAN /\ call.dsi \in BOOLEAN
    BY <2>2 DEF ParamsCalls
  <2>4. result' = findModuleParamsOffset(ParamsMemory(call.pre, call.sdk),
                    [at |-> 1, size |-> call.words], call.known, call.dsi)
    BY <2>1 DEF FindParams, Returns
  <2>5. result'
          = IF 2 * call.words > (2 + call.pre + 1) + PARAMS_HALVES - 1
            THEN [found |-> TRUE, at |-> 2 + call.pre + 1, sdk |-> call.sdk]
            ELSE EmulatedParams(CASE call.known -> LAST_NON_SDK5_VERSION
                                  [] ~call.known /\ call.dsi -> FIRST_SDK5_VERSION
                                  [] OTHER -> NULL)
    BY <2>2, <2>3, <2>4, ParamsOfTheGame
  <2> QED
    BY <2>1, <2>3, <2>5 DEF ParamsAreTheGames, EmulatedParams
<1>3. ASSUME CallOK, OnlySleepInputPatched, [Next]_algVars
      PROVE  OnlySleepInputPatched'
  <2> SUFFICES ASSUME call.alg = "sleep", result' # result
               PROVE  OnlySleepInputPatched'
    BY <1>3, Steps DEF OnlySleepInputPatched
  <2> DEFINE mem == SleepMemory(call.kind, call.gap, call.sdk)
  <2>1. call' = call /\ PatchSleep
    BY <1>3, Steps
  <2>2. call \in SleepCalls
    BY <1>3, CallsAssumption DEF CallOK
  <2>3. /\ call.kind \in Kinds /\ call.gap \in Nat /\ call.sdk \in Versions
        /\ call.sleepMode \in BOOLEAN
    BY <2>2 DEF SleepCalls
  <2>4. result' = patchSleepInputWrite(mem, [at |-> 1, size |-> Len(mem) \div 2],
                                       call.sdk, call.sleepMode)
    BY <2>1 DEF PatchSleep, Returns
  <2>5. result' = IF ~call.sleepMode /\ SleepFound(call.kind, call.gap)
                  THEN SleepPatched(call.kind, call.gap, call.sdk) ELSE mem
    BY <2>3, <2>4, SleepIsPatched
  <2> QED
    BY <2>1, <2>5 DEF OnlySleepInputPatched
<1> QED
  BY <1>1, <1>2, <1>3, CallInvariance, PTL DEF Spec, PatchesTheGame

-----------------------------------------------------------------------------
(* Moves and fills of memory (MemoryCopy).                                 *)

(* The order of numbers, for the two facts that follow.                    *)
Smaller == {ss \in Nat \X Nat : ss[1] < ss[2]}
(* A set of numbers has a least member...                                  *)
LEMMA LeastOne ==
  ASSUME NEW T \in SUBSET Nat, T # {}
  PROVE  \E x \in T : \A y \in T : x <= y
<1>1. IsWellFoundedOn(Smaller, Nat)
  BY NatLessThanWellFounded DEF OpToRel, Smaller
<1>2. PICK x \in T : \A y \in T : <<y, x>> \notin Smaller
  BY <1>1, WFMin
<1>3. \A y \in T : ~(y < x)
  BY <1>2 DEF Smaller
<1> QED
  BY <1>3

(* ... and, if it has an end, a greatest.                                  *)
LEMMA GreatestOne ==
  ASSUME NEW n \in Nat, NEW T \in SUBSET (1..n), T # {}
  PROVE  \E x \in T : \A y \in T : y <= x
<1> DEFINE turned == {n - x : x \in T}
<1>1. \A x \in T : x \in 1..n /\ n - x \in Nat
  OBVIOUS
<1>2. turned \in SUBSET Nat /\ turned # {}
  BY <1>1
<1>3. PICK z \in turned : \A y \in turned : z <= y
  BY <1>2, LeastOne
<1>4. PICK x \in T : z = n - x
  BY <1>3
<1>5. ASSUME NEW y \in T
      PROVE  y <= x
  <2>1. n - x <= n - y
    BY <1>3, <1>4
  <2> QED
    BY <1>1, <2>1
<1> QED
  BY <1>5

(* Writes that make t of a stretch a .. b: each of them, where it writes,  *)
(* writes what t has there, and all of the stretch is written.             *)
WriteSet == [at : Int, bytes : Seq(Nat)]

True(writes, t) ==
  \A p \in DOMAIN t : \A i \in WritesOver(writes, p) :
     writes[i].bytes[p - writes[i].at] = t[p]
Covered(writes, t, a, b) ==
  \A p \in DOMAIN t : a < p /\ p <= b => WritesOver(writes, p) # {}
Tiles(writes, t, a, b) ==
  /\ writes \in Seq(WriteSet)
  /\ FitForVideoMemory(writes)
  /\ True(writes, t)
  /\ Covered(writes, t, a, b)

(* After such writes the memory is t, if it is t outside of the stretch.   *)
(* The last write over a place decides it, and there is one.               *)
LEMMA TilesGive ==
  ASSUME NEW mem, NEW t, NEW writes, NEW a \in Int, NEW b \in Int,
         Tiles(writes, t, a, b), mem \in Seq(Nat), t \in Seq(Nat), Len(t) = Len(mem),
         \A p \in 1..Len(mem) : p <= a \/ b < p => t[p] = mem[p]
  PROVE  After(mem, writes) = t
<1>1. ASSUME NEW p \in 1..Len(mem)
      PROVE  t[p] = IF WritesOver(writes, p) = {} THEN mem[p]
                    ELSE writes[LastWriteOver(writes, p)].bytes
                           [p - writes[LastWriteOver(writes, p)].at]
  <2>1. p \in DOMAIN t
    OBVIOUS
  <2>2. CASE WritesOver(writes, p) = {}
    BY <2>1, <2>2 DEF Tiles, Covered
  <2>3. CASE WritesOver(writes, p) # {}
    <3>1. WritesOver(writes, p) \in SUBSET (1..Len(writes)) /\ Len(writes) \in Nat
      BY DEF WritesOver, Tiles
    <3>2. \E i \in WritesOver(writes, p) : \A j \in WritesOver(writes, p) : j <= i
      BY <2>3, <3>1, GreatestOne
    <3>3. LastWriteOver(writes, p) \in WritesOver(writes, p)
      BY <3>2 DEF LastWriteOver
    <3> QED
      BY <2>1, <2>3, <3>3 DEF Tiles, True
  <2> QED
    BY <2>2, <2>3
<1> DEFINE there(p) == IF WritesOver(writes, p) = {} THEN mem[p]
                       ELSE writes[LastWriteOver(writes, p)].bytes
                              [p - writes[LastWriteOver(writes, p)].at]
           all == [p \in 1..Len(mem) |-> there(p)]
<1>2. all = t
  <2>1. t = [p \in 1..Len(mem) |-> t[p]]
    OBVIOUS
  <2> QED
    BY <1>1, <2>1
<1>3. After(mem, writes) = <<>> \o all
  BY DEF After
<1> HIDE DEF all
<1> QED
  BY <1>2, <1>3

(* What the writes of one after the other are.                             *)
LEMMA Halves ==
  ASSUME NEW u, NEW v, NEW p \in Int, u \in Seq(WriteSet), v \in Seq(WriteSet)
  PROVE  /\ u \o v \in Seq(WriteSet)
         /\ DOMAIN (u \o v) = 1..(Len(u) + Len(v))
         /\ Len(u) \in Nat /\ Len(v) \in Nat
         /\ DOMAIN u = 1..Len(u) /\ DOMAIN v = 1..Len(v)
         /\ \A i \in 1..(Len(u) + Len(v)) :
              \/ i \in 1..Len(u) /\ (u \o v)[i] = u[i]
              \/ i - Len(u) \in 1..Len(v) /\ (u \o v)[i] = v[i - Len(u)]
         /\ \A i \in 1..Len(u) : (u \o v)[i] = u[i]
         /\ \A i \in 1..Len(v) : (u \o v)[Len(u) + i] = v[i]
<1>1. u \o v \in Seq(WriteSet) /\ DOMAIN (u \o v) = 1..(Len(u) + Len(v))
  OBVIOUS
<1>2. Len(u) \in Nat /\ Len(v) \in Nat /\ DOMAIN u = 1..Len(u) /\ DOMAIN v = 1..Len(v)
  OBVIOUS
<1>3. \A i \in 1..(Len(u) + Len(v)) :
        \/ i \in 1..Len(u) /\ (u \o v)[i] = u[i]
        \/ i - Len(u) \in 1..Len(v) /\ (u \o v)[i] = v[i - Len(u)]
  OBVIOUS
<1>4. \A i \in 1..Len(u) : (u \o v)[i] = u[i]
  OBVIOUS
<1>5. \A i \in 1..Len(v) : (u \o v)[Len(u) + i] = v[i]
  OBVIOUS
<1> QED
  BY <1>1, <1>2, <1>3, <1>4, <1>5

(* Two stretches side by side.                                             *)
LEMMA TilesJoin ==
  ASSUME NEW u, NEW v, NEW t, NEW a \in Int, NEW b \in Int, NEW c \in Int,
         Tiles(u, t, a, b), Tiles(v, t, b, c), t \in Seq(Nat)
  PROVE  Tiles(u \o v, t, a, c)
<1> DEFINE uv == u \o v
           lu == Len(u)
           lv == Len(v)
<1>1. u \in Seq(WriteSet) /\ v \in Seq(WriteSet)
  BY DEF Tiles
<1>2. /\ uv \in Seq(WriteSet) /\ DOMAIN uv = 1..(lu + lv)
      /\ lu \in Nat /\ lv \in Nat /\ DOMAIN u = 1..lu /\ DOMAIN v = 1..lv
      /\ \A i \in 1..(lu + lv) :
              \/ i \in 1..lu /\ uv[i] = u[i]
              \/ i - lu \in 1..lv /\ uv[i] = v[i - lu]
      /\ \A i \in 1..lu : uv[i] = u[i]
      /\ \A i \in 1..lv : uv[lu + i] = v[i]
  BY <1>1, Halves
<1> HIDE DEF uv, lu, lv
<1>3. FitForVideoMemory(uv)
  <2>1. ASSUME NEW i \in DOMAIN uv
        PROVE  Len(uv[i].bytes) \in {2, 4} /\ uv[i].at % Len(uv[i].bytes) = 0
    <3>1. CASE i \in 1..lu /\ uv[i] = u[i]
      BY <1>2, <3>1 DEF Tiles, FitForVideoMemory
    <3>2. CASE i - lu \in 1..lv /\ uv[i] = v[i - lu]
      BY <1>2, <3>2 DEF Tiles, FitForVideoMemory
    <3> QED
      BY <1>2, <3>1, <3>2
  <2> QED
    BY <2>1 DEF FitForVideoMemory
<1>4. True(uv, t)
  <2>1. ASSUME NEW p \in DOMAIN t, NEW i \in WritesOver(uv, p)
        PROVE  uv[i].bytes[p - uv[i].at] = t[p]
    <3>1. i \in 1..(lu + lv) /\ uv[i].at < p /\ p <= uv[i].at + Len(uv[i].bytes)
      BY <1>2 DEF WritesOver
    <3>2. CASE i \in 1..lu /\ uv[i] = u[i]
      <4>1. i \in WritesOver(u, p)
        BY <1>2, <3>1, <3>2 DEF WritesOver
      <4> QED
        BY <3>2, <4>1 DEF Tiles, True
    <3>3. CASE i - lu \in 1..lv /\ uv[i] = v[i - lu]
      <4>1. i - lu \in WritesOver(v, p)
        BY <1>2, <3>1, <3>3 DEF WritesOver
      <4> QED
        BY <3>3, <4>1 DEF Tiles, True
    <3> QED
      BY <1>2, <3>1, <3>2, <3>3
  <2> QED
    BY <2>1 DEF True
<1>5. Covered(uv, t, a, c)
  <2>1. ASSUME NEW p \in DOMAIN t, a < p, p <= c
        PROVE  WritesOver(uv, p) # {}
    <3>1. CASE p <= b
      <4>1. PICK i \in DOMAIN u : u[i].at < p /\ p <= u[i].at + Len(u[i].bytes)
        BY <2>1, <3>1 DEF Tiles, Covered, WritesOver
      <4>2. i \in WritesOver(uv, p)
        BY <1>2, <4>1 DEF WritesOver
      <4> QED
        BY <4>2
    <3>2. CASE b < p
      <4>1. PICK i \in DOMAIN v : v[i].at < p /\ p <= v[i].at + Len(v[i].bytes)
        BY <2>1, <3>2 DEF Tiles, Covered, WritesOver
      <4>2. lu + i \in 1..(lu + lv) /\ uv[lu + i] = v[i]
        BY <1>2, <4>1, SMTT(30)
      <4>3. lu + i \in WritesOver(uv, p)
        BY <1>2, <4>1, <4>2 DEF WritesOver
      <4> QED
        BY <4>3
    <3>3. p \in Int
      OBVIOUS
    <3> QED
      BY <3>1, <3>2, <3>3
  <2> QED
    BY <2>1 DEF Covered
<1>6. Tiles(uv, t, a, c)
  BY <1>2, <1>3, <1>4, <1>5 DEF Tiles
<1> QED
  BY <1>6 DEF uv

(* An empty stretch.                                                       *)
LEMMA NothingTiles ==
  ASSUME NEW t, NEW a \in Int, NEW b \in Int, b <= a, t \in Seq(Nat)
  PROVE  Tiles(<<>>, t, a, b)
<1>1. <<>> \in Seq(WriteSet) /\ DOMAIN <<>> = {}
  OBVIOUS
<1>2. \A p \in DOMAIN t : ~(a < p /\ p <= b)
  OBVIOUS
<1> QED
  BY <1>1, <1>2 DEF Tiles, FitForVideoMemory, True, Covered, WritesOver

(* One write of a halfword or a word.                                      *)
LEMMA OneTile ==
  ASSUME NEW t, NEW at \in Int, NEW bytes, NEW a \in Int, NEW b \in Int,
         t \in Seq(Nat), bytes \in Seq(Nat), Len(bytes) \in {2, 4},
         at % Len(bytes) = 0, at <= a, b <= at + Len(bytes),
         \A p \in 1..Len(bytes) : at + p \in DOMAIN t => bytes[p] = t[at + p]
  PROVE  Tiles(Write(at, bytes), t, a, b)
<1> DEFINE w == [at |-> at, bytes |-> bytes]
           l == Len(bytes)
<1>1. w \in WriteSet /\ w.at = at /\ w.bytes = bytes
  BY DEF WriteSet
<1>2. Write(at, bytes) = <<w>>
  BY DEF Write
<1>3. l \in Nat /\ \A p \in DOMAIN t : p \in Int
  OBVIOUS
<1> HIDE DEF w
<1>4. <<w>> \in Seq(WriteSet) /\ DOMAIN <<w>> = {1} /\ <<w>>[1] = w
  BY <1>1
<1>5. FitForVideoMemory(<<w>>)
  BY <1>1, <1>4 DEF FitForVideoMemory
<1>6. True(<<w>>, t)
  <2>1. ASSUME NEW p \in DOMAIN t, at < p, p <= at + l
        PROVE  bytes[p - at] = t[p]
    <3>1. p - at \in 1..l /\ at + (p - at) = p
      BY <1>3, <2>1, SMTT(30)
    <3> HIDE DEF l
    <3> QED
      BY <3>1 DEF l
  <2> QED
    BY <1>1, <1>4, <2>1, SMTT(30) DEF True, WritesOver
<1>7. Covered(<<w>>, t, a, b)
  <2>1. ASSUME NEW p \in DOMAIN t, a < p, p <= b
        PROVE  1 \in WritesOver(<<w>>, p)
    <3>1. at < p /\ p <= at + l
      BY <1>3, <2>1
    <3> QED
      BY <1>1, <1>4, <3>1 DEF WritesOver
  <2> QED
    BY <2>1 DEF Covered
<1> QED
  BY <1>2, <1>4, <1>5, <1>6, <1>7 DEF Tiles

(* An address a halfword or a word can be written at.                      *)
Aligned(at, unit) == (unit = 2 => at % 2 = 0) /\ (unit = 4 => at % 4 = 0)

(* A row of writes of two or four bytes each.                              *)
RowOf(writes, n, unit, dst) ==
  /\ writes \in Seq(WriteSet) /\ DOMAIN writes = 1..n
  /\ \A i \in 1..n : /\ writes[i].at = dst + (unit * (i - 1))
                     /\ Len(writes[i].bytes) = unit
(* ... that write what t has.                                              *)
TrueRow(writes, t, n, unit, dst) ==
  \A i \in 1..n : \A j \in 1..unit :
     (dst + (unit * (i - 1))) + j \in DOMAIN t =>
        writes[i].bytes[j] = t[(dst + (unit * (i - 1))) + j]

(* Arithmetic of words.                                                    *)
LEMMA FourNext ==
  ASSUME NEW a \in Int, NEW r \in 0..3, a % 4 = 0
  PROVE  (a + r) % 4 = r
OBVIOUS

(* The start of the i-th word.                                             *)
LEMMA FourUnits ==
  ASSUME NEW a \in Int, NEW i \in Int, a % 4 = 0
  PROVE  (a + (4 * (i - 1))) % 4 = 0
OBVIOUS

(* Whole words further on.                                                 *)
LEMMA FourApart ==
  ASSUME NEW a \in Int, NEW m \in Int
  PROVE  (a + (4 * m)) % 4 = a % 4
OBVIOUS

(* A row makes t of the stretch it covers.                                 *)
LEMMA RowTiles ==
  ASSUME NEW t, NEW writes, NEW n \in Nat, NEW unit \in {2, 4}, NEW dst \in Int,
         t \in Seq(Nat), RowOf(writes, n, unit, dst), TrueRow(writes, t, n, unit, dst),
         Aligned(dst, unit)
  PROVE  Tiles(writes, t, dst, dst + (unit * n))
<1>1. /\ writes \in Seq(WriteSet) /\ DOMAIN writes = 1..n
      /\ \A i \in 1..n : /\ writes[i].at = dst + (unit * (i - 1))
                         /\ Len(writes[i].bytes) = unit
  BY DEF RowOf
<1>2. FitForVideoMemory(writes)
  <2>1. \A i \in 1..n : (dst + (unit * (i - 1))) % unit = 0
    <3>1. CASE unit = 2
      <4>1. dst % 2 = 0
        BY <3>1 DEF Aligned
      <4>2. \A i \in 1..n : (dst + (2 * (i - 1))) % 2 = 0
        BY <4>1
      <4> QED
        BY <3>1, <4>2
    <3>2. CASE unit = 4
      <4>1. dst % 4 = 0
        BY <3>2 DEF Aligned
      <4>2. ASSUME NEW i \in 1..n
            PROVE  (dst + (4 * (i - 1))) % 4 = 0
        <5>1. i \in Int
          OBVIOUS
        <5> HIDE DEF RowOf
        <5> QED
          BY <4>1, <5>1, FourUnits
      <4> QED
        BY <3>2, <4>2
    <3> QED
      BY <3>1, <3>2
  <2> QED
    BY <1>1, <2>1 DEF FitForVideoMemory
<1>3. True(writes, t)
  <2>1. ASSUME NEW p \in DOMAIN t, NEW i \in WritesOver(writes, p)
        PROVE  writes[i].bytes[p - writes[i].at] = t[p]
    <3> DEFINE at == dst + (unit * (i - 1))
               j == p - at
    <3>1. i \in 1..n /\ writes[i].at = at /\ at < p /\ p <= at + unit
      BY <1>1 DEF WritesOver
    <3>2. at \in Int /\ p \in Int
      BY <3>1
    <3> HIDE DEF at
    <3>3. j \in 1..unit /\ at + j = p
      BY <3>1, <3>2
    <3> HIDE DEF j
    <3>4. writes[i].bytes[j] = t[at + j]
      BY <3>1, <3>3 DEF TrueRow, at
    <3> QED
      BY <3>1, <3>3, <3>4 DEF j
  <2> QED
    BY <2>1 DEF True
<1>4. Covered(writes, t, dst, dst + (unit * n))
  <2>1. ASSUME NEW p \in Int, dst < p, p <= dst + (unit * n)
        PROVE  \E i \in 1..n : /\ dst + (unit * (i - 1)) < p
                               /\ p <= dst + (unit * (i - 1)) + unit
    <3>1. CASE unit = 2
      <4> DEFINE i == ((p - dst - 1) \div 2) + 1
      <4>1. i \in Int /\ dst + (2 * i) - 2 < p /\ p <= dst + (2 * i)
        BY <2>1
      <4>2. p <= dst + (2 * n)
        BY <2>1, <3>1
      <4> HIDE DEF i
      <4>3. i \in 1..n
        BY <2>1, <4>1, <4>2
      <4>4. dst + (2 * (i - 1)) < p /\ p <= dst + (2 * (i - 1)) + 2
        BY <4>1
      <4> QED
        BY <3>1, <4>3, <4>4
    <3>2. CASE unit = 4
      <4> DEFINE i == ((p - dst - 1) \div 4) + 1
      <4>1. i \in Int /\ dst + (4 * i) - 4 < p /\ p <= dst + (4 * i)
        BY <2>1
      <4>2. p <= dst + (4 * n)
        BY <2>1, <3>2
      <4> HIDE DEF i
      <4>3. i \in 1..n
        BY <2>1, <4>1, <4>2
      <4>4. dst + (4 * (i - 1)) < p /\ p <= dst + (4 * (i - 1)) + 4
        BY <4>1
      <4> QED
        BY <3>2, <4>3, <4>4
    <3> QED
      BY <3>1, <3>2
  <2>2. ASSUME NEW p \in DOMAIN t, dst < p, p <= dst + (unit * n)
        PROVE  WritesOver(writes, p) # {}
    <3>1. p \in Int
      OBVIOUS
    <3>2. PICK i \in 1..n : /\ dst + (unit * (i - 1)) < p
                            /\ p <= dst + (unit * (i - 1)) + unit
      BY <2>1, <2>2, <3>1
    <3>3. i \in WritesOver(writes, p)
      BY <1>1, <3>2 DEF WritesOver
    <3> QED
      BY <3>3
  <2> QED
    BY <2>2 DEF Covered
<1> QED
  BY <1>1, <1>2, <1>3, <1>4 DEF Tiles

(* What Copies and Fills write.                                            *)
Holds(t, mem, a, b, from) ==
  \A p \in DOMAIN t : a < p /\ p <= b => t[p] = mem[(p - a) + from]

(* Bytes read from memory.                                                 *)
LEMMA TakenIs ==
  ASSUME NEW mem, NEW at \in Int, NEW n \in Int, mem \in Seq(Nat), at >= 0, n \in Nat,
         at + n <= Len(mem)
  PROVE  /\ Taken4(mem, at, n) \in Seq(Nat) /\ Len(Taken4(mem, at, n)) = n
         /\ \A j \in 1..n : Taken4(mem, at, n)[j] = mem[at + j]
<1>1. at + 1 \in 1..(Len(mem) + 1) /\ at + n \in 0..Len(mem) /\ at + n >= at
  OBVIOUS
<1>2. SubSeq(mem, at + 1, at + n) \in Seq(Nat)
  BY <1>1, SubSeqProperties
<1>3. Len(SubSeq(mem, at + 1, at + n)) = n
  BY <1>1
<1>4. \A j \in 1..n : SubSeq(mem, at + 1, at + n)[j] = mem[at + j]
  BY <1>1
<1> QED
  BY <1>2, <1>3, <1>4 DEF Taken4

(* A loop of copies (tonccpy.c, common.h:82).                              *)
LEMMA CopiesTile ==
  ASSUME NEW mem, NEW t, NEW n \in Nat, NEW unit \in {2, 4}, NEW dst \in Int,
         NEW src \in Int, mem \in Seq(Nat), t \in Seq(Nat), src >= 0,
         src + (unit * n) <= Len(mem), Aligned(dst, unit),
         Holds(t, mem, dst, dst + (unit * n), src)
  PROVE  Tiles(Copies(mem, n, unit, dst, src), t, dst, dst + (unit * n))
<1> DEFINE bytes(i) == Taken4(mem, src + (unit * (i - 1)), unit)
           one(i) == [at |-> dst + (unit * (i - 1)), bytes |-> bytes(i)]
           row == [i \in 1..n |-> one(i)]
<1>1. ASSUME NEW i \in 1..n
      PROVE  /\ bytes(i) \in Seq(Nat) /\ Len(bytes(i)) = unit
             /\ \A j \in 1..unit : bytes(i)[j] = mem[(src + (unit * (i - 1))) + j]
  <2> DEFINE at == src + (unit * (i - 1))
  <2>1. at \in Int /\ at >= 0 /\ at + unit <= Len(mem)
    OBVIOUS
  <2> HIDE DEF at
  <2>2. unit \in Int /\ unit \in Nat
    OBVIOUS
  <2>3. /\ Taken4(mem, at, unit) \in Seq(Nat) /\ Len(Taken4(mem, at, unit)) = unit
        /\ \A j \in 1..unit : Taken4(mem, at, unit)[j] = mem[at + j]
    BY <2>1, <2>2, TakenIs, Zenon
  <2> QED
    BY <2>3 DEF at
<1> HIDE DEF bytes
<1>2. \A i \in 1..n : /\ one(i) \in WriteSet /\ one(i).bytes = bytes(i)
                      /\ one(i).at = dst + (unit * (i - 1))
  BY <1>1 DEF WriteSet
<1> HIDE DEF one
<1>3. row \in Seq(WriteSet) /\ DOMAIN row = 1..n /\ \A i \in 1..n : row[i] = one(i)
  BY <1>2
<1>4. Copies(mem, n, unit, dst, src) = <<>> \o row
  BY DEF Copies, row, one, bytes
<1> HIDE DEF row
<1>5. <<>> \o row = row
  BY <1>3
<1>6. RowOf(row, n, unit, dst)
  <2>1. ASSUME NEW i \in 1..n
        PROVE  row[i].at = dst + (unit * (i - 1)) /\ Len(row[i].bytes) = unit
    <3>1. row[i].bytes = bytes(i) /\ row[i].at = dst + (unit * (i - 1))
      BY <1>2, <1>3
    <3>2. Len(bytes(i)) = unit
      BY <1>1
    <3> QED
      BY <3>1, <3>2
  <2> QED
    BY <1>3, <2>1 DEF RowOf
<1>7. TrueRow(row, t, n, unit, dst)
  <2>1. ASSUME NEW i \in 1..n, NEW j \in 1..unit,
               (dst + (unit * (i - 1))) + j \in DOMAIN t
        PROVE  row[i].bytes[j] = t[(dst + (unit * (i - 1))) + j]
    <3> DEFINE p == (dst + (unit * (i - 1))) + j
    <3>1. p \in Int /\ dst < p /\ p <= dst + (unit * n)
      OBVIOUS
    <3>2. (p - dst) + src = (src + (unit * (i - 1))) + j
      OBVIOUS
    <3>3. p \in DOMAIN t
      BY <2>1
    <3> HIDE DEF p
    <3>4. t[p] = mem[(p - dst) + src]
      BY <3>1, <3>3 DEF Holds
    <3>5. row[i].bytes[j] = mem[(src + (unit * (i - 1))) + j]
      <4>1. row[i].bytes = bytes(i)
        BY <1>2, <1>3
      <4>2. bytes(i)[j] = mem[(src + (unit * (i - 1))) + j]
        BY <1>1
      <4> QED
        BY <4>1, <4>2
    <3> QED
      BY <3>2, <3>4, <3>5 DEF p
  <2> QED
    BY <2>1 DEF TrueRow
<1> QED
  BY <1>4, <1>5, <1>6, <1>7, RowTiles

(* A loop of fills.                                                        *)
LEMMA FillsTile ==
  ASSUME NEW t, NEW n \in Nat, NEW dst \in Int, NEW word, t \in Seq(Nat),
         word \in Seq(Nat), Len(word) = 4, dst % 4 = 0,
         \A p \in DOMAIN t : dst < p /\ p <= dst + (4 * n) => t[p] = word[((p - 1) % 4) + 1]
  PROVE  Tiles(Fills(n, dst, word), t, dst, dst + (4 * n))
<1> DEFINE one(i) == [at |-> dst + (4 * (i - 1)), bytes |-> word]
           row == [i \in 1..n |-> one(i)]
<1>1. \A i \in 1..n : /\ one(i) \in WriteSet /\ one(i).bytes = word
                      /\ one(i).at = dst + (4 * (i - 1))
  BY DEF WriteSet
<1> HIDE DEF one
<1>2. row \in Seq(WriteSet) /\ DOMAIN row = 1..n /\ \A i \in 1..n : row[i] = one(i)
  BY <1>1
<1>3. Fills(n, dst, word) = <<>> \o row
  BY DEF Fills, row, one
<1> HIDE DEF row
<1>4. <<>> \o row = row
  BY <1>2
<1>5. RowOf(row, n, 4, dst)
  BY <1>1, <1>2 DEF RowOf
<1>6. TrueRow(row, t, n, 4, dst)
  <2>1. ASSUME NEW i \in 1..n, NEW j \in 1..4,
               (dst + (4 * (i - 1))) + j \in DOMAIN t
        PROVE  row[i].bytes[j] = t[(dst + (4 * (i - 1))) + j]
    <3> DEFINE p == (dst + (4 * (i - 1))) + j
    <3>1. p \in Int /\ dst < p /\ p <= dst + (4 * n)
      OBVIOUS
    <3>2. ((p - 1) % 4) + 1 = j
      <4>1. dst + (j - 1) \in Int /\ i - 1 \in Int
        OBVIOUS
      <4>2. ((dst + (j - 1)) + (4 * (i - 1))) % 4 = (dst + (j - 1)) % 4
        BY <4>1, FourApart
      <4>3. p - 1 = (dst + (j - 1)) + (4 * (i - 1))
        OBVIOUS
      <4>4. (dst + (j - 1)) % 4 = j - 1
        <5> DEFINE r == j - 1
        <5>1. r \in 0..3
          OBVIOUS
        <5> HIDE DEF r
        <5>2. (dst + r) % 4 = r
          BY <5>1, FourNext
        <5> QED
          BY <5>2 DEF r
      <4> HIDE DEF p
      <4>5. ((p - 1) % 4) + 1 = (j - 1) + 1
        BY <4>2, <4>3, <4>4
      <4> QED
        BY <4>5
    <3> HIDE DEF p
    <3>3. p \in DOMAIN t
      BY <2>1 DEF p
    <3>4. t[p] = word[j]
      BY <3>1, <3>2, <3>3
    <3> QED
      BY <1>1, <1>2, <3>4 DEF p
  <2> QED
    BY <2>1 DEF TrueRow
<1> QED
  BY <1>3, <1>4, <1>5, <1>6, RowTiles DEF Aligned

(* What is written over a string.                                          *)
LEMMA OverIs ==
  ASSUME NEW v, NEW w, NEW p \in Int, v \in Seq(Nat), w \in Seq(Nat), p >= 0,
         p + Len(w) <= Len(v)
  PROVE  /\ Over(v, p, w) \in Seq(Nat) /\ Len(Over(v, p, w)) = Len(v)
         /\ \A i \in 1..Len(v) :
              Over(v, p, w)[i] = IF p < i /\ i <= p + Len(w) THEN w[i - p] ELSE v[i]
<1> DEFINE n == Len(v)
           m == Len(w)
           one == SubSeq(v, 1, p)
           two == SubSeq(v, p + m + 1, n)
           start == one \o w
           all == start \o two
<1>1. n \in Nat /\ m \in Nat /\ p + m <= n
  OBVIOUS
<1>2. one \in Seq(Nat)
  OBVIOUS
<1>3. Len(one) = p
  BY <1>1
<1>4. \A i \in 1..p : one[i] = v[i]
  BY <1>1
<1>5. two \in Seq(Nat)
  OBVIOUS
<1>6. Len(two) = n - (p + m)
  BY <1>1
<1>7. \A i \in 1..(n - (p + m)) : two[i] = v[i + (p + m)]
  BY <1>1
<1> HIDE DEF one, two
<1>8. start \in Seq(Nat)
  BY <1>2
<1>9. Len(start) = p + m
  BY <1>2, <1>3, Joined
<1>10. \A i \in 1..(p + m) : start[i] = IF i <= p THEN one[i] ELSE w[i - p]
  BY <1>2, <1>3
<1> HIDE DEF start
<1>11. all \in Seq(Nat)
  BY <1>5, <1>8
<1>12. Len(all) = n
  <2>1. Len(all) = Len(start) + Len(two)
    BY <1>5, <1>8, Joined
  <2> QED
    BY <1>1, <1>6, <1>9, <2>1
<1>13. \A i \in 1..n : all[i] = IF i <= p + m THEN start[i] ELSE two[i - (p + m)]
  BY <1>1, <1>5, <1>6, <1>8, <1>9, SMTT(30)
<1>14. Over(v, p, w) = all
  BY DEF Over, all, start, one, two
<1> HIDE DEF all
<1>15. ASSUME NEW i \in 1..n
       PROVE  all[i] = IF p < i /\ i <= p + m THEN w[i - p] ELSE v[i]
  <2>1. CASE i <= p
    BY <1>1, <1>4, <1>10, <1>13, <2>1
  <2>2. CASE p < i /\ i <= p + m
    BY <1>1, <1>10, <1>13, <2>2
  <2>3. CASE p + m < i
    <3>1. i - (p + m) \in 1..(n - (p + m)) /\ i - (p + m) + (p + m) = i
      BY <1>1, <2>3
    <3> QED
      BY <1>1, <1>7, <1>13, <2>3, <3>1
  <2> QED
    BY <1>1, <2>1, <2>2, <2>3
<1> QED
  BY <1>11, <1>12, <1>14, <1>15

(* There is memory up to the end of the word that the bytes before at are  *)
(* in.                                                                     *)
Room(mem, at) == 4 * ((at + 3) \div 4) <= Len(mem)

(* So there is the halfword or the word that a byte is in.                 *)
LEMMA RoomIs ==
  ASSUME NEW mem, NEW at \in Int, Room(mem, at), at >= 0, Len(mem) \in Nat
  PROVE  /\ at <= Len(mem)
         /\ at % 2 = 1 => at + 1 <= Len(mem)
         /\ at % 4 # 0 => at + (4 - (at % 4)) <= Len(mem)
BY DEF Room

(* A byte of memory.                                                       *)
LEMMA MemoryByte ==
  ASSUME NEW mem, NEW p \in Int, mem \in Seq(Nat), p >= 0, p < Len(mem)
  PROVE  At(mem, p) \in Nat /\ At(mem, p) = mem[p + 1]
BY DEF At

(* Arithmetic of an odd byte at the end.                                   *)
LEMMA OddSize ==
  ASSUME NEW size \in Int, NEW dst \in Int, size >= 0, size % 2 # 0, dst % 2 = 0
  PROVE  /\ size > 0 /\ 2 * (size \div 2) = size - 1 /\ size % 2 = 1
         /\ (dst + size - 1) % 2 = 0 /\ (dst + size) % 2 = 1
OBVIOUS

(* The copy by halfwords, an odd byte at its end merged with the byte that *)
(* is there (tonccpy.c).                                                   *)
LEMMA HalfwordsTile ==
  ASSUME NEW mem, NEW t, NEW dst \in Int, NEW src \in Int, NEW size \in Int,
         mem \in Seq(Nat), t \in Seq(Nat), dst >= 0, src >= 0, size >= 0, dst % 2 = 0,
         src + size <= Len(mem), Room(mem, dst + size),
         Holds(t, mem, dst, dst + size, src),
         \A p \in DOMAIN t : dst + size < p => t[p] = mem[p]
  PROVE  Tiles(Halfwords(mem, dst, src, size), t, dst, dst + size)
<1> DEFINE n == size \div 2
           main == Copies(mem, n, 2, dst, src)
           last == dst + size - 1
           two == <<At(mem, src + size - 1), At(mem, dst + size)>>
           tail == IF size % 2 = 0 THEN <<>> ELSE Write(last, two)
<1>1. n \in Nat /\ 2 * n <= size
  OBVIOUS
<1> HIDE DEF n
<1>2. Tiles(main, t, dst, dst + (2 * n))
  <2>1. src + (2 * n) <= Len(mem) /\ Aligned(dst, 2) /\ 2 \in {2, 4}
    BY <1>1 DEF Aligned
  <2>2. Holds(t, mem, dst, dst + (2 * n), src)
    BY <1>1 DEF Holds
  <2> QED
    BY <1>1, <2>1, <2>2, CopiesTile
<1>3. Tiles(tail, t, dst + (2 * n), dst + size)
  <2>1. CASE size % 2 = 0
    <3>1. dst + size <= dst + (2 * n) /\ dst + size \in Int /\ dst + (2 * n) \in Int
      BY <1>1, <2>1 DEF n
    <3> QED
      BY <2>1, <3>1, NothingTiles
  <2>2. CASE size % 2 # 0
    <3>1. size > 0 /\ last % 2 = 0 /\ (dst + size) % 2 = 1
      BY <2>2, OddSize DEF n
    <3>2. 2 * n = size - 1
      BY <2>2, OddSize DEF n
    <3>3. last = dst + (2 * n) /\ last \in Int
      BY <1>1, <3>2
    <3>4. dst + size + 1 <= Len(mem) /\ Len(mem) \in Nat
      <4> DEFINE at == dst + size
      <4>1. at \in Int /\ at >= 0 /\ at % 2 = 1 /\ Len(mem) \in Nat /\ Room(mem, at)
        BY <3>1
      <4> HIDE DEF at
      <4>2. at + 1 <= Len(mem)
        BY <4>1, RoomIs
      <4> QED
        BY <4>1, <4>2 DEF at
    <3>5. /\ At(mem, src + size - 1) \in Nat /\ At(mem, src + size - 1) = mem[src + size]
          /\ At(mem, dst + size) \in Nat /\ At(mem, dst + size) = mem[dst + size + 1]
      <4>1. src + size - 1 \in Int /\ src + size - 1 >= 0 /\ src + size - 1 < Len(mem)
        BY <3>1, <3>4
      <4>2. dst + size \in Int /\ dst + size >= 0 /\ dst + size < Len(mem)
        BY <3>4
      <4>3. src + size - 1 + 1 = src + size
        OBVIOUS
      <4> QED
        BY <4>1, <4>3, <4>2, MemoryByte
    <3>6. /\ two \in Seq(Nat) /\ Len(two) = 2
          /\ two[1] = mem[src + size] /\ two[2] = mem[dst + size + 1]
      BY <3>5
    <3>7. last + 1 \in DOMAIN t => t[last + 1] = mem[src + size]
      <4>1. last + 1 = dst + size
        OBVIOUS
      <4>2. dst + size \in DOMAIN t => t[dst + size] = mem[(dst + size - dst) + src]
        <5> DEFINE p == dst + size
        <5>1. dst < p /\ p <= dst + size
          BY <3>1
        <5> HIDE DEF p
        <5>2. p \in DOMAIN t => t[p] = mem[(p - dst) + src]
          BY <5>1 DEF Holds
        <5> QED
          BY <5>2 DEF p
      <4>3. (dst + size - dst) + src = src + size
        OBVIOUS
      <4> QED
        BY <4>1, <4>2, <4>3
    <3>8. last + 2 \in DOMAIN t => t[last + 2] = mem[dst + size + 1]
      <4>1. last + 2 = dst + size + 1
        OBVIOUS
      <4>2. dst + size + 1 \in DOMAIN t => t[dst + size + 1] = mem[dst + size + 1]
        <5> DEFINE p == dst + size + 1
        <5>1. dst + size < p
          OBVIOUS
        <5> HIDE DEF p
        <5>2. p \in DOMAIN t => t[p] = mem[p]
          BY <5>1
        <5> QED
          BY <5>2 DEF p
      <4> QED
        BY <4>1, <4>2
    <3>9. dst + (2 * n) \in Int /\ dst + size \in Int /\ dst + size <= last + 2
      BY <1>1
    <3> HIDE DEF last, two
    <3>10. \A p \in 1..Len(two) : last + p \in DOMAIN t => two[p] = t[last + p]
      BY <3>6, <3>7, <3>8, SMTT(30)
    <3> DEFINE a == dst + (2 * n)
               b == dst + size
    <3>11. a \in Int /\ b \in Int /\ last <= a /\ last \in Int
      BY <1>1, <3>3
    <3>12. last % Len(two) = 0 /\ b <= last + Len(two) /\ Len(two) \in {2, 4}
      BY <3>1, <3>6, <3>9
    <3>13. two \in Seq(Nat)
      BY <3>6
    <3> HIDE DEF a, b
    <3>14. Tiles(Write(last, two), t, a, b)
      BY <3>10, <3>11, <3>12, <3>13, OneTile
    <3> QED
      BY <2>2, <3>14 DEF a, b
  <2> QED
    BY <2>1, <2>2
<1>4. Halfwords(mem, dst, src, size) = main \o tail
  BY DEF Halfwords, n
<1>5. dst + (2 * n) \in Int /\ dst + size \in Int
  BY <1>1
<1> HIDE DEF main, tail
<1> QED
  BY <1>2, <1>3, <1>4, <1>5, TilesJoin

(* What a copy of size bytes from src to dst comes to.                     *)
CopyOf(t, mem, dst, src, size) ==
  /\ mem \in Seq(Nat) /\ t \in Seq(Nat) /\ Len(t) = Len(mem)
  /\ src + size <= Len(mem) /\ Room(mem, dst + size)
  /\ Holds(t, mem, dst, dst + size, src)
  /\ \A p \in DOMAIN t : p <= dst \/ dst + size < p => t[p] = mem[p]

(* The same of a copy.                                                     *)
LEMMA HalfwordsCopy ==
  ASSUME NEW mem, NEW t, NEW dst \in Int, NEW src \in Int, NEW size \in Int,
         CopyOf(t, mem, dst, src, size), dst >= 0, src >= 0, size >= 0, dst % 2 = 0
  PROVE  Tiles(Halfwords(mem, dst, src, size), t, dst, dst + size)
<1>1. /\ mem \in Seq(Nat) /\ t \in Seq(Nat)
      /\ src + size <= Len(mem) /\ Room(mem, dst + size)
      /\ Holds(t, mem, dst, dst + size, src)
      /\ \A p \in DOMAIN t : dst + size < p => t[p] = mem[p]
  BY DEF CopyOf
<1> QED
  BY <1>1, HalfwordsTile

(* The unrolled loop runs as often as it is asked to (tonccpy.c).          *)
LEMMA DuffIs ==
  ASSUME NEW count \in Nat
  PROVE  Duff(count) = count
BY DEF Duff

(* tonccpy, by the byte at its start, by halfwords, by words and what is   *)
(* left over, for every alignment of both ends.                            *)
LEMMA tonccpyTile ==
  ASSUME NEW mem, NEW t, NEW dst \in Int, NEW src \in Int, NEW size \in Int,
         CopyOf(t, mem, dst, src, size), dst >= 0, src >= 0, size >= 0
  PROVE  Tiles(tonccpy(mem, dst, src, size), t, dst, dst + size)
<1> DEFINE words == 4 * (size \div 4)
           aligned == size >= 4 /\ src % 4 = 0 /\ dst % 4 = 0
<1>1. /\ mem \in Seq(Nat) /\ t \in Seq(Nat)
      /\ src + size <= Len(mem) /\ Room(mem, dst + size) /\ Len(mem) \in Nat
  BY DEF CopyOf
<1>2. Holds(t, mem, dst, dst + size, src)
  BY DEF CopyOf
<1>3. \A p \in DOMAIN t : p <= dst \/ dst + size < p => t[p] = mem[p]
  BY DEF CopyOf
<1>4. ASSUME NEW done \in Nat, done <= size, (dst + done) % 2 = 0
      PROVE  Tiles(Halfwords(mem, dst + done, src + done, size - done), t,
                   dst + done, dst + size)
  <2> DEFINE d == dst + done
             s == src + done
             n == size - done
  <2>1. /\ d \in Int /\ s \in Int /\ n \in Int /\ d >= 0 /\ s >= 0 /\ n >= 0
        /\ d % 2 = 0
    BY <1>4
  <2>2. s + n = src + size /\ d + n = dst + size
    BY <1>4
  <2>3. Holds(t, mem, d, dst + size, s)
    <3>1. ASSUME NEW p \in DOMAIN t, d < p, p <= dst + size
          PROVE  t[p] = mem[(p - d) + s]
      <4>1. p \in Int
        BY <1>1
      <4>2. (p - d) + s = (p - dst) + src /\ dst < p
        BY <1>4, <3>1, <4>1
      <4>3. t[p] = mem[(p - dst) + src]
        BY <1>2, <3>1, <4>2 DEF Holds
      <4> QED
        BY <4>2, <4>3
    <3> QED
      BY <3>1 DEF Holds
  <2> HIDE DEF d, s, n
  <2>4. s + n <= Len(mem) /\ Room(mem, d + n) /\ Holds(t, mem, d, d + n, s)
    BY <1>1, <2>2, <2>3
  <2>5. \A p \in DOMAIN t : d + n < p => t[p] = mem[p]
    BY <1>3, <2>2
  <2>6. Tiles(Halfwords(mem, d, s, n), t, d, d + n)
    BY <1>1, <2>1, <2>4, <2>5, HalfwordsTile
  <2> QED
    BY <2>2, <2>6 DEF d, s, n
<1>5. CASE size = 0
  <2>1. tonccpy(mem, dst, src, size) = <<>>
    BY <1>5 DEF tonccpy
  <2>2. dst + size <= dst /\ dst + size \in Int
    BY <1>5
  <2> QED
    BY <1>1, <2>1, <2>2, NothingTiles
<1>6. CASE size > 0 /\ aligned
  <2> DEFINE n == size \div 4
             d == dst + words
             main == Copies(mem, n, 4, dst, src)
             tail == Halfwords(mem, d, src + words, size - words)
  <2>1. n \in Nat /\ words = 4 * n /\ words <= size /\ words \in Nat
    OBVIOUS
  <2>2. (dst + words) % 2 = 0
    BY <1>6
  <2>3. tonccpy(mem, dst, src, size) = main \o tail
    <3>1. Duff(size \div 4) = size \div 4
      BY <2>1, DuffIs
    <3>2. size # 0
      BY <1>6
    <3>3. tonccpy(mem, dst, src, size) = Copies(mem, Duff(size \div 4), 4, dst, src) \o tail
      BY <1>6, <3>2 DEF tonccpy
    <3> QED
      BY <3>1, <3>3
  <2> HIDE DEF n, words
  <2>4. Tiles(tail, t, d, dst + size)
    BY <1>4, <2>1, <2>2
  <2>5. Tiles(main, t, dst, dst + (4 * n))
    <3>1. src + (4 * n) <= Len(mem) /\ Aligned(dst, 4) /\ 4 \in {2, 4}
      BY <1>1, <1>6, <2>1 DEF Aligned
    <3>2. Holds(t, mem, dst, dst + (4 * n), src)
      <4>1. ASSUME NEW p \in DOMAIN t, dst < p, p <= dst + (4 * n)
            PROVE  t[p] = mem[(p - dst) + src]
        <5>1. p \in Int
          BY <1>1
        <5>2. p <= dst + size
          BY <2>1, <4>1, <5>1
        <5> QED
          BY <1>2, <4>1, <5>2 DEF Holds
      <4> QED
        BY <4>1 DEF Holds
    <3> QED
      BY <1>1, <2>1, <3>1, <3>2, CopiesTile
  <2>6. d = dst + (4 * n)
    BY <2>1
  <2>7. d \in Int /\ dst + size \in Int
    BY <2>1
  <2> HIDE DEF main, tail, d
  <2> QED
    BY <1>1, <2>3, <2>4, <2>5, <2>6, <2>7, TilesJoin
<1>7. CASE size > 0 /\ ~aligned /\ dst % 2 = 1
  <2> DEFINE two == <<At(mem, dst - 1), At(mem, src)>>
             at == dst - 1
             d == dst + 1
             head == Write(at, two)
             tail == Halfwords(mem, d, src + 1, size - 1)
  <2>1. tonccpy(mem, dst, src, size) = head \o tail
    BY <1>7 DEF tonccpy
  <2>2. Tiles(tail, t, d, dst + size)
    <3>1. 1 \in Nat /\ 1 <= size /\ (dst + 1) % 2 = 0
      BY <1>7
    <3> QED
      BY <1>4, <3>1
  <2>3. at \in Int /\ at >= 0 /\ at % 2 = 0 /\ at < Len(mem)
    <3>1. dst + size <= Len(mem)
      <4> DEFINE c == 4 * ((dst + size + 3) \div 4)
      <4>1. c <= Len(mem)
        BY <1>1 DEF Room
      <4>2. c \in Int /\ dst + size <= c
        OBVIOUS
      <4>3. Len(mem) \in Nat
        BY <1>1
      <4> HIDE DEF c
      <4> QED
        BY <4>1, <4>2, <4>3
    <3>2. at < dst + size /\ at \in Int /\ at >= 0
      BY <1>7
    <3>3. at % 2 = 0
      BY <1>7
    <3>4. at < Len(mem)
      BY <1>1, <3>1, <3>2
    <3> HIDE DEF at
    <3> QED
      BY <3>2, <3>3, <3>4
  <2>4. src < Len(mem)
    BY <1>1, <1>7
  <2>5. At(mem, at) \in Nat /\ At(mem, at) = mem[at + 1]
    BY <1>1, <2>3, MemoryByte
  <2>6. At(mem, src) \in Nat /\ At(mem, src) = mem[src + 1]
    BY <1>1, <2>4, MemoryByte
  <2>7. /\ two \in Seq(Nat) /\ Len(two) = 2 /\ two[1] = mem[dst] /\ two[2] = mem[src + 1]
    BY <2>5, <2>6
  <2>8. at + 1 \in DOMAIN t => t[at + 1] = mem[dst]
    BY <1>3
  <2>9. at + 2 \in DOMAIN t => t[at + 2] = mem[src + 1]
    <3>1. at + 2 = d /\ d \in Int /\ dst < d /\ d <= dst + size
      BY <1>7
    <3>2. (d - dst) + src = src + 1
      OBVIOUS
    <3> HIDE DEF d
    <3>3. d \in DOMAIN t => t[d] = mem[(d - dst) + src]
      BY <1>2, <3>1 DEF Holds
    <3> QED
      BY <3>1, <3>2, <3>3
  <2>10. d \in Int /\ at <= dst /\ d <= at + 2 /\ dst + size \in Int
    OBVIOUS
  <2> HIDE DEF two, at, d
  <2>11. \A p \in 1..Len(two) : at + p \in DOMAIN t => two[p] = t[at + p]
    BY <2>7, <2>8, <2>9
  <2>12. Tiles(head, t, dst, d)
    <3>1. /\ two \in Seq(Nat) /\ Len(two) \in {2, 4} /\ at % Len(two) = 0
          /\ d <= at + Len(two)
      BY <2>3, <2>7, <2>10
    <3> QED
      BY <1>1, <2>3, <2>10, <2>11, <3>1, OneTile
  <2> HIDE DEF head, tail
  <2> QED
    BY <1>1, <2>1, <2>2, <2>10, <2>12, TilesJoin
<1>8. CASE size > 0 /\ ~aligned /\ dst % 2 # 1
  <2>1. tonccpy(mem, dst, src, size) = Halfwords(mem, dst, src, size)
    BY <1>8 DEF tonccpy
  <2>2. dst % 2 = 0
    BY <1>8
  <2> QED
    BY <2>1, <2>2, HalfwordsCopy
<1> QED
  BY <1>5, <1>6, <1>7, <1>8

(* What a fill with the word fill comes to: fill lies on words.            *)
FillOf(t, mem, dst, fill, size) ==
  /\ mem \in Seq(Nat) /\ t \in Seq(Nat) /\ Len(t) = Len(mem)
  /\ fill \in Seq(Nat) /\ Len(fill) = 4
  /\ Room(mem, dst + size)
  /\ \A p \in DOMAIN t : dst < p /\ p <= dst + size => t[p] = fill[((p - 1) % 4) + 1]
  /\ \A p \in DOMAIN t : p <= dst \/ dst + size < p => t[p] = mem[p]

(* A word of which some bytes are written and the others written back.     *)
LEMMA MaskedTile ==
  ASSUME NEW mem, NEW t, NEW at \in Int, NEW fill, NEW first \in Int, NEW last \in Int,
         mem \in Seq(Nat), t \in Seq(Nat), fill \in Seq(Nat), Len(fill) = 4,
         at >= 0, at % 4 = 0, first >= 0, last <= 4, at + 4 <= Len(mem),
         \A i \in 1..4 : at + i \in DOMAIN t =>
            t[at + i] = IF first < i /\ i <= last THEN fill[i] ELSE mem[at + i]
  PROVE  Tiles(Masked(mem, at, fill, first, last), t, at + first, at + last)
<1> DEFINE one(i) == IF first < i /\ i <= last THEN fill[i] ELSE At(mem, at + i - 1)
           row == [i \in 1..4 |-> one(i)]
           a == at + first
           b == at + last
<1>1. ASSUME NEW i \in 1..4
      PROVE  one(i) \in Nat /\ (at + i \in DOMAIN t => one(i) = t[at + i])
  <2>1. fill[i] \in Nat
    <3>1. i \in 1..Len(fill)
      OBVIOUS
    <3> QED
      BY <3>1, ElementOfSeq
  <2>2. At(mem, at + i - 1) \in Nat /\ At(mem, at + i - 1) = mem[at + i]
    <3>1. at + i - 1 \in Int /\ at + i - 1 >= 0 /\ at + i - 1 < Len(mem)
      OBVIOUS
    <3>2. at + i - 1 + 1 = at + i
      OBVIOUS
    <3> QED
      BY <3>1, <3>2, MemoryByte
  <2> QED
    BY <2>1, <2>2
<1> HIDE DEF one
<1>2. row \in Seq(Nat)
  BY <1>1
<1>3. Len(row) = 4 /\ \A i \in 1..4 : row[i] = one(i)
  OBVIOUS
<1>4. Masked(mem, at, fill, first, last) = Write(at, <<>> \o row)
  BY DEF Masked, row, one
<1> HIDE DEF row
<1>5. <<>> \o row = row
  BY <1>2
<1>6. a \in Int /\ b \in Int /\ at <= a /\ b <= at + 4
  OBVIOUS
<1> HIDE DEF a, b
<1>7. Len(row) \in {2, 4} /\ at % Len(row) = 0 /\ b <= at + Len(row)
  BY <1>3, <1>6
<1>8. \A i \in 1..Len(row) : at + i \in DOMAIN t => row[i] = t[at + i]
  BY <1>1, <1>3
<1>9. Tiles(Write(at, row), t, a, b)
  BY <1>2, <1>6, <1>7, <1>8, OneTile
<1> QED
  BY <1>4, <1>5, <1>9 DEF a, b

(* A stretch of words.                                                     *)
LEMMA FillsOfTile ==
  ASSUME NEW mem, NEW t, NEW dst \in Int, NEW fill, NEW size \in Int,
         NEW start \in Int, NEW n \in Int, FillOf(t, mem, dst, fill, size),
         n \in Nat, start >= dst, start + (4 * n) <= dst + size, start % 4 = 0
  PROVE  Tiles(Fills(n, start, fill), t, start, start + (4 * n))
<1>1. t \in Seq(Nat) /\ fill \in Seq(Nat)
  BY DEF FillOf
<1>2. Len(fill) = 4
  BY DEF FillOf
<1>3. ASSUME NEW p \in DOMAIN t, start < p, p <= start + (4 * n)
      PROVE  t[p] = fill[((p - 1) % 4) + 1]
  <2>1. p \in Int
    BY <1>1
  <2>2. dst < p /\ p <= dst + size
    BY <1>3, <2>1
  <2> QED
    BY <2>2 DEF FillOf
<1> QED
  BY <1>1, <1>2, <1>3, FillsTile

(* A word at the edge of the stretch.                                      *)
LEMMA MaskedOfTile ==
  ASSUME NEW mem, NEW t, NEW dst \in Int, NEW fill, NEW size \in Int,
         NEW at \in Int, NEW first \in Int, NEW last \in Int,
         FillOf(t, mem, dst, fill, size), dst >= 0, size > 0,
         at >= 0, at % 4 = 0, first >= 0, last <= 4, first < last,
         at + first >= dst, first = 0 \/ at + first = dst,
         at + last <= dst + size, last = 4 \/ at + last = dst + size
  PROVE  Tiles(Masked(mem, at, fill, first, last), t, at + first, at + last)
<1>1. mem \in Seq(Nat) /\ t \in Seq(Nat) /\ fill \in Seq(Nat) /\ Len(mem) \in Nat
  BY DEF FillOf
<1>2. Len(fill) = 4
  BY DEF FillOf
<1>3. \A p \in DOMAIN t : dst < p /\ p <= dst + size => t[p] = fill[((p - 1) % 4) + 1]
  BY DEF FillOf
<1>4. \A p \in DOMAIN t : p <= dst \/ dst + size < p => t[p] = mem[p]
  BY DEF FillOf
<1>5. at + 4 <= Len(mem)
  <2>1. Room(mem, dst + size)
    BY DEF FillOf
  <2>2. 4 * ((dst + size + 3) \div 4) <= Len(mem)
    BY <2>1 DEF Room
  <2>3. at + 4 <= 4 * ((dst + size + 3) \div 4)
    <3>1. at < dst + size
      OBVIOUS
    <3> DEFINE b == dst + size
               q == at \div 4
    <3>2. b \in Int
      OBVIOUS
    <3>3. q \in Int
      OBVIOUS
    <3>4. at = 4 * q
      OBVIOUS
    <3> HIDE DEF b, q
    <3>5. 4 * q < b
      BY <3>1, <3>4 DEF b
    <3>6. (4 * q) + 4 <= 4 * ((b + 3) \div 4)
      BY <3>2, <3>3, <3>5
    <3> QED
      BY <3>4, <3>6 DEF b
  <2> QED
    BY <1>1, <2>2, <2>3
<1>6. ASSUME NEW i \in 1..4, at + i \in DOMAIN t
      PROVE  t[at + i] = IF first < i /\ i <= last THEN fill[i] ELSE mem[at + i]
  <2> DEFINE p == at + i
  <2>1. p \in Int /\ p \in DOMAIN t /\ i \in Int
    BY <1>6
  <2>2. CASE first < i /\ i <= last
    <3>1. dst < p /\ p <= dst + size
      BY <2>2
    <3>2. ((p - 1) % 4) + 1 = i
      <4> DEFINE r == i - 1
      <4>1. r \in 0..3
        OBVIOUS
      <4>2. p - 1 = at + r
        OBVIOUS
      <4>3. r + 1 = i
        OBVIOUS
      <4> HIDE DEF r, p
      <4>4. (at + r) % 4 = r
        BY <4>1, FourNext
      <4> QED
        BY <4>2, <4>3, <4>4
    <3> HIDE DEF p
    <3>3. t[p] = fill[((p - 1) % 4) + 1]
      BY <1>3, <2>1, <3>1
    <3> QED
      BY <2>2, <3>2, <3>3 DEF p
  <2>3. CASE ~(first < i /\ i <= last)
    <3>1. p <= dst \/ dst + size < p
      BY <2>3
    <3> HIDE DEF p
    <3>2. t[p] = mem[p]
      BY <1>4, <2>1, <3>1
    <3> QED
      BY <2>3, <3>2 DEF p
  <2> QED
    BY <2>2, <2>3
<1> QED
  BY <1>1, <1>2, <1>5, <1>6, MaskedTile

(* A fill: the word at the start, the words, the word at the end, or one   *)
(* word with both ends in it (tonccpy.c).                                  *)
LEMMA __toncsetTile ==
  ASSUME NEW mem, NEW t, NEW dst \in Int, NEW fill, NEW size \in Int,
         FillOf(t, mem, dst, fill, size), dst >= 0, size >= 0
  PROVE  Tiles(__toncset(mem, dst, fill, size), t, dst, dst + size)
<1> DEFINE left == dst % 4
           start == IF left = 0 THEN dst ELSE dst + (4 - left)
           rest == IF left = 0 THEN size ELSE size - (4 - left)
           n == rest \div 4
           up == start + (4 * n)
           edge == rest % 4
           head == IF left = 0 THEN <<>> ELSE Masked(mem, dst - left, fill, left, 4)
           main == Fills(Duff(n), start, fill)
           tail == IF rest % 4 = 0 THEN <<>> ELSE Masked(mem, up, fill, 0, edge)
           b == dst + size
<1>1. mem \in Seq(Nat) /\ t \in Seq(Nat)
  BY DEF FillOf
<1>2. left \in 0..3 /\ dst - left \in Int /\ dst - left >= 0 /\ (dst - left) % 4 = 0
  OBVIOUS
<1>3. CASE size = 0
  <2>1. __toncset(mem, dst, fill, size) = <<>>
    BY <1>3 DEF __toncset
  <2>2. dst + size <= dst /\ dst + size \in Int
    BY <1>3
  <2> QED
    BY <1>1, <2>1, <2>2, NothingTiles
<1>4. CASE size > 0 /\ left # 0 /\ left + size < 4
  <2>1. __toncset(mem, dst, fill, size) = Masked(mem, dst - left, fill, left, left + size)
    BY <1>4 DEF __toncset
  <2> DEFINE at == dst - left
             last == left + size
  <2>2. /\ at \in Int /\ left \in Int /\ last \in Int /\ at >= 0 /\ at % 4 = 0
        /\ left >= 0 /\ last <= 4 /\ left < last
    BY <1>2, <1>4
  <2>3. at + left = dst /\ at + last = dst + size
    BY <1>2
  <2> HIDE DEF at, last, left
  <2>4. Tiles(Masked(mem, at, fill, left, last), t, at + left, at + last)
    BY <1>4, <2>2, <2>3, MaskedOfTile
  <2> QED
    BY <2>1, <2>3, <2>4 DEF at, last
<1>5. CASE size > 0 /\ ~(left # 0 /\ left + size < 4)
  <2>1. __toncset(mem, dst, fill, size) = head \o main \o tail
    <3>1. ~(size = 0) /\ ~(size > 0 /\ dst % 4 # 0 /\ (dst % 4) + size < 4)
      BY <1>5
    <3>2. __toncset(mem, dst, fill, size)
            = head \o Fills(Duff(n), start, fill)
                \o (IF rest % 4 = 0 THEN <<>>
                    ELSE Masked(mem, start + (4 * n), fill, 0, rest % 4))
      BY <3>1, Zenon DEF __toncset
    <3> QED
      BY <3>2
  <2>2. start \in Int /\ start >= dst /\ start % 4 = 0 /\ start <= b /\ b \in Int
    BY <1>2, <1>5
  <2>3. rest \in Nat /\ start + rest = b
    BY <1>2, <1>5
  <2>4. Tiles(head, t, dst, start)
    <3>1. CASE left = 0
      <4>1. head = <<>> /\ start <= dst
        BY <3>1
      <4> HIDE DEF head, start
      <4> QED
        BY <1>1, <2>2, <4>1, NothingTiles
    <3>2. CASE left # 0
      <4> DEFINE at == dst - left
      <4>1. /\ at \in Int /\ left \in Int /\ at >= 0 /\ at % 4 = 0
            /\ left >= 0 /\ left < 4
        BY <1>2
      <4>2. at + left = dst /\ at + 4 = start
        BY <1>2, <3>2
      <4>3. at + 4 <= dst + size
        BY <2>2, <4>2
      <4>4. head = Masked(mem, at, fill, left, 4)
        BY <3>2
      <4> HIDE DEF at, left, head, start
      <4>5. Tiles(Masked(mem, at, fill, left, 4), t, at + left, at + 4)
        BY <1>5, <4>1, <4>2, <4>3, MaskedOfTile
      <4> QED
        BY <4>2, <4>4, <4>5
    <3> QED
      BY <3>1, <3>2
  <2>5. n \in Nat /\ edge \in 0..3
    BY <2>3
  <2>6. rest = (4 * n) + edge
    BY <2>3
  <2>7. up \in Int /\ up + edge = b /\ up % 4 = 0 /\ up >= start /\ up <= b
    <3> HIDE DEF start, rest, n, edge, b
    <3>1. up + edge = b
      BY <2>2, <2>3, <2>5, <2>6
    <3>2. up \in Int /\ up >= start
      BY <2>2, <2>5
    <3>3. up % 4 = 0
      BY <2>2, <2>5, FourApart
    <3> HIDE DEF up
    <3>4. up <= b
      BY <3>1, <3>2, <2>5, <2>2
    <3> QED
      BY <3>1, <3>2, <3>3, <3>4
  <2>8. Tiles(main, t, start, up)
    <3>1. Duff(n) = n
      BY <2>5, DuffIs
    <3> HIDE DEF start, n, b
    <3>2. start + (4 * n) <= dst + size
      BY <2>7 DEF b
    <3>3. Tiles(Fills(n, start, fill), t, start, start + (4 * n))
      BY <2>2, <2>5, <3>2, FillsOfTile
    <3> QED
      BY <3>1, <3>3
  <2>9. Tiles(tail, t, up, b)
    <3>1. CASE edge = 0
      <4>1. tail = <<>> /\ b <= up
        BY <2>7, <3>1
      <4> HIDE DEF tail, b, up
      <4> QED
        BY <1>1, <2>2, <2>7, <4>1, NothingTiles
    <3>2. CASE edge # 0
      <4>1. tail = Masked(mem, up, fill, 0, edge)
        BY <3>2
      <4>2. edge \in Int /\ edge <= 4 /\ 0 < edge /\ 0 \in Int /\ up + 0 = up
        BY <2>5, <2>7, <3>2
      <4>3. up + 0 >= dst /\ up >= 0
        BY <2>2, <2>7
      <4>4. up + edge = dst + size
        BY <2>7
      <4> HIDE DEF tail, up, edge
      <4>5. up + edge <= dst + size
        BY <4>4
      <4>6. Tiles(Masked(mem, up, fill, 0, edge), t, up + 0, up + edge)
        BY <1>5, <2>7, <4>2, <4>3, <4>4, <4>5, MaskedOfTile
      <4> QED
        BY <4>1, <4>2, <4>4, <4>6
    <3> QED
      BY <3>1, <3>2
  <2> HIDE DEF head, main, tail, start, up, b
  <2>10. Tiles(head \o main, t, dst, up)
    BY <1>1, <2>2, <2>4, <2>7, <2>8, TilesJoin
  <2>11. Tiles(head \o main \o tail, t, dst, b)
    BY <1>1, <2>2, <2>7, <2>9, <2>10, TilesJoin
  <2> QED
    BY <2>1, <2>11 DEF b
<1> QED
  BY <1>2, <1>3, <1>4, <1>5

(* In memory of whole words there is always such room.                     *)
LEMMA RoomWithin ==
  ASSUME NEW mem, NEW at \in Int, Len(mem) \in Nat, Len(mem) % 4 = 0, at <= Len(mem)
  PROVE  Room(mem, at)
<1> DEFINE l == Len(mem)
<1>1. l \in Nat /\ l % 4 = 0 /\ at <= l
  OBVIOUS
<1> HIDE DEF l
<1>2. 4 * ((at + 3) \div 4) <= l
  BY <1>1
<1> QED
  BY <1>2 DEF Room, l

(* What memory holds with the bytes laid over it is what a copy, or a      *)
(* fill, comes to.                                                         *)
LEMMA CopyTarget ==
  ASSUME NEW mem, NEW dst \in Int, NEW src \in Int, NEW size \in Int,
         mem \in Seq(Nat), dst >= 0, src >= 0, size >= 0, src + size <= Len(mem),
         dst + size <= Len(mem), Room(mem, dst + size)
  PROVE  /\ CopyOf(Over(mem, dst, Taken4(mem, src, size)), mem, dst, src, size)
         /\ Len(Taken4(mem, src, size)) = size
<1> DEFINE w == Taken4(mem, src, size)
           t == Over(mem, dst, w)
<1>1. w \in Seq(Nat)
  BY TakenIs
<1>2. Len(w) = size
  BY TakenIs
<1>3. \A j \in 1..size : w[j] = mem[src + j]
  BY TakenIs
<1> HIDE DEF w
<1>4. t \in Seq(Nat)
  BY <1>1, <1>2, OverIs
<1>5. Len(t) = Len(mem)
  BY <1>1, <1>2, OverIs
<1>6. \A i \in 1..Len(mem) :
        t[i] = IF dst < i /\ i <= dst + Len(w) THEN w[i - dst] ELSE mem[i]
  BY <1>1, <1>2, OverIs
<1> HIDE DEF t
<1>7. DOMAIN t = 1..Len(mem) /\ Len(mem) \in Nat
  BY <1>4, <1>5
<1>8. Holds(t, mem, dst, dst + size, src)
  <2>1. ASSUME NEW p \in DOMAIN t, dst < p, p <= dst + size
        PROVE  t[p] = mem[(p - dst) + src]
    <3> DEFINE j == p - dst
    <3>1. p \in Int /\ p \in 1..Len(mem)
      BY <1>7
    <3>2. j \in 1..size
      BY <2>1, <3>1
    <3>3. t[p] = w[j]
      BY <1>2, <1>6, <2>1, <3>1
    <3> HIDE DEF j
    <3>4. w[j] = mem[src + j]
      BY <1>3, <3>2
    <3>5. src + j = j + src
      BY <3>2
    <3>6. t[p] = mem[j + src]
      BY <3>3, <3>4, <3>5
    <3> QED
      BY <3>6 DEF j
  <2> QED
    BY <2>1 DEF Holds
<1>9. ASSUME NEW p \in DOMAIN t, p <= dst \/ dst + size < p
      PROVE  t[p] = mem[p]
  <2>1. p \in 1..Len(mem)
    BY <1>7
  <2> QED
    BY <1>2, <1>6, <1>9, <2>1
<1>10. CopyOf(t, mem, dst, src, size)
  BY <1>4, <1>5, <1>8, <1>9 DEF CopyOf
<1> QED
  BY <1>2, <1>10 DEF t, w

(* The same of a fill.                                                     *)
LEMMA FillTarget ==
  ASSUME NEW mem, NEW dst \in Int, NEW bytes, NEW fill,
         mem \in Seq(Nat), bytes \in Seq(Nat), fill \in Seq(Nat), Len(fill) = 4,
         dst >= 0, dst + Len(bytes) <= Len(mem), Room(mem, dst + Len(bytes)),
         \A i \in 1..Len(bytes) : bytes[i] = fill[((dst + i - 1) % 4) + 1]
  PROVE  FillOf(Over(mem, dst, bytes), mem, dst, fill, Len(bytes))
<1> DEFINE t == Over(mem, dst, bytes)
           size == Len(bytes)
<1>1. size \in Nat
  OBVIOUS
<1>2. t \in Seq(Nat)
  BY OverIs
<1>3. Len(t) = Len(mem)
  BY OverIs
<1>4. \A i \in 1..Len(mem) :
        t[i] = IF dst < i /\ i <= dst + size THEN bytes[i - dst] ELSE mem[i]
  BY OverIs
<1> HIDE DEF t, size
<1>5. DOMAIN t = 1..Len(mem) /\ Len(mem) \in Nat
  BY <1>2, <1>3
<1>6. ASSUME NEW p \in DOMAIN t, dst < p, p <= dst + size
      PROVE  t[p] = fill[((p - 1) % 4) + 1]
  <2> DEFINE i == p - dst
  <2>1. p \in Int /\ p \in 1..Len(mem)
    BY <1>5
  <2>2. i \in 1..size
    BY <1>1, <1>6, <2>1
  <2>3. t[p] = bytes[i]
    BY <1>1, <1>4, <1>6, <2>1
  <2>4. dst + i - 1 = p - 1
    BY <2>1
  <2> HIDE DEF i
  <2>5. bytes[i] = fill[((dst + i - 1) % 4) + 1]
    BY <2>2 DEF size
  <2> QED
    BY <2>3, <2>4, <2>5
<1>7. ASSUME NEW p \in DOMAIN t, p <= dst \/ dst + size < p
      PROVE  t[p] = mem[p]
  <2>1. p \in 1..Len(mem)
    BY <1>5
  <2> QED
    BY <1>1, <1>4, <1>7, <2>1
<1>8. \A p \in DOMAIN t : dst < p /\ p <= dst + size => t[p] = fill[((p - 1) % 4) + 1]
  BY <1>6
<1>9. \A p \in DOMAIN t : p <= dst \/ dst + size < p => t[p] = mem[p]
  BY <1>7
<1>10. Room(mem, dst + size)
  BY DEF size
<1>11. FillOf(t, mem, dst, fill, size)
  BY <1>2, <1>3, <1>8, <1>9, <1>10 DEF FillOf
<1> QED
  BY <1>11 DEF t, size

(* What tiles a stretch has moved it.                                      *)
LEMMA CopyMoves ==
  ASSUME NEW mem, NEW dst \in Int, NEW src \in Int, NEW size \in Int, NEW writes,
         mem \in Seq(Nat), dst >= 0, src >= 0, size >= 0, src + size <= Len(mem),
         dst + size <= Len(mem), Room(mem, dst + size),
         Tiles(writes, Over(mem, dst, Taken4(mem, src, size)), dst, dst + size)
  PROVE  Moves(mem, writes, dst, Taken4(mem, src, size))
<1> DEFINE t == Over(mem, dst, Taken4(mem, src, size))
           b == dst + size
<1>1. CopyOf(t, mem, dst, src, size)
  BY CopyTarget
<1> HIDE DEF t
<1>2. Tiles(writes, t, dst, b) /\ b \in Int
  BY DEF t
<1>3. t \in Seq(Nat) /\ mem \in Seq(Nat)
  BY <1>1 DEF CopyOf
<1>4. Len(t) = Len(mem)
  BY <1>1 DEF CopyOf
<1>5. ASSUME NEW p \in 1..Len(mem), p <= dst \/ b < p
      PROVE  t[p] = mem[p]
  <2>1. p \in DOMAIN t
    BY <1>3, <1>4
  <2>2. \A i \in DOMAIN t : i <= dst \/ b < i => t[i] = mem[i]
    BY <1>1 DEF CopyOf
  <2> HIDE DEF b
  <2> QED
    BY <1>5, <2>1, <2>2
<1> HIDE DEF b
<1>6. After(mem, writes) = t
  BY <1>2, <1>3, <1>4, <1>5, TilesGive
<1>7. FitForVideoMemory(writes)
  BY <1>2 DEF Tiles
<1> QED
  BY <1>6, <1>7 DEF Moves, t

(* The same of a fill.                                                     *)
LEMMA FillMoves ==
  ASSUME NEW mem, NEW dst \in Int, NEW size \in Int, NEW bytes, NEW fill, NEW writes,
         FillOf(Over(mem, dst, bytes), mem, dst, fill, size),
         Tiles(writes, Over(mem, dst, bytes), dst, dst + size)
  PROVE  Moves(mem, writes, dst, bytes)
<1> DEFINE t == Over(mem, dst, bytes)
           b == dst + size
<1>1. FillOf(t, mem, dst, fill, size)
  OBVIOUS
<1> HIDE DEF t
<1>2. Tiles(writes, t, dst, b) /\ b \in Int
  BY DEF t
<1>3. t \in Seq(Nat) /\ mem \in Seq(Nat)
  BY <1>1 DEF FillOf
<1>4. Len(t) = Len(mem)
  BY <1>1 DEF FillOf
<1>5. ASSUME NEW p \in 1..Len(mem), p <= dst \/ b < p
      PROVE  t[p] = mem[p]
  <2>1. p \in DOMAIN t
    BY <1>3, <1>4
  <2>2. \A i \in DOMAIN t : i <= dst \/ b < i => t[i] = mem[i]
    BY <1>1 DEF FillOf
  <2> HIDE DEF b
  <2> QED
    BY <1>5, <2>1, <2>2
<1> HIDE DEF b
<1>6. After(mem, writes) = t
  BY <1>2, <1>3, <1>4, <1>5, TilesGive
<1>7. FitForVideoMemory(writes)
  BY <1>2 DEF Tiles
<1> QED
  BY <1>6, <1>7 DEF Moves, t

(* The routines move what they are asked to (tonccpy.c, common.h:82).      *)
LEMMA tonccpyMoves ==
  ASSUME NEW mem, NEW dst \in Int, NEW src \in Int, NEW size \in Int,
         mem \in Seq(Nat), dst >= 0, src >= 0, size >= 0, src + size <= Len(mem),
         dst + size <= Len(mem), Room(mem, dst + size)
  PROVE  Moves(mem, tonccpy(mem, dst, src, size), dst, Taken4(mem, src, size))
<1> DEFINE t == Over(mem, dst, Taken4(mem, src, size))
<1>1. CopyOf(t, mem, dst, src, size)
  BY CopyTarget
<1> HIDE DEF t
<1>2. Tiles(tonccpy(mem, dst, src, size), t, dst, dst + size)
  BY <1>1, tonccpyTile
<1> QED
  BY <1>2, CopyMoves DEF t

(* Words copied one by one.                                                *)
LEMMA copyLoopMoves ==
  ASSUME NEW mem, NEW dst \in Int, NEW src \in Int, NEW size \in Int,
         mem \in Seq(Nat), dst >= 0, src >= 0, size > 0, src + size <= Len(mem),
         dst + size <= Len(mem), Room(mem, dst + size),
         Aligned(dst, 4), Aligned(size, 4)
  PROVE  Moves(mem, copyLoop(mem, dst, src, size), dst, Taken4(mem, src, size))
<1> DEFINE t == Over(mem, dst, Taken4(mem, src, size))
           n == size \div 4
<1>1. size >= 0
  OBVIOUS
<1>2. CopyOf(t, mem, dst, src, size)
  BY <1>1, CopyTarget
<1>3. copyLoop(mem, dst, src, size) = Copies(mem, n, 4, dst, src)
  BY DEF copyLoop, Aligned
<1>4. dst + (4 * n) = dst + size
  BY DEF Aligned
<1>5. n \in Nat /\ 4 * n = size /\ 4 \in {2, 4} /\ Aligned(dst, 4)
  BY DEF Aligned
<1> HIDE DEF t, n
<1>6. t \in Seq(Nat) /\ Holds(t, mem, dst, dst + size, src)
  BY <1>2 DEF CopyOf
<1>7. src + (4 * n) <= Len(mem) /\ Holds(t, mem, dst, dst + (4 * n), src)
  BY <1>5, <1>6
<1>8. Tiles(Copies(mem, n, 4, dst, src), t, dst, dst + (4 * n))
  BY <1>5, <1>6, <1>7, CopiesTile
<1>9. Tiles(copyLoop(mem, dst, src, size), t, dst, dst + size)
  BY <1>3, <1>8, <1>4
<1> QED
  BY <1>1, <1>9, CopyMoves DEF t

(* A fill with a word moves what the word repeated is.                     *)
LEMMA toncsetMoves ==
  ASSUME NEW mem, NEW dst \in Int, NEW bytes, NEW fill,
         mem \in Seq(Nat), bytes \in Seq(Nat), fill \in Seq(Nat), Len(fill) = 4,
         dst >= 0, dst + Len(bytes) <= Len(mem), Room(mem, dst + Len(bytes)),
         \A i \in 1..Len(bytes) : bytes[i] = fill[((dst + i - 1) % 4) + 1]
  PROVE  Moves(mem, __toncset(mem, dst, fill, Len(bytes)), dst, bytes)
<1> DEFINE t == Over(mem, dst, bytes)
           size == Len(bytes)
<1>1. FillOf(t, mem, dst, fill, size)
  BY FillTarget
<1>2. size \in Int /\ size >= 0
  OBVIOUS
<1> HIDE DEF t, size
<1>3. Tiles(__toncset(mem, dst, fill, size), t, dst, dst + size)
  BY <1>1, <1>2, __toncsetTile
<1> QED
  BY <1>1, <1>2, <1>3, FillMoves DEF t, size

(* Words written one by one.                                               *)
LEMMA FillsMove ==
  ASSUME NEW mem, NEW dst \in Int, NEW bytes, NEW fill,
         mem \in Seq(Nat), bytes \in Seq(Nat), fill \in Seq(Nat), Len(fill) = 4,
         dst >= 0, dst + Len(bytes) <= Len(mem), Room(mem, dst + Len(bytes)),
         \A i \in 1..Len(bytes) : bytes[i] = fill[((dst + i - 1) % 4) + 1],
         Aligned(dst, 4), Aligned(Len(bytes), 4)
  PROVE  Moves(mem, Fills(Len(bytes) \div 4, dst, fill), dst, bytes)
<1> DEFINE t == Over(mem, dst, bytes)
           size == Len(bytes)
           n == size \div 4
<1>1. FillOf(t, mem, dst, fill, size)
  BY FillTarget
<1>2. size % 4 = 0 /\ dst % 4 = 0
  BY DEF Aligned
<1>3. size \in Int /\ size >= 0
  <2>1. size \in Nat
    BY LenProperties
  <2> HIDE DEF size
  <2> QED
    BY <2>1
<1> HIDE DEF t, size
<1>4. n \in Nat
  BY <1>3
<1>5. 4 * n = size
  BY <1>3, <1>2
<1> HIDE DEF n
<1>6. dst >= dst /\ dst + (4 * n) <= dst + size /\ n \in Int
  BY <1>3, <1>4, <1>5
<1>7. Tiles(Fills(n, dst, fill), t, dst, dst + (4 * n))
  BY <1>1, <1>3, <1>4, <1>6, <1>2, FillsOfTile
<1>8. Tiles(Fills(n, dst, fill), t, dst, dst + size)
  BY <1>5, <1>7
<1> QED
  BY <1>1, <1>3, <1>8, FillMoves DEF t, size, n

(* Zeros.                                                                  *)
LEMMA ZerosIs ==
  ASSUME NEW n \in Nat
  PROVE  /\ Zeros(n) \in Seq(Nat) /\ Len(Zeros(n)) = n
         /\ \A i \in 1..n : Zeros(n)[i] = 0
<1>1. [i \in 1..n |-> 0] \in Seq(Nat)
  OBVIOUS
<1> QED
  BY <1>1 DEF Zeros

(* A byte, a halfword or a word again and again.                           *)
LEMMA RepeatedIs ==
  ASSUME NEW bytes, NEW n \in Nat, bytes \in Seq(Nat), Len(bytes) \in {1, 2, 4}
  PROVE  /\ Repeated(bytes, n) \in Seq(Nat) /\ Len(Repeated(bytes, n)) = n
         /\ \A i \in 1..n : Repeated(bytes, n)[i] = bytes[((i - 1) % Len(bytes)) + 1]
<1> DEFINE l == Len(bytes)
           one(i) == bytes[((i - 1) % l) + 1]
           row == [i \in 1..n |-> one(i)]
<1>1. l \in {1, 2, 4}
  OBVIOUS
<1>2. ASSUME NEW i \in 1..n
      PROVE  one(i) \in Nat
  <2>1. ((i - 1) % l) + 1 \in 1..l
    <3> HIDE DEF l
    <3> QED
      BY <1>1
  <2> QED
    BY <2>1, ElementOfSeq
<1>3. Repeated(bytes, n) = <<>> \o row
  BY DEF Repeated
<1> HIDE DEF one
<1>4. row \in Seq(Nat) /\ Len(row) = n /\ \A i \in 1..n : row[i] = one(i)
  BY <1>2
<1> HIDE DEF row
<1>5. Repeated(bytes, n) = row
  BY <1>3, <1>4
<1> QED
  BY <1>4, <1>5 DEF one

(* The word of a fill is a byte four times, a halfword twice or the word.  *)
FillWord(fill, unit, dst) ==
  /\ unit \in Seq(Nat) /\ fill \in Seq(Nat) /\ Len(fill) = 4
  /\ \/ Len(unit) = 1 /\ \A i \in 1..4 : fill[i] = unit[1]
     \/ Len(unit) = 2 /\ dst % 2 = 0 /\ fill = unit \o unit
     \/ Len(unit) = 4 /\ dst % 4 = 0 /\ fill = unit

(* What such a word fills with.                                            *)
LEMMA FillOfUnits ==
  ASSUME NEW unit, NEW fill, NEW dst \in Int, NEW n \in Int,
         FillWord(fill, unit, dst), n >= 0, dst >= 0
  PROVE  /\ Repeated(unit, n) \in Seq(Nat) /\ Len(Repeated(unit, n)) = n
         /\ \A i \in 1..n : Repeated(unit, n)[i] = fill[((dst + i - 1) % 4) + 1]
<1>1. /\ unit \in Seq(Nat) /\ fill \in Seq(Nat)
      /\ \/ Len(unit) = 1 /\ \A i \in 1..4 : fill[i] = unit[1]
         \/ Len(unit) = 2 /\ dst % 2 = 0 /\ fill = unit \o unit
         \/ Len(unit) = 4 /\ dst % 4 = 0 /\ fill = unit
  BY DEF FillWord
<1>2. Len(unit) \in {1, 2, 4} /\ n \in Nat
  BY <1>1
<1>3. Repeated(unit, n) \in Seq(Nat)
  BY <1>1, <1>2, RepeatedIs
<1>4. Len(Repeated(unit, n)) = n
  BY <1>1, <1>2, RepeatedIs
<1>5. ASSUME NEW i \in 1..n
      PROVE  Repeated(unit, n)[i] = fill[((dst + i - 1) % 4) + 1]
  <2> DEFINE q == ((dst + i - 1) % 4) + 1
  <2>1. Repeated(unit, n)[i] = unit[((i - 1) % Len(unit)) + 1]
    BY <1>1, <1>2, RepeatedIs
  <2>2. q \in 1..4
    OBVIOUS
  <2>3. CASE Len(unit) = 1 /\ \A m \in 1..4 : fill[m] = unit[1]
    <3>1. ((i - 1) % 1) + 1 = 1
      OBVIOUS
    <3>2. ((i - 1) % Len(unit)) + 1 = 1
      BY <2>3, <3>1
    <3> HIDE DEF q
    <3>3. fill[q] = unit[1]
      BY <2>2, <2>3
    <3> QED
      BY <2>1, <3>2, <3>3 DEF q
  <2>4. CASE Len(unit) = 2 /\ dst % 2 = 0 /\ fill = unit \o unit
    <3> DEFINE r == ((i - 1) % 2) + 1
    <3>1. r \in 1..2 /\ (q = r \/ q = r + 2)
      BY <2>4
    <3>2. Repeated(unit, n)[i] = unit[r]
      BY <2>1, <2>4
    <3> HIDE DEF q, r
    <3>3. fill[q] = unit[r]
      <4> DEFINE two == unit \o unit
                 l == Len(unit)
      <4>1. l = 2
        BY <2>4
      <4>2. \A m \in 1..l : two[m] = unit[m]
        BY <1>1, Joined
      <4>3. \A m \in 1..l : two[l + m] = unit[m]
        BY <1>1, Joined
      <4>4. fill = two
        BY <2>4
      <4> HIDE DEF two, l
      <4>5. two[q] = unit[r]
        <5>1. r \in 1..l /\ (q = r \/ q = l + r)
          BY <3>1, <4>1
        <5> QED
          BY <4>2, <4>3, <5>1
      <4> QED
        BY <4>4, <4>5
    <3> QED
      BY <3>2, <3>3 DEF q
  <2>5. CASE Len(unit) = 4 /\ dst % 4 = 0 /\ fill = unit
    <3> DEFINE r == ((i - 1) % 4) + 1
    <3>1. q = r
      BY <2>5
    <3>2. Repeated(unit, n)[i] = unit[r]
      BY <2>1, <2>5
    <3> HIDE DEF q, r
    <3> QED
      BY <2>5, <3>1, <3>2 DEF q
  <2> QED
    BY <1>1, <2>3, <2>4, <2>5
<1> QED
  BY <1>3, <1>4, <1>5

(* A fill is a move of the unit repeated, by bytes or by words.            *)
LEMMA FillIsMove ==
  ASSUME NEW mem, NEW unit, NEW fill, NEW dst \in Int, NEW n \in Int,
         FillWord(fill, unit, dst), mem \in Seq(Nat), n >= 0, dst >= 0,
         dst + n <= Len(mem), Room(mem, dst + n)
  PROVE  /\ Moves(mem, __toncset(mem, dst, fill, n), dst, Repeated(unit, n))
         /\ Aligned(dst, 4) /\ Aligned(n, 4) =>
              Moves(mem, Fills(n \div 4, dst, fill), dst, Repeated(unit, n))
<1> DEFINE bytes == Repeated(unit, n)
<1>1. fill \in Seq(Nat) /\ Len(fill) = 4
  BY DEF FillWord
<1>2. bytes \in Seq(Nat)
  BY FillOfUnits
<1>3. Len(bytes) = n
  BY FillOfUnits
<1>4. \A i \in 1..n : bytes[i] = fill[((dst + i - 1) % 4) + 1]
  BY FillOfUnits
<1> HIDE DEF bytes
<1> DEFINE l == Len(bytes)
<1>5. l = n
  BY <1>3
<1>6. dst + l <= Len(mem) /\ Room(mem, dst + l)
  BY <1>5
<1>7. \A i \in 1..l : bytes[i] = fill[((dst + i - 1) % 4) + 1]
  BY <1>4, <1>5
<1>8. Moves(mem, __toncset(mem, dst, fill, l), dst, bytes)
  BY <1>1, <1>2, <1>6, <1>7, toncsetMoves
<1>9. ASSUME Aligned(dst, 4), Aligned(l, 4)
      PROVE  Moves(mem, Fills(l \div 4, dst, fill), dst, bytes)
  BY <1>1, <1>2, <1>6, <1>7, <1>9, FillsMove
<1> HIDE DEF l
<1> QED
  BY <1>5, <1>8, <1>9 DEF bytes

(* Zeros are a byte repeated.                                              *)
LEMMA ZerosRepeat ==
  ASSUME NEW n \in Nat
  PROVE  Repeated(<<0>>, n) = Zeros(n)
<1>1. \A i \in 1..n : <<0>>[((i - 1) % Len(<<0>>)) + 1] = 0
  <2>1. \A i \in 1..n : ((i - 1) % 1) + 1 = 1
    OBVIOUS
  <2>2. Len(<<0>>) = 1 /\ <<0>>[1] = 0
    OBVIOUS
  <2> QED
    BY <2>1, <2>2
<1>2. [i \in 1..n |-> <<0>>[((i - 1) % Len(<<0>>)) + 1]] = [i \in 1..n |-> 0]
  BY <1>1
<1> QED
  BY <1>2 DEF Repeated, Zeros

(* The bytes a call is to move (MovesWhatItSays).                          *)
MoveBytes ==
  CASE call.how \in Copying -> Taken4(call.mem, call.src, call.size)
    [] call.how = "dmaFill" -> Repeated(Taken4(call.mem, call.src, 4), call.size)
    [] call.how = "toncset" -> Repeated(<<7>>, call.size)
    [] call.how = "toncset16" -> Repeated(<<7, 8>>, 2 * call.size)
    [] call.how = "toncset32" -> Repeated(<<7, 8, 9, 10>>, 4 * call.size)
    [] call.how \in {"dma", "cpu"} -> Zeros(call.size)

(* Types of a call.                                                        *)
LEMMA BytesAreNumbers ==
  ASSUME NEW v, v \in Seq(Byte)
  PROVE  v \in Seq(Nat) /\ Len(v) \in Nat
<1>1. \A x \in Byte : x \in Nat
  BY DEF Byte
<1>2. ASSUME NEW i \in 1..Len(v)
      PROVE  v[i] \in Nat
  <2>1. v[i] \in Byte
    BY ElementOfSeq
  <2> QED
    BY <1>1, <2>1
<1>3. Len(v) \in Nat /\ v = [i \in 1..Len(v) |-> v[i]]
  BY LenProperties, SeqDef
<1> QED
  BY <1>2, <1>3, SeqDef

(* The parts of a call that moves memory.                                  *)
LEMMA MoveTyped ==
  ASSUME NEW c \in MoveCalls
  PROVE  /\ c.mem \in Seq(Byte)
         /\ c.dst \in Nat /\ c.src \in Nat /\ c.size \in Nat
         /\ c.how \in Copying \cup ByBytes
                      \cup {"toncset16", "toncset32", "dmaFill", "dma", "cpu"}
BY DEF MoveCalls

(* Each routine, with the arguments the code gives it, does what it says.  *)
LEMMA MoveMoves ==
  ASSUME call \in MoveCalls, ProperMove(call), Move
  PROVE  Moves(call.mem, result', call.dst, MoveBytes)
<1> DEFINE mem == call.mem
           dst == call.dst
           src == call.src
           size == call.size
           all == BytesMoved(call)
<1>1. mem \in Seq(Nat) /\ Len(mem) \in Nat
  <2>1. mem \in Seq(Byte)
    BY MoveTyped
  <2> HIDE DEF mem
  <2> QED
    BY <2>1, BytesAreNumbers
<1>2. dst \in Nat /\ src \in Nat /\ size \in Nat
  BY DEF MoveCalls
<1>3. /\ call.how \in Copying \cup ByBytes
                        \cup {"toncset16", "toncset32", "dmaFill", "dma", "cpu"}
      /\ all \in Nat /\ Len(mem) % 4 = 0 /\ dst + all <= Len(mem)
  BY <1>2 DEF MoveCalls, ProperMove, BytesMoved
<1>4. Room(mem, dst + all)
  <2> DEFINE b == dst + all
  <2>1. b <= Len(mem) /\ Len(mem) \in Nat /\ Len(mem) % 4 = 0
    BY <1>1, <1>3
  <2>2. b \in Int
    BY <1>2, <1>3
  <2> HIDE DEF b, mem
  <2>3. Room(mem, b)
    BY <2>1, <2>2, RoomWithin
  <2> QED
    BY <2>3 DEF b
<1>5. CASE call.how = "tonccpy"
  <2>1. result' = tonccpy(mem, dst, src, size) /\ MoveBytes = Taken4(mem, src, size)
    BY <1>5 DEF Move, Returns, MoveBytes, Copying
  <2>2. src + size <= Len(mem) /\ all = size
    BY <1>5 DEF ProperMove, BytesMoved, Copying
  <2> HIDE DEF mem, dst, src, size, all
  <2>3. Moves(mem, tonccpy(mem, dst, src, size), dst, Taken4(mem, src, size))
    BY <1>1, <1>2, <1>3, <1>4, <2>2, tonccpyMoves
  <2> QED
    BY <2>1, <2>3 DEF mem, dst
<1>6. CASE call.how = "copyLoop"
  <2>1. result' = copyLoop(mem, dst, src, size) /\ MoveBytes = Taken4(mem, src, size)
    BY <1>6 DEF Move, Returns, MoveBytes, Copying
  <2>2. src + size <= Len(mem) /\ all = size
    BY <1>6 DEF ProperMove, BytesMoved, Copying
  <2>3. size > 0 /\ Aligned(dst, 4) /\ Aligned(size, 4)
    BY <1>2, <1>6 DEF ProperMove, BytesMoved, ByBytes, Aligned
  <2>4. dst + size <= Len(mem) /\ Room(mem, dst + size)
    BY <1>3, <1>4, <2>2
  <2> HIDE DEF mem, dst, src, size, all
  <2>5. Moves(mem, copyLoop(mem, dst, src, size), dst, Taken4(mem, src, size))
    BY <1>1, <1>2, <2>2, <2>3, <2>4, copyLoopMoves
  <2> QED
    BY <2>1, <2>5 DEF mem, dst
<1>7. CASE call.how = "toncset"
  <2> DEFINE fill == <<7, 7, 7, 7>>
             unit == <<7>>
  <2>1. result' = __toncset(mem, dst, fill, all) /\ MoveBytes = Repeated(unit, all)
    BY <1>7 DEF Move, Returns, MoveBytes, Copying, BytesMoved, toncset
  <2>2. FillWord(fill, unit, dst)
    BY DEF FillWord
  <2> HIDE DEF mem, dst, all, fill, unit
  <2>3. Moves(mem, __toncset(mem, dst, fill, all), dst, Repeated(unit, all))
    BY <1>1, <1>2, <1>3, <1>4, <2>2, FillIsMove
  <2> QED
    BY <2>1, <2>3 DEF mem, dst
<1>8. CASE call.how = "toncset16"
  <2> DEFINE fill == <<7, 8>> \o <<7, 8>>
             unit == <<7, 8>>
  <2>1. result' = __toncset(mem, dst, fill, all) /\ MoveBytes = Repeated(unit, all)
    BY <1>8 DEF Move, Returns, MoveBytes, Copying, BytesMoved, toncset16
  <2>2. FillWord(fill, unit, dst)
    <3>1. dst % 2 = 0
      BY <1>8 DEF ProperMove
    <3>2. unit \in Seq(Nat) /\ Len(unit) = 2
      OBVIOUS
    <3>3. fill = unit \o unit
      OBVIOUS
    <3> HIDE DEF unit
    <3>4. fill \in Seq(Nat) /\ Len(fill) = 4
      <4>1. unit \o unit \in Seq(Nat) /\ Len(unit \o unit) = 4
        <5>1. unit \o unit \in Seq(Nat)
          BY <3>2
        <5>2. Len(unit \o unit) = Len(unit) + Len(unit)
          BY <3>2, Joined
        <5> QED
          BY <3>2, <5>1, <5>2
      <4> HIDE DEF fill
      <4> QED
        BY <3>3, <4>1
    <3> HIDE DEF fill
    <3> QED
      BY <3>1, <3>2, <3>3, <3>4 DEF FillWord
  <2> HIDE DEF mem, dst, all, fill, unit
  <2>3. Moves(mem, __toncset(mem, dst, fill, all), dst, Repeated(unit, all))
    BY <1>1, <1>2, <1>3, <1>4, <2>2, FillIsMove
  <2> QED
    BY <2>1, <2>3 DEF mem, dst
<1>9. CASE call.how = "toncset32"
  <2> DEFINE fill == <<7, 8, 9, 10>>
  <2>1. result' = __toncset(mem, dst, fill, all) /\ MoveBytes = Repeated(fill, all)
    BY <1>9 DEF Move, Returns, MoveBytes, Copying, BytesMoved, toncset32
  <2>2. FillWord(fill, fill, dst)
    <3>1. dst % 4 = 0
      BY <1>9 DEF ProperMove, ByBytes
    <3>2. fill \in Seq(Nat) /\ Len(fill) = 4
      OBVIOUS
    <3> HIDE DEF fill
    <3> QED
      BY <3>1, <3>2 DEF FillWord
  <2> HIDE DEF mem, dst, all, fill
  <2>3. Moves(mem, __toncset(mem, dst, fill, all), dst, Repeated(fill, all))
    BY <1>1, <1>2, <1>3, <1>4, <2>2, FillIsMove
  <2> QED
    BY <2>1, <2>3 DEF mem, dst
<1>10. CASE call.how = "dmaFill"
  <2> DEFINE fill == Taken4(mem, src, 4)
  <2>1. result' = Fills(all \div 4, dst, fill) /\ MoveBytes = Repeated(fill, all)
    BY <1>10 DEF Move, Returns, MoveBytes, Copying, BytesMoved, dmaFill
  <2>2. src + 4 <= Len(mem)
    BY <1>10 DEF ProperMove
  <2>3. Aligned(dst, 4) /\ Aligned(all, 4)
    BY <1>10 DEF ProperMove, ByBytes, Aligned
  <2>4. FillWord(fill, fill, dst)
    <3> DEFINE n == 4
    <3>1. n \in Nat /\ src + n <= Len(mem)
      BY <2>2
    <3> HIDE DEF mem, src, n
    <3>2. Taken4(mem, src, n) \in Seq(Nat)
      BY <1>1, <1>2, <3>1, TakenIs
    <3>3. Len(Taken4(mem, src, n)) = n
      BY <1>1, <1>2, <3>1, TakenIs
    <3>4. fill \in Seq(Nat)
      BY <3>2 DEF n
    <3>5. Len(fill) = 4
      BY <3>3 DEF n
    <3> HIDE DEF fill, dst
    <3> QED
      BY <2>3, <3>4, <3>5 DEF FillWord, Aligned
  <2> HIDE DEF mem, dst, all, fill
  <2>5. Moves(mem, Fills(all \div 4, dst, fill), dst, Repeated(fill, all))
    <3>1. /\ FillWord(fill, fill, dst) /\ mem \in Seq(Nat)
          /\ all >= 0 /\ dst >= 0 /\ dst \in Int /\ all \in Int
      BY <1>1, <1>2, <1>3, <2>4
    <3>2. dst + all <= Len(mem) /\ Room(mem, dst + all)
      BY <1>3, <1>4
    <3> QED
      BY <2>3, <3>1, <3>2, FillIsMove
  <2> QED
    BY <2>1, <2>5 DEF mem, dst
<1>11. CASE call.how \in {"dma", "cpu"}
  <2> DEFINE fill == <<0, 0, 0, 0>>
             unit == <<0>>
  <2>1. /\ \/ result' = Fills(all \div 4, dst, fill)
           \/ result' = __toncset(mem, dst, fill, all)
        /\ MoveBytes = Zeros(all)
    <3>1. (dst + size) - dst = size
      BY <1>2
    <3>2. all = size /\ MoveBytes = Zeros(size)
      BY <1>11 DEF MoveBytes, Copying, BytesMoved
    <3>3. \/ result' = dma_twlFill32(dst, fill, (dst + size) - dst)
          \/ result' = toncset(mem, dst, 0, (dst + size) - dst)
      BY <1>11 DEF Move, Returns, memset_addrs_arm7
    <3> HIDE DEF dst, size, all
    <3> QED
      BY <3>1, <3>2, <3>3 DEF dma_twlFill32, toncset
  <2>2. Aligned(dst, 4) /\ Aligned(all, 4)
    BY <1>11 DEF ProperMove, ByBytes, Aligned
  <2>3. FillWord(fill, unit, dst)
    BY DEF FillWord
  <2> HIDE DEF mem, dst, all, fill, unit
  <2>4. /\ Moves(mem, __toncset(mem, dst, fill, all), dst, Repeated(unit, all))
        /\ Moves(mem, Fills(all \div 4, dst, fill), dst, Repeated(unit, all))
    BY <1>1, <1>2, <1>3, <1>4, <2>2, <2>3, FillIsMove
  <2>5. Repeated(unit, all) = Zeros(all)
    BY <1>3, ZerosRepeat DEF unit
  <2> QED
    BY <2>1, <2>4, <2>5 DEF mem, dst
<1> QED
  BY <1>3, <1>5, <1>6, <1>7, <1>8, <1>9, <1>10, <1>11 DEF Copying, ByBytes

(* A move or a fill changes the bytes it is asked for and no other.        *)
THEOREM MovesTheorem == Spec => []MovesWhatItSays
<1>1. Init => MovesWhatItSays
  BY DEF Init, MovesWhatItSays, Nothing
<1>2. CallOK /\ MovesWhatItSays /\ [Next]_algVars => MovesWhatItSays'
  <2> SUFFICES ASSUME CallOK, MovesWhatItSays, [Next]_algVars
               PROVE  MovesWhatItSays'
    OBVIOUS
  <2>1. call' = call
    BY Steps
  <2>2. CASE result' = result
    BY <2>1, <2>2 DEF MovesWhatItSays
  <2>3. CASE call.alg # "move"
    BY <2>1, <2>3 DEF MovesWhatItSays
  <2>4. CASE result' # result /\ call.alg = "move"
    <3>1. Move
      BY <2>4, Steps
    <3>2. call \in MoveCalls /\ ProperMove(call)
      BY <2>4, CallsAssumption DEF CallOK
    <3>3. Moves(call.mem, result', call.dst, MoveBytes)
      BY <3>1, <3>2, MoveMoves
    <3> QED
      BY <2>1, <3>3 DEF MovesWhatItSays, MoveBytes, Copying
  <2> QED
    BY <2>2, <2>3, <2>4
<1> QED
  BY <1>1, <1>2, CallInvariance, PTL DEF Spec

-----------------------------------------------------------------------------
(* The launcher's last deed (Handover).                                    *)

(* What is appended to memory lies behind it.                              *)
LEMMA LiesOn ==
  ASSUME NEW m, NEW w, m \in Seq(Nat), w \in Seq(Nat)
  PROVE  Lies(m \o w, Len(m), w)
<1> DEFINE mw == m \o w
<1>1. Len(mw) = Len(m) + Len(w)
  BY Joined
<1>2. \A i \in 1..Len(w) : mw[Len(m) + i] = w[i]
  BY Joined
<1>3. Len(m) \in Nat /\ Len(w) \in Nat
  BY Joined
<1> HIDE DEF mw
<1>4. Len(m) + Len(w) <= Len(mw)
  BY <1>1, <1>3
<1>5. Lies(mw, Len(m), w)
  BY <1>2, <1>4 DEF Lies
<1> QED
  BY <1>5 DEF mw

(* What lay in memory before something was appended still does.            *)
LEMMA LiesStill ==
  ASSUME NEW m, NEW w, NEW x, NEW p \in Int,
         m \in Seq(Nat), w \in Seq(Nat), x \in Seq(Nat), p >= 0, Lies(m, p, x)
  PROVE  Lies(m \o w, p, x)
<1> DEFINE mw == m \o w
<1>1. Len(mw) = Len(m) + Len(w)
  BY Joined
<1>2. \A i \in 1..Len(m) : mw[i] = m[i]
  BY Joined
<1>3. Len(m) \in Nat /\ Len(w) \in Nat /\ Len(x) \in Nat
  BY Joined
<1> HIDE DEF mw
<1>4. p + Len(x) <= Len(m) /\ \A i \in 1..Len(x) : m[p + i] = x[i]
  BY DEF Lies
<1>5. p + Len(x) <= Len(mw)
  BY <1>1, <1>3, <1>4
<1>6. ASSUME NEW i \in 1..Len(x)
      PROVE  mw[p + i] = x[i]
  <2>1. p + i \in 1..Len(m)
    BY <1>3, <1>4, SMTT(30)
  <2>2. mw[p + i] = m[p + i]
    BY <1>2, <2>1
  <2> QED
    BY <1>4, <2>2
<1>7. Lies(mw, p, x)
  BY <1>5, <1>6 DEF Lies
<1> QED
  BY <1>7 DEF mw

(* Something is laid over the memory before it.                            *)
LEMMA OverBefore ==
  ASSUME NEW m, NEW w, NEW x, NEW p \in Int, NEW dst \in Int,
         m \in Seq(Nat), w \in Seq(Nat), x \in Seq(Nat), dst >= 0,
         dst + Len(w) <= p, Lies(m, p, x)
  PROVE  Lies(Over(m, dst, w), p, x)
<1> DEFINE t == Over(m, dst, w)
<1>1. p + Len(x) <= Len(m) /\ \A i \in 1..Len(x) : m[p + i] = x[i]
  BY DEF Lies
<1>2. Len(m) \in Nat /\ Len(w) \in Nat /\ Len(x) \in Nat
  BY Joined
<1>3. dst + Len(w) <= Len(m)
  BY <1>1, <1>2
<1>4. Len(t) = Len(m)
  BY <1>3, OverIs
<1>5. \A i \in 1..Len(m) : t[i] = IF dst < i /\ i <= dst + Len(w) THEN w[i - dst] ELSE m[i]
  BY <1>3, OverIs
<1> HIDE DEF t
<1>6. ASSUME NEW i \in 1..Len(x)
      PROVE  t[p + i] = x[i]
  <2>1. p + i \in 1..Len(m) /\ ~(p + i <= dst + Len(w))
    BY <1>1, <1>2, SMTT(30)
  <2>2. t[p + i] = m[p + i]
    BY <1>5, <2>1
  <2> QED
    BY <1>1, <2>2
<1>7. p + Len(x) <= Len(t)
  BY <1>1, <1>4
<1>8. Lies(t, p, x)
  BY <1>6, <1>7 DEF Lies
<1> QED
  BY <1>8 DEF t

(* What lies in memory, taken from it.                                     *)
LEMMA TakenLies ==
  ASSUME NEW m, NEW w, NEW src \in Int, m \in Seq(Nat), w \in Seq(Nat), src >= 0,
         Lies(m, src, w)
  PROVE  Taken4(m, src, Len(w)) = w
<1> DEFINE n == Len(w)
           t == Taken4(m, src, n)
<1>1. n \in Nat /\ Len(m) \in Nat
  BY Joined
<1>2. src + n <= Len(m)
  BY DEF Lies
<1>3. \A i \in 1..n : m[src + i] = w[i]
  BY DEF Lies
<1>4. w \in Seq(Nat) /\ Len(w) = n
  OBVIOUS
<1> HIDE DEF n
<1>5. n \in Int
  BY <1>1
<1>6. t \in Seq(Nat) /\ Len(t) = n /\ \A i \in 1..n : t[i] = m[src + i]
  BY <1>1, <1>2, <1>5, TakenIs, Zenon
<1> HIDE DEF t
<1>7. t = w
  BY <1>3, <1>4, <1>6, SeqEqual
<1> QED
  BY <1>7 DEF t, n

(* A copy of what lies elsewhere in memory.                                *)
LEMMA CopiedIs ==
  ASSUME NEW m, NEW w, NEW src \in Int, NEW dst \in Int,
         m \in Seq(Nat), w \in Seq(Nat), src >= 0, dst >= 0, Lies(m, src, w),
         dst + Len(w) <= Len(m), Room(m, dst + Len(w))
  PROVE  Copied(m, dst, src, Len(w)) = Over(m, dst, w)
<1> DEFINE n == Len(w)
<1>1. n \in Nat /\ Len(m) \in Nat
  BY Joined
<1>2. src + n <= Len(m) /\ dst + n <= Len(m) /\ Room(m, dst + n)
  BY DEF Lies
<1>3. Taken4(m, src, n) = w
  BY TakenLies
<1> HIDE DEF n
<1>4. n \in Int /\ n >= 0
  BY <1>1
<1>5. Moves(m, tonccpy(m, dst, src, n), dst, Taken4(m, src, n))
  BY <1>2, <1>4, tonccpyMoves
<1> QED
  BY <1>3, <1>5 DEF Moves, Copied, n

(* A stretch is cleared.                                                   *)
LEMMA ClearedIs ==
  ASSUME NEW m, NEW dst \in Int, NEW n \in Int, m \in Seq(Nat), dst >= 0, n >= 0,
         dst + n <= Len(m), Room(m, dst + n)
  PROVE  After(m, toncset(m, dst, 0, n)) = Over(m, dst, Zeros(n))
<1> DEFINE fill == <<0, 0, 0, 0>>
           unit == <<0>>
<1>1. FillWord(fill, unit, dst)
  BY DEF FillWord
<1>2. Repeated(unit, n) = Zeros(n)
  BY ZerosRepeat
<1>3. toncset(m, dst, 0, n) = __toncset(m, dst, fill, n)
  BY DEF toncset
<1> HIDE DEF fill, unit
<1>4. Moves(m, __toncset(m, dst, fill, n), dst, Repeated(unit, n))
  BY <1>1, FillIsMove
<1> QED
  BY <1>2, <1>3, <1>4 DEF Moves

-----------------------------------------------------------------------------
(* Behind the bank lie what is copied into it.                             *)
Sources(m, boot, params, engine, data, argv) ==
  /\ m \in Seq(Nat)
  /\ Lies(m, VramSize, boot)
  /\ Lies(m, VramSize + Len(boot), params)
  /\ Lies(m, VramSize + Len(boot) + Len(params), engine)
  /\ Lies(m, VramSize + Len(boot) + Len(params) + Len(engine), data)
  /\ Lies(m, VramSize + Len(boot) + Len(params) + Len(engine) + Len(data), argv)

(* A stretch of one byte.                                                  *)
LEMMA FilledIs ==
  ASSUME NEW n \in Nat, NEW byte \in Nat
  PROVE  Filled(n, byte) \in Seq(Nat) /\ Len(Filled(n, byte)) = n
<1>1. [i \in 1..n |-> byte] \in Seq(Nat)
  OBVIOUS
<1> QED
  BY <1>1 DEF Filled

(* They do when the launcher begins.                                       *)
LEMMA SourcesLie ==
  ASSUME NEW f, NEW boot, NEW params, NEW engine, NEW data, NEW argv,
         f \in Seq(Nat), boot \in Seq(Nat), params \in Seq(Nat), engine \in Seq(Nat),
         data \in Seq(Nat), argv \in Seq(Nat), Len(f) = VramSize
  PROVE  Sources(f \o boot \o params \o engine \o data \o argv,
                 boot, params, engine, data, argv)
<1> DEFINE one == f \o boot
           two == one \o params
           three == two \o engine
           four == three \o data
           five == four \o argv
<1>1. /\ Len(f) \in Nat /\ Len(boot) \in Nat /\ Len(params) \in Nat
      /\ Len(engine) \in Nat /\ Len(data) \in Nat /\ Len(argv) \in Nat
  BY Joined
<1>2. one \in Seq(Nat) /\ Len(one) = VramSize + Len(boot) /\ Lies(one, VramSize, boot)
  BY Joined, LiesOn
<1>3. five = f \o boot \o params \o engine \o data \o argv
  OBVIOUS
<1> HIDE DEF one
<1>4. two \in Seq(Nat) /\ Len(two) = Len(one) + Len(params) /\ Lies(two, Len(one), params)
  BY <1>2, Joined, LiesOn
<1>5. Lies(two, VramSize, boot)
  BY <1>1, <1>2, LiesStill
<1> DEFINE l1 == VramSize + Len(boot)
           l2 == l1 + Len(params)
           l3 == l2 + Len(engine)
           l4 == l3 + Len(data)
<1>6. VramSize \in Nat /\ l1 \in Nat /\ l2 \in Nat /\ l3 \in Nat /\ l4 \in Nat
  BY <1>1, SMTT(30)
<1>7. Lies(two, l1, params) /\ Len(two) = l2
  BY <1>2, <1>4
<1> HIDE DEF two
<1>8. three \in Seq(Nat) /\ Len(three) = Len(two) + Len(engine)
      /\ Lies(three, Len(two), engine)
  BY <1>4, Joined, LiesOn
<1> HIDE DEF l1
<1>9. Lies(three, VramSize, boot) /\ Lies(three, l1, params)
  BY <1>4, <1>5, <1>6, <1>7, LiesStill
<1>10. Lies(three, l2, engine) /\ Len(three) = l3
  BY <1>7, <1>8
<1> HIDE DEF three, l2
<1>11. /\ four \in Seq(Nat) /\ Len(four) = Len(three) + Len(data)
       /\ Lies(four, Len(three), data)
  BY <1>8, Joined, LiesOn
<1>12. Lies(four, VramSize, boot) /\ Lies(four, l1, params) /\ Lies(four, l2, engine)
  BY <1>6, <1>8, <1>9, <1>10, LiesStill
<1>13. Lies(four, l3, data) /\ Len(four) = l4
  BY <1>10, <1>11
<1> HIDE DEF four, l3
<1>14. five \in Seq(Nat) /\ Lies(five, Len(four), argv)
  BY <1>11, Joined, LiesOn
<1>15. /\ Lies(five, VramSize, boot) /\ Lies(five, l1, params) /\ Lies(five, l2, engine)
       /\ Lies(five, l3, data)
  BY <1>6, <1>11, <1>12, <1>13, LiesStill
<1>16. Lies(five, l4, argv)
  BY <1>13, <1>14
<1> HIDE DEF five
<1>17. Sources(five, boot, params, engine, data, argv)
  BY <1>14, <1>15, <1>16 DEF Sources, l1, l2, l3, l4
<1> QED
  BY <1>3, <1>17

(* What the bank holds after w was written over t at dst.                  *)
Laid(m, t, dst, w, long) ==
  \A i \in 1..VramSize : m[i] = IF dst < i /\ i <= dst + long THEN w[i - dst] ELSE t[i]

(* Of w over the bank m, behind which the sources lie.                     *)
LaidOver(t, m, boot, params, engine, data, argv, dst, w, long) ==
  Sources(t, boot, params, engine, data, argv) /\ Laid(t, m, dst, w, long)

(* Something is laid over the bank.                                        *)
LEMMA SourcesStay ==
  ASSUME NEW m, NEW boot, NEW params, NEW engine, NEW data, NEW argv,
         NEW dst \in Int, NEW w, Sources(m, boot, params, engine, data, argv),
         boot \in Seq(Nat), params \in Seq(Nat), engine \in Seq(Nat),
         data \in Seq(Nat), argv \in Seq(Nat), w \in Seq(Nat),
         dst >= 0, dst + Len(w) <= VramSize
  PROVE  LaidOver(Over(m, dst, w), m, boot, params, engine, data, argv, dst, w, Len(w))
<1> DEFINE l1 == VramSize + Len(boot)
           l2 == l1 + Len(params)
           l3 == l2 + Len(engine)
           l4 == l3 + Len(data)
           t == Over(m, dst, w)
<1>1. /\ Len(m) \in Nat /\ Len(boot) \in Nat /\ Len(params) \in Nat
      /\ Len(engine) \in Nat /\ Len(data) \in Nat /\ Len(w) \in Nat
  BY Joined DEF Sources
<1>2. VramSize \in Nat
  BY SizesAssumption
<1>3. /\ l1 \in Int /\ l2 \in Int /\ l3 \in Int /\ l4 \in Int /\ VramSize \in Int
      /\ dst + Len(w) <= l1 /\ dst + Len(w) <= l2 /\ dst + Len(w) <= l3
      /\ dst + Len(w) <= l4
  <2> DEFINE e == dst + Len(w)
  <2>1. e \in Int /\ e <= VramSize
    BY <1>1
  <2> HIDE DEF e
  <2>2. l1 \in Nat /\ VramSize <= l1
    BY <1>2, <1>1
  <2> HIDE DEF l1
  <2>3. l2 \in Nat /\ l1 <= l2
    BY <1>1, <2>2
  <2> HIDE DEF l2
  <2>4. l3 \in Nat /\ l2 <= l3
    BY <1>1, <2>3
  <2> HIDE DEF l3
  <2>5. l4 \in Nat /\ l3 <= l4
    BY <1>1, <2>4
  <2> HIDE DEF l4
  <2>6. e <= l1 /\ e <= l2 /\ e <= l3 /\ e <= l4
    BY <1>2, <2>1, <2>2, <2>3, <2>4, <2>5
  <2> QED
    BY <1>2, <2>2, <2>3, <2>4, <2>5, <2>6 DEF e
<1>4. /\ m \in Seq(Nat) /\ Lies(m, VramSize, boot) /\ Lies(m, l1, params)
      /\ Lies(m, l2, engine) /\ Lies(m, l3, data) /\ Lies(m, l4, argv)
  BY DEF Sources
<1> HIDE DEF l1, l2, l3, l4
<1>5. /\ Lies(t, VramSize, boot) /\ Lies(t, l1, params)
      /\ Lies(t, l2, engine) /\ Lies(t, l3, data) /\ Lies(t, l4, argv)
  BY <1>3, <1>4, OverBefore
<1>6. VramSize <= Len(m) /\ dst + Len(w) <= Len(m)
  <2>1. VramSize + Len(boot) <= Len(m)
    BY <1>4 DEF Lies
  <2>2. VramSize <= Len(m)
    BY <1>2, <1>1, <2>1
  <2> QED
    BY <1>2, <1>1, <2>2
<1>7. t \in Seq(Nat)
  BY <1>4, <1>6, OverIs
<1>8. \A i \in 1..Len(m) : t[i] = IF dst < i /\ i <= dst + Len(w) THEN w[i - dst] ELSE m[i]
  BY <1>4, <1>6, OverIs
<1> HIDE DEF t
<1>9. Sources(t, boot, params, engine, data, argv)
  BY <1>5, <1>7 DEF Sources, l1, l2, l3, l4
<1>10. \A i \in 1..VramSize : i \in 1..Len(m)
  BY <1>1, <1>3, <1>6
<1>11. Laid(t, m, dst, w, Len(w))
  BY <1>8, <1>10 DEF Laid
<1> QED
  BY <1>9, <1>11, Zenon DEF LaidOver, t

(* The bank is whole words.                                                *)
LEMMA BankRoom ==
  ASSUME NEW m, NEW e \in Int, Len(m) \in Nat, VramSize <= Len(m), e <= VramSize
  PROVE  Room(m, e)
<1> DEFINE l == Len(m)
           v == VramSize
<1>1. v \in Nat /\ v % 4 = 0 /\ l \in Nat /\ v <= l /\ e <= v
  BY SizesAssumption
<1> HIDE DEF l, v
<1>2. 4 * ((e + 3) \div 4) <= l
  <2>1. 4 * ((e + 3) \div 4) <= v
    BY <1>1
  <2> DEFINE q == 4 * ((e + 3) \div 4)
  <2>2. q \in Int /\ q <= v
    BY <2>1
  <2> HIDE DEF q
  <2>3. q <= l
    BY <1>1, <2>2
  <2> QED
    BY <2>3 DEF q
<1> QED
  BY <1>2 DEF Room, l

(* A string and its length.                                                *)
Sized(w, n) == w \in Seq(Nat) /\ Len(w) = n

(* The same of a source of a known length.                                 *)
LEMMA SourcesLaid ==
  ASSUME NEW t, NEW m, NEW boot, NEW params, NEW engine, NEW data, NEW argv,
         NEW dst \in Int, NEW w, NEW long \in Int,
         Sources(t, boot, params, engine, data, argv), Sized(w, long),
         boot \in Seq(Nat), params \in Seq(Nat), engine \in Seq(Nat),
         data \in Seq(Nat), argv \in Seq(Nat),
         dst >= 0, dst + long <= VramSize, m = Over(t, dst, w)
  PROVE  LaidOver(m, t, boot, params, engine, data, argv, dst, w, long)
<1>1. w \in Seq(Nat)
  BY DEF Sized
<1>2. Len(w) = long
  BY DEF Sized
<1>3. dst + Len(w) <= VramSize
  BY <1>2
<1>4. LaidOver(Over(t, dst, w), t, boot, params, engine, data, argv, dst, w, Len(w))
  BY <1>1, <1>3, SourcesStay
<1> QED
  BY <1>2, <1>4, Zenon

(* A source behind the bank is copied into it.                             *)
LEMMA CopiedIntoBank ==
  ASSUME NEW m, NEW boot, NEW params, NEW engine, NEW data, NEW argv,
         NEW dst \in Int, NEW w, NEW src \in Int, NEW n \in Int,
         Sources(m, boot, params, engine, data, argv),
         boot \in Seq(Nat), Sized(w, n), Lies(m, src, w), src >= 0,
         dst >= 0, dst + n <= VramSize
  PROVE  Copied(m, dst, src, n) = Over(m, dst, w)
<1>1. w \in Seq(Nat) /\ n = Len(w)
  BY DEF Sized
<1>2. m \in Seq(Nat) /\ Len(m) \in Nat /\ Len(boot) \in Nat /\ Len(w) \in Nat
  BY <1>1, Joined DEF Sources
<1>3. VramSize \in Nat
  BY SizesAssumption
<1>4. VramSize + Len(boot) <= Len(m)
  BY DEF Sources, Lies
<1>5. VramSize <= Len(m)
  BY <1>2, <1>3, <1>4
<1> DEFINE e == dst + Len(w)
<1>6. e \in Int /\ e <= VramSize /\ e <= Len(m)
  BY <1>1, <1>2, <1>3, <1>5
<1> HIDE DEF e
<1>7. Room(m, e)
  BY <1>2, <1>5, <1>6, BankRoom
<1>8. dst + Len(w) <= Len(m) /\ Room(m, dst + Len(w))
  BY <1>6, <1>7 DEF e
<1> QED
  BY <1>1, <1>2, <1>8, CopiedIs

(* A stretch of the bank is cleared.                                       *)
LEMMA ClearedInBank ==
  ASSUME NEW m, NEW boot, NEW params, NEW engine, NEW data, NEW argv,
         NEW dst \in Int, NEW n \in Int,
         Sources(m, boot, params, engine, data, argv), boot \in Seq(Nat),
         dst >= 0, n >= 0, dst + n <= VramSize
  PROVE  After(m, toncset(m, dst, 0, n)) = Over(m, dst, Zeros(n))
<1>1. m \in Seq(Nat) /\ Len(m) \in Nat /\ Len(boot) \in Nat
  BY Joined DEF Sources
<1>2. VramSize \in Nat
  BY SizesAssumption
<1>3. VramSize + Len(boot) <= Len(m)
  BY DEF Sources, Lies
<1>4. VramSize <= Len(m)
  BY <1>1, <1>2, <1>3
<1> DEFINE e == dst + n
<1>5. e \in Int /\ e <= VramSize /\ e <= Len(m)
  BY <1>1, <1>2, <1>4
<1> HIDE DEF e
<1>6. Room(m, e)
  BY <1>1, <1>4, <1>5, BankRoom
<1>7. dst + n <= Len(m) /\ Room(m, dst + n)
  BY <1>5, <1>6 DEF e
<1> QED
  BY <1>1, <1>7, ClearedIs

(* The start of what lies in memory lies there.                            *)
LEMMA LiesStart ==
  ASSUME NEW m, NEW p \in Int, NEW w, NEW n \in Int, w \in Seq(Nat), n >= 0, n <= Len(w),
         p >= 0, Lies(m, p, w), Len(m) \in Nat
  PROVE  /\ SubSeq(w, 1, n) \in Seq(Nat) /\ Len(SubSeq(w, 1, n)) = n
         /\ \A i \in 1..n : SubSeq(w, 1, n)[i] = w[i]
         /\ Lies(m, p, SubSeq(w, 1, n))
<1> DEFINE s == SubSeq(w, 1, n)
<1>1. Len(w) \in Nat
  BY Joined
<1>2. s \in Seq(Nat) /\ Len(s) = n
  BY <1>1, SubSeqProperties
<1>3. \A i \in 1..n : s[i] = w[i]
  BY <1>1, SubSeqProperties
<1> HIDE DEF s
<1>4. p + Len(w) <= Len(m) /\ \A i \in 1..Len(w) : m[p + i] = w[i]
  BY DEF Lies
<1>5. p + Len(s) <= Len(m)
  BY <1>1, <1>2, <1>4
<1>6. ASSUME NEW i \in 1..Len(s)
      PROVE  m[p + i] = s[i]
  <2>1. i \in 1..n /\ i \in 1..Len(w)
    BY <1>1, <1>2
  <2> QED
    BY <1>3, <1>4, <2>1
<1>7. Lies(m, p, s)
  BY <1>5, <1>6 DEF Lies
<1> QED
  BY <1>2, <1>3, <1>7 DEF s

-----------------------------------------------------------------------------
(* The engine's data with the type, and what is written at its path.       *)
DataOf(engine, path) ==
  [(IF engine = <<>> THEN Zeros(DataSize) ELSE SubSeq(engine, 1, DataSize))
     EXCEPT ![boot_type_at + 1] = boot_type(path)]
PathPlace(engine) == IF engine = <<>> THEN 0 ELSE boot_path_offset
PathRoom(engine) == IF engine = <<>> THEN 0 ELSE boot_path_max_len
Argv(path) == path \o <<0>> \o Filled(boot_path_max_len, 99)
PathBytes(engine, path) ==
  IF path # <<>> THEN SubSeq(Argv(path), 1, PathRoom(engine)) ELSE Zeros(PathRoom(engine))

(* What they are, with an engine and without one.                          *)
LEMMA DataIs ==
  ASSUME NEW engine, NEW path, engine \in Seq(Nat),
         engine = <<>> \/ DataSize <= Len(engine)
  PROVE  /\ DataOf(engine, path) \in Seq(Nat) /\ Len(DataOf(engine, path)) = DataSize
         /\ \A i \in 1..DataSize : DataOf(engine, path)[i] =
              IF i = boot_type_at + 1 THEN boot_type(path)
              ELSE IF engine = <<>> THEN 0 ELSE engine[i]
<1> DEFINE base == IF engine = <<>> THEN Zeros(DataSize) ELSE SubSeq(engine, 1, DataSize)
           b == boot_type_at + 1
           type == boot_type(path)
           data == [base EXCEPT ![b] = type]
<1>1. DataSize \in Nat /\ b \in 1..DataSize
  BY SizesAssumption
<1>2. type \in Nat
  BY DEF boot_type, DSIWARE, SD, NOT_SUPPORTED
<1>3. /\ base \in Seq(Nat) /\ Len(base) = DataSize
      /\ \A i \in 1..DataSize : base[i] = IF engine = <<>> THEN 0 ELSE engine[i]
  <2>1. CASE engine = <<>>
    BY <1>1, <2>1, ZerosIs
  <2>2. CASE engine # <<>>
    <3> DEFINE s == SubSeq(engine, 1, DataSize)
    <3>1. Len(engine) \in Nat /\ DataSize <= Len(engine)
      BY <2>2, Joined
    <3>2. s \in Seq(Nat) /\ Len(s) = DataSize
      BY <1>1, <3>1, SubSeqProperties
    <3>3. \A i \in 1..DataSize : s[i] = engine[i]
      BY <1>1, <3>1, SubSeqProperties
    <3> HIDE DEF s
    <3>4. base = s
      BY <2>2 DEF s
    <3> HIDE DEF base
    <3> QED
      BY <2>2, <3>2, <3>3, <3>4
  <2> QED
    BY <2>1, <2>2
<1> HIDE DEF base, b, type
<1>4. data \in Seq(Nat)
  BY <1>1, <1>2, <1>3, ExceptSeq
<1>5. Len(data) = Len(base)
  BY <1>1, <1>2, <1>3, ExceptSeq
<1>6. \A i \in 1..Len(base) : data[i] = IF i = b THEN type ELSE base[i]
  BY <1>1, <1>2, <1>3, ExceptSeq
<1>7. DataOf(engine, path) = data
  BY DEF DataOf, base, b, type
<1> HIDE DEF data
<1> QED
  BY <1>3, <1>4, <1>5, <1>6, <1>7 DEF b, type

(* The path is ended...                                                    *)
LEMMA ArgvIs ==
  ASSUME NEW path, path \in Seq(Nat)
  PROVE  /\ Argv(path) \in Seq(Nat)
         /\ Len(Argv(path)) = Len(path) + 1 + boot_path_max_len
         /\ \A i \in 1..Len(path) : Argv(path)[i] = path[i]
         /\ Argv(path)[Len(path) + 1] = 0
<1> DEFINE fill == Filled(boot_path_max_len, 99)
           zero == <<0>>
           start == path \o zero
           argv == start \o fill
           l == Len(path)
<1>1. fill \in Seq(Nat) /\ Len(fill) = boot_path_max_len
  BY FilledIs, SizesAssumption
<1>2. zero \in Seq(Nat) /\ Len(zero) = 1 /\ zero[1] = 0
  OBVIOUS
<1> HIDE DEF fill, zero
<1>3. start \in Seq(Nat) /\ Len(start) = l + Len(zero) /\ l \in Nat
  BY <1>2, Joined
<1>4. \A i \in 1..l : start[i] = path[i]
  BY <1>2, Joined
<1>5. \A i \in 1..Len(zero) : start[l + i] = zero[i]
  <2>1. zero \in Seq(Nat)
    BY <1>2
  <2> QED
    BY <2>1, Joined
<1> HIDE DEF start
<1>6. argv \in Seq(Nat) /\ Len(argv) = Len(start) + Len(fill)
  BY <1>1, <1>3, Joined
<1>7. \A i \in 1..Len(start) : argv[i] = start[i]
  BY <1>1, <1>3, Joined
<1>8. Argv(path) = argv
  BY DEF Argv, start, zero, fill
<1> HIDE DEF argv, l
<1>9. Len(argv) = l + 1 + boot_path_max_len
  BY <1>1, <1>2, <1>3, <1>6
<1>10. \A i \in 1..l : argv[i] = path[i]
  BY <1>2, <1>3, <1>4, <1>7
<1>11. argv[l + 1] = 0
  <2>1. l + 1 \in 1..Len(start) /\ 1 \in 1..Len(zero)
    BY <1>2, <1>3
  <2>2. start[l + 1] = zero[1]
    BY <1>5, <2>1
  <2> QED
    BY <1>2, <1>7, <2>1, <2>2
<1> QED
  BY <1>6, <1>8, <1>9, <1>10, <1>11 DEF l

(* ... and fits into its place, its end included.                          *)
LEMMA PathBytesAre ==
  ASSUME NEW engine, NEW path, path \in Seq(Nat), engine = <<>> => path = <<>>,
         engine # <<>> => Len(path) < boot_path_max_len
  PROVE  /\ PathBytes(engine, path) \in Seq(Nat)
         /\ Len(PathBytes(engine, path)) = PathRoom(engine)
         /\ engine # <<>> =>
              /\ \A i \in 1..Len(path) : PathBytes(engine, path)[i] = path[i]
              /\ PathBytes(engine, path)[Len(path) + 1] = 0
<1> DEFINE n == PathRoom(engine)
           bytes == PathBytes(engine, path)
           l == Len(path)
<1>1. n \in Nat /\ l \in Nat
  BY SizesAssumption, Joined DEF PathRoom
<1>2. CASE path # <<>>
  <2> DEFINE argv == Argv(path)
             s == SubSeq(argv, 1, n)
  <2>1. /\ argv \in Seq(Nat)
        /\ Len(argv) = l + 1 + boot_path_max_len
        /\ \A i \in 1..l : argv[i] = path[i]
        /\ argv[l + 1] = 0
    BY ArgvIs
  <2>2. n = boot_path_max_len /\ l < n /\ engine # <<>>
    BY <1>2 DEF PathRoom
  <2>3. bytes = s
    BY <1>2 DEF PathBytes
  <2> HIDE DEF argv, n, bytes
  <2>4. Len(argv) \in Nat /\ n <= Len(argv)
    BY <1>1, <2>1, <2>2
  <2>5. s \in Seq(Nat) /\ Len(s) = n
    BY <1>1, <2>1, <2>4, SubSeqProperties
  <2>6. \A i \in 1..n : s[i] = argv[i]
    BY <1>1, <2>1, <2>4, SubSeqProperties
  <2> HIDE DEF s, l
  <2>7. \A i \in 1..l : s[i] = path[i]
    BY <1>1, <2>1, <2>2, <2>6
  <2>8. s[l + 1] = 0
    BY <1>1, <2>1, <2>2, <2>6
  <2> QED
    BY <2>3, <2>5, <2>7, <2>8 DEF n, bytes, l
<1>3. CASE path = <<>>
  <2>1. bytes = Zeros(n)
    BY <1>3 DEF PathBytes
  <2>2. l = 0
    BY <1>3
  <2>3. engine # <<>> => n > 0
    BY <1>1, <2>2 DEF PathRoom
  <2> HIDE DEF bytes, n, l
  <2>4. bytes \in Seq(Nat) /\ Len(bytes) = n /\ \A i \in 1..n : bytes[i] = 0
    BY <1>1, <2>1, ZerosIs
  <2>5. engine # <<>> => bytes[l + 1] = 0
    BY <1>1, <2>2, <2>3, <2>4
  <2>6. \A i \in 1..l : bytes[i] = path[i]
    BY <2>2
  <2> QED
    BY <2>4, <2>5, <2>6 DEF bytes, n, l
<1> QED
  BY <1>2, <1>3

-----------------------------------------------------------------------------
(* What the bank holds.                                                    *)
ImageByte(boot, params, engine, path, at, i) ==
  LET to == at + PathPlace(engine)
  IN CASE to < i /\ i <= to + PathRoom(engine) -> PathBytes(engine, path)[i - to]
       [] ~(to < i /\ i <= to + PathRoom(engine)) /\ at < i /\ i <= at + DataSize ->
            DataOf(engine, path)[i - at]
       [] ~(to < i /\ i <= to + PathRoom(engine)) /\ ~(at < i /\ i <= at + DataSize)
            /\ at < i /\ i <= at + Len(engine) -> engine[i - at]
       [] OTHER -> IF i <= Len(params) THEN params[i]
                   ELSE IF i <= Len(boot) THEN boot[i] ELSE 0
ImageIs(vram, boot, params, engine, path, at) ==
  /\ vram \in Seq(Nat) /\ Len(vram) = VramSize
  /\ \A i \in 1..VramSize : vram[i] = ImageByte(boot, params, engine, path, at, i)

(* The place of the path is in the engine, and the engine in the bank.     *)
LEMMA PlaceFits ==
  ASSUME NEW at \in Int, NEW o \in Int, NEW r \in Int, NEW l \in Int, NEW v \in Int,
         at >= 0, o >= 0, r >= 0, o + r <= l, at + l <= v
  PROVE  (at + o) + r <= v /\ at + o \in Nat /\ r \in Nat
OBVIOUS

(* The launcher leaves this image: each copy lies over those before it     *)
(* (launch_engine.c:66).                                                   *)
LEMMA Launched ==
  ASSUME NEW boot, NEW copy_end, NEW params, NEW engine, NEW path, NEW at \in Int,
         boot \in Seq(Nat), params \in Seq(Nat), engine \in Seq(Nat), path \in Seq(Nat),
         at = cardEngineLocation(boot, copy_end), at >= Len(boot),
         Len(params) = LoadSize, LoadSize <= Len(boot),
         at + DataSize <= VramSize, at + Len(engine) <= VramSize,
         engine = <<>> => path = <<>>,
         engine # <<>> => /\ DataSize <= Len(engine) /\ Len(path) < boot_path_max_len
                          /\ boot_path_offset + boot_path_max_len <= Len(engine)
  PROVE  ImageIs(runLaunchEngine(boot, copy_end, params, engine, path),
                 boot, params, engine, path, at)
<1> DEFINE v == VramSize
           data == DataOf(engine, path)
           argv == Argv(path)
           to == at + PathPlace(engine)
           n == PathRoom(engine)
           bytes == PathBytes(engine, path)
           l1 == v + Len(boot)
           l2 == l1 + LoadSize
           l3 == l2 + Len(engine)
           l4 == l3 + DataSize
           m0 == Filled(v, 98) \o boot \o params \o engine \o data \o argv
           m1 == After(m0, toncset(m0, 0, 0, v))
           m2 == Copied(m1, 0, v, Len(boot))
           m3 == Copied(m2, 0, l1, LoadSize)
           m4 == Copied(m3, at, l2, Len(engine))
           m5 == Copied(m4, at, l3, DataSize)
           m6 == IF path # <<>> THEN Copied(m5, to, l4, n)
                 ELSE After(m5, toncset(m5, to, 0, n))
           vram == SubSeq(m6, 1, v)
           Src(m) == Sources(m, boot, params, engine, data, argv)
<1>1. runLaunchEngine(boot, copy_end, params, engine, path) = vram
  BY DEF runLaunchEngine, DataOf, Argv, PathPlace, PathRoom
<1>2. /\ data \in Seq(Nat) /\ Len(data) = DataSize
      /\ argv \in Seq(Nat)
      /\ bytes \in Seq(Nat) /\ Len(bytes) = n
  BY DataIs, ArgvIs, PathBytesAre
<1>3. /\ Sized(boot, Len(boot)) /\ Sized(params, LoadSize) /\ Sized(engine, Len(engine))
      /\ Sized(data, DataSize) /\ Sized(bytes, n) /\ Sized(Zeros(v), v)
  <2>1. Len(Zeros(v)) = v /\ Zeros(v) \in Seq(Nat)
    BY ZerosIs, SizesAssumption
  <2> QED
    BY <1>2, <2>1 DEF Sized
<1>4. data \in Seq(Nat) /\ argv \in Seq(Nat) /\ bytes \in Seq(Nat)
  BY <1>2
<1>5. /\ v \in Nat /\ LoadSize \in Nat /\ DataSize \in Nat
      /\ Len(boot) \in Nat /\ Len(engine) \in Nat /\ Len(params) \in Nat
  BY SizesAssumption, Joined
<1>6. l1 \in Nat /\ l2 \in Nat /\ l3 \in Nat /\ l4 \in Nat
  BY <1>5
<1>7. /\ to \in Nat /\ n \in Nat /\ at \in Nat /\ to + n <= v
      /\ at + DataSize <= v /\ at + Len(engine) <= v /\ Len(boot) <= v /\ LoadSize <= v
  <2>1. CASE engine = <<>>
    <3>1. at \in Nat /\ at <= v
      BY <1>5
    <3>2. to = at + 0 /\ n = 0
      BY <2>1 DEF PathPlace, PathRoom
    <3> HIDE DEF to, n
    <3> QED
      BY <1>5, <3>1, <3>2
  <2>2. CASE engine # <<>>
    <3>1. at \in Nat
      BY <1>5
    <3>2. to = at + boot_path_offset /\ n = boot_path_max_len
      BY <2>2 DEF PathPlace, PathRoom
    <3>3. boot_path_offset \in Nat /\ boot_path_max_len \in Nat
      BY SizesAssumption
    <3>4. boot_path_offset + boot_path_max_len <= Len(engine)
      BY <2>2
    <3> DEFINE l == Len(engine)
               o == boot_path_offset
               r == boot_path_max_len
    <3>5. l \in Nat /\ o \in Nat /\ r \in Nat /\ o + r <= l
      BY <1>5, <3>3, <3>4
    <3>6. at + l <= v
      OBVIOUS
    <3>7. to = at + o /\ n = r
      BY <3>2
    <3>8. at >= 0 /\ o >= 0 /\ r >= 0 /\ at \in Int
      BY <3>1, <3>5
    <3>9. o \in Int /\ r \in Int /\ l \in Int /\ v \in Int
      BY <1>5, <3>5
    <3> HIDE DEF to, n, l, o, r, v
    <3>10. (at + o) + r <= v /\ at + o \in Nat /\ r \in Nat
      BY <3>5, <3>6, <3>8, <3>9, PlaceFits, Zenon
    <3>11. to \in Nat /\ n \in Nat /\ to + n <= v
      BY <3>7, <3>10, Zenon
    <3>12. Len(boot) <= v /\ LoadSize <= v
      BY <1>5, <3>1, <3>5, <3>6, SMTT(30)
    <3> QED
      BY <3>1, <3>6, <3>11, <3>12 DEF v, l
  <2> QED
    BY <2>1, <2>2
<1> HIDE DEF data, argv, bytes, n, to, m1, m2, m3, m4, m5, m6
<1>8. Src(m0)
  <2>1. Filled(v, 98) \in Seq(Nat) /\ Len(Filled(v, 98)) = VramSize
    BY <1>5, FilledIs
  <2> QED
    BY <1>2, <2>1, SourcesLie
<1> HIDE DEF m0
<1>9. \A m : Src(m) => /\ Lies(m, v, boot) /\ Lies(m, l1, params) /\ Lies(m, l2, engine)
                      /\ Lies(m, l3, data) /\ Lies(m, l4, argv)
  BY <1>2 DEF Sources
<1> DEFINE Lays(m, t, dst, w, long) ==
             /\ Src(m)
             /\ Laid(m, t, dst, w, long)
<1> HIDE DEF l1, l2, l3, l4
<1>10. ASSUME NEW t, NEW m, NEW dst \in Int, NEW w, NEW long \in Int,
              Src(t), Sized(w, long),
             dst >= 0, dst + long <= VramSize, m = Over(t, dst, w)
      PROVE  Lays(m, t, dst, w, long)
  <2>1. Sources(t, boot, params, engine, data, argv)
    BY <1>10
  <2>2. LaidOver(m, t, boot, params, engine, data, argv, dst, w, long)
    BY <1>10, <1>4, <2>1, SourcesLaid
  <2> QED
    BY <2>2 DEF LaidOver
<1> HIDE DEF Lays
<1>11. Lays(m1, m0, 0, Zeros(v), v)
  <2>1. m1 = Over(m0, 0, Zeros(v))
    BY <1>5, <1>8, ClearedInBank DEF m1
  <2> QED
    BY <1>5, <1>8, <1>10, <1>3, <2>1
<1>12. Lays(m2, m1, 0, boot, Len(boot))
  <2>1. Src(m1) /\ Lies(m1, v, boot) /\ 0 + Len(boot) <= VramSize
    BY <1>5, <1>7, <1>9, <1>11 DEF Lays, Laid
  <2>2. m2 = Over(m1, 0, boot)
    BY <1>5, <1>3, <2>1, CopiedIntoBank DEF m2
  <2> QED
    BY <1>5, <1>10, <1>3, <2>1, <2>2
<1>13. Lays(m3, m2, 0, params, LoadSize)
  <2>1. Src(m2) /\ Lies(m2, l1, params) /\ 0 + LoadSize <= VramSize
    BY <1>5, <1>7, <1>9, <1>12 DEF Lays, Laid
  <2>2. m3 = Over(m2, 0, params)
    BY <1>5, <1>6, <1>3, <2>1, CopiedIntoBank DEF m3
  <2> QED
    BY <1>5, <1>10, <1>3, <2>1, <2>2
<1>14. Lays(m4, m3, at, engine, Len(engine))
  <2>1. Src(m3) /\ Lies(m3, l2, engine)
    BY <1>9, <1>13 DEF Lays, Laid
  <2>2. m4 = Over(m3, at, engine)
    BY <1>5, <1>6, <1>7, <1>3, <2>1, CopiedIntoBank DEF m4
  <2> QED
    BY <1>5, <1>7, <1>10, <1>3, <2>1, <2>2
<1>15. Lays(m5, m4, at, data, DataSize)
  <2>1. Src(m4) /\ Lies(m4, l3, data)
    BY <1>9, <1>14 DEF Lays, Laid
  <2>2. m5 = Over(m4, at, data)
    BY <1>5, <1>6, <1>7, <1>3, <2>1, CopiedIntoBank DEF m5
  <2> QED
    BY <1>5, <1>7, <1>10, <1>3, <2>1, <2>2
<1>16. Lays(m6, m5, to, bytes, n)
  <2>1. Src(m5) /\ Lies(m5, l4, argv)
    BY <1>9, <1>15 DEF Lays, Laid
  <2>2. CASE path # <<>>
    <3>1. bytes = SubSeq(argv, 1, n)
      BY <2>2 DEF bytes, PathBytes, argv, n
    <3>2. n <= Len(argv)
      <4>1. n = boot_path_max_len
        BY <2>2 DEF n, PathRoom
      <4>2. Len(argv) = Len(path) + 1 + boot_path_max_len
        BY ArgvIs DEF argv
      <4>3. Len(path) \in Nat
        BY Joined
      <4> QED
        BY <1>7, <4>1, <4>2, <4>3
    <3>3. Lies(m5, l4, bytes)
      <4>1. Len(m5) \in Nat
        BY <2>1 DEF Sources
      <4>2. Lies(m5, l4, SubSeq(argv, 1, n))
        BY <1>2, <1>6, <1>7, <2>1, <3>2, <4>1, LiesStart
      <4> QED
        BY <3>1, <4>2
    <3>4. m6 = Over(m5, to, bytes)
      <4>1. m6 = Copied(m5, to, l4, n)
        BY <2>2 DEF m6
      <4>2. Copied(m5, to, l4, n) = Over(m5, to, bytes)
        BY <1>6, <1>7, <1>3, <2>1, <3>3, CopiedIntoBank
      <4> QED
        BY <4>1, <4>2
    <3> QED
      BY <1>7, <1>10, <1>3, <2>1, <3>4
  <2>3. CASE path = <<>>
    <3>1. bytes = Zeros(n)
      BY <2>3 DEF bytes, PathBytes, n
    <3>2. m6 = Over(m5, to, bytes)
      BY <1>7, <2>1, <2>3, <3>1, ClearedInBank DEF m6
    <3> QED
      BY <1>7, <1>10, <1>3, <2>1, <3>2
  <2> QED
    BY <2>2, <2>3
<1>17. /\ m6 \in Seq(Nat) /\ v <= Len(m6) /\ Len(m6) \in Nat
  <2>1. m6 \in Seq(Nat) /\ v + Len(boot) <= Len(m6)
    BY <1>16 DEF Lays, Laid, Sources, Lies
  <2>2. Len(m6) \in Nat
    BY <2>1
  <2> QED
    BY <1>5, <2>1, <2>2
<1>18. vram \in Seq(Nat) /\ Len(vram) = v
  BY <1>5, <1>17, SubSeqProperties, SMTT(30)
<1>19. \A i \in 1..v : vram[i] = m6[i]
  BY <1>5, <1>17, SubSeqProperties
<1>20. ASSUME NEW i \in 1..v
       PROVE  m6[i] = ImageByte(boot, params, engine, path, at, i)
  <2>1. m1[i] = 0
    <3>1. 0 < i /\ i <= 0 + v /\ i - 0 = i /\ i \in Int
      BY <1>5
    <3>2. m1[i] = Zeros(v)[i]
      BY <1>11, <3>1 DEF Lays, Laid
    <3> QED
      BY <1>5, <3>2, ZerosIs
  <2>2. m2[i] = IF i <= Len(boot) THEN boot[i] ELSE 0
    BY <1>5, <1>12, <2>1 DEF Lays, Laid
  <2>3. m3[i] = IF i <= LoadSize THEN params[i]
                ELSE IF i <= Len(boot) THEN boot[i] ELSE 0
    <3>1. m3[i] = IF 0 < i /\ i <= 0 + LoadSize THEN params[i - 0] ELSE m2[i]
      BY <1>13 DEF Lays, Laid
    <3>2. 0 < i /\ i - 0 = i /\ 0 + LoadSize = LoadSize
      BY <1>5
    <3> QED
      BY <2>2, <3>1, <3>2
  <2>4. m4[i] = IF at < i /\ i <= at + Len(engine) THEN engine[i - at] ELSE m3[i]
    BY <1>14 DEF Lays, Laid
  <2>5. m5[i] = IF at < i /\ i <= at + DataSize THEN data[i - at] ELSE m4[i]
    BY <1>15 DEF Lays, Laid
  <2>6. m6[i] = IF to < i /\ i <= to + n THEN bytes[i - to] ELSE m5[i]
    BY <1>16 DEF Lays, Laid
  <2> QED
    BY <2>3, <2>4, <2>5, <2>6 DEF ImageByte, to, n, bytes, data
<1> HIDE DEF vram, v
<1>21. ImageIs(vram, boot, params, engine, path, at)
  BY <1>18, <1>19, <1>20 DEF ImageIs, v
<1> QED
  BY <1>1, <1>21

(* The clearing ends where the engine begins (launch_ds_crt0.s,            *)
(* launch_engine.c).                                                       *)
LEMMA UpToEngine ==
  ASSUME NEW b \in Nat, NEW c \in Nat, b % 4 = 0, b <= c
  PROVE  /\ ((c - b + 3) \div 4) * 4 \in Nat
         /\ b + (((c - b + 3) \div 4) * 4) = ((c + 3) \div 4) * 4
         /\ c <= ((c + 3) \div 4) * 4 /\ (((c + 3) \div 4) * 4) % 4 = 0
         /\ ((c + 3) \div 4) * 4 \in Nat
OBVIOUS

(* Distances do not depend on where they start.                            *)
LEMMA Shifted ==
  ASSUME NEW at \in Int, NEW i \in Int, NEW from \in Int, NEW n \in Int
  PROVE  /\ at + from < at + i <=> from < i
         /\ at + i <= (at + from) + n <=> i <= from + n
         /\ (at + i) - (at + from) = i - from
         /\ (at + i) - at = i
         /\ at + i <= at + n <=> i <= n
OBVIOUS

(* What the bank holds once the bootloader's variables are cleared.        *)
ReadyIs(ready, boot, params, engine, path, at) ==
  /\ ready \in Seq(Nat) /\ Len(ready) = VramSize
  /\ \A i \in 1..at :
       ready[i] = IF i <= LoadSize THEN params[i]
                  ELSE IF i <= Len(boot) THEN boot[i] ELSE 0
  /\ \A i \in 1..(VramSize - at) :
       LET from == PathPlace(engine)
       IN ready[at + i] =
            CASE from < i /\ i <= from + PathRoom(engine) ->
                   PathBytes(engine, path)[i - from]
              [] ~(from < i /\ i <= from + PathRoom(engine)) /\ i <= DataSize ->
                   DataOf(engine, path)[i]
              [] ~(from < i /\ i <= from + PathRoom(engine)) /\ ~(i <= DataSize) ->
                   IF i <= Len(engine) THEN engine[i] ELSE 0

(* The clearing leaves the engine alone.                                   *)
LEMMA Cleared ==
  ASSUME NEW vram, NEW boot, NEW copy_end \in Nat, NEW params, NEW engine, NEW path,
         NEW at \in Int, ImageIs(vram, boot, params, engine, path, at),
         boot \in Seq(Nat), params \in Seq(Nat), engine \in Seq(Nat),
         at = cardEngineLocation(boot, copy_end), Len(boot) % 4 = 0,
         Len(boot) <= copy_end, at <= VramSize,
         Len(params) = LoadSize, LoadSize <= Len(boot)
  PROVE  ReadyIs(ClearBss(vram, boot, copy_end), boot, params, engine, path, at)
<1> DEFINE b == Len(boot)
           long == ((copy_end - b + 3) \div 4) * 4
           z == Zeros(long)
           ready == Over(vram, b, z)
           v == VramSize
<1>1. b \in Nat /\ long \in Nat /\ b + long = at /\ v \in Nat /\ LoadSize \in Nat
  BY UpToEngine, SizesAssumption, Joined DEF cardEngineLocation
<1>2. at \in Nat /\ at <= v /\ LoadSize <= b
  <2>1. b + long \in Nat
    BY <1>1
  <2> HIDE DEF b, long
  <2> QED
    BY <1>1, <2>1 DEF b
<1>3. ClearBss(vram, boot, copy_end) = ready
  BY DEF ClearBss
<1> HIDE DEF long
<1>4. z \in Seq(Nat) /\ Len(z) = long /\ \A i \in 1..long : z[i] = 0
  BY <1>1, ZerosIs
<1>5. vram \in Seq(Nat)
  BY DEF ImageIs
<1>6. Len(vram) = v
  BY DEF ImageIs
<1>7. \A i \in 1..v : vram[i] = ImageByte(boot, params, engine, path, at, i)
  BY DEF ImageIs
<1> HIDE DEF z, b, v
<1>8. b >= 0 /\ b + Len(z) <= Len(vram) /\ b \in Int
  BY <1>1, <1>4, <1>6 DEF v
<1>9. ready \in Seq(Nat)
  BY <1>4, <1>5, <1>8, OverIs
<1>10. Len(ready) = Len(vram)
  BY <1>4, <1>5, <1>8, OverIs
<1>11. \A i \in 1..Len(vram) :
         ready[i] = IF b < i /\ i <= b + Len(z) THEN z[i - b] ELSE vram[i]
  BY <1>4, <1>5, <1>8, OverIs
<1> HIDE DEF ready
<1>12. ASSUME NEW i \in 1..v
       PROVE  ready[i] = IF b < i /\ i <= at THEN 0 ELSE vram[i]
  <2>1. i \in 1..Len(vram) /\ i \in Int
    BY <1>1, <1>6
  <2>2. b + Len(z) = at
    BY <1>1, <1>4
  <2>3. ready[i] = IF b < i /\ i <= at THEN z[i - b] ELSE vram[i]
    BY <1>11, <2>1, <2>2
  <2>4. b < i /\ i <= at => i - b \in 1..long
    BY <1>1, <2>1
  <2>5. b < i /\ i <= at => z[i - b] = 0
    BY <1>4, <2>4
  <2> QED
    BY <2>3, <2>5
<1> DEFINE from == PathPlace(engine)
           n == PathRoom(engine)
<1>13. from \in Nat /\ n \in Nat
  BY SizesAssumption DEF PathPlace, PathRoom
<1> HIDE DEF from, n
<1>14. ASSUME NEW i \in 1..at
       PROVE  ready[i] = IF i <= LoadSize THEN params[i] ELSE IF i <= b THEN boot[i] ELSE 0
  <2>1. i \in 1..v /\ i \in Int /\ i <= at
    BY <1>1, <1>2
  <2>2. ~(at + from < i) /\ ~(at < i)
    BY <1>2, <1>13, <2>1
  <2>3. vram[i] = IF i <= LoadSize THEN params[i] ELSE IF i <= b THEN boot[i] ELSE 0
    <3>1. vram[i] = ImageByte(boot, params, engine, path, at, i)
      BY <1>7, <2>1
    <3>2. ImageByte(boot, params, engine, path, at, i)
            = IF i <= Len(params) THEN params[i] ELSE IF i <= Len(boot) THEN boot[i] ELSE 0
      BY <2>2 DEF ImageByte, from, n
    <3> QED
      BY <3>1, <3>2 DEF b
  <2>4. ready[i] = IF b < i /\ i <= at THEN 0 ELSE vram[i]
    BY <1>12, <2>1
  <2> QED
    BY <1>1, <1>2, <2>1, <2>3, <2>4
<1>15. ASSUME NEW i \in 1..(v - at)
       PROVE  ready[at + i] =
                CASE from < i /\ i <= from + n -> PathBytes(engine, path)[i - from]
                  [] ~(from < i /\ i <= from + n) /\ i <= DataSize ->
                       DataOf(engine, path)[i]
                  [] ~(from < i /\ i <= from + n) /\ ~(i <= DataSize) ->
                       IF i <= Len(engine) THEN engine[i] ELSE 0
  <2> DEFINE p == at + i
  <2>1. p \in 1..v /\ p > at /\ i \in Int /\ p \in Int
    BY <1>1, <1>2
  <2>2. b <= at
    BY <1>1
  <2>3. p > b /\ p > LoadSize
    BY <1>1, <1>2, <2>1, <2>2, SMTT(30)
  <2>4. ready[p] = vram[p]
    <3>1. ~(p <= at)
      BY <1>2, <2>1
    <3> HIDE DEF p
    <3> QED
      BY <1>12, <2>1, <3>1
  <2>5. vram[p] = ImageByte(boot, params, engine, path, at, p)
    BY <1>7, <2>1
  <2>6. /\ (at + from < p <=> from < i) /\ (p <= (at + from) + n <=> i <= from + n)
        /\ p - (at + from) = i - from /\ p - at = i
        /\ (p <= at + DataSize <=> i <= DataSize)
        /\ (p <= at + Len(engine) <=> i <= Len(engine))
    <3>1. DataSize \in Int /\ Len(engine) \in Int
      BY SizesAssumption, Joined
    <3>2. /\ at \in Int /\ from \in Int /\ n \in Int
      BY <1>13, <1>2
    <3>3. p <= at + DataSize <=> i <= DataSize
      BY <2>1, <3>1, <3>2, Shifted
    <3>4. p <= at + Len(engine) <=> i <= Len(engine)
      BY <2>1, <3>1, <3>2, Shifted
    <3>5. at + from < p <=> from < i
      BY <2>1, <3>2
    <3>6. p <= (at + from) + n <=> i <= from + n
      BY <2>1, <3>2, SMTT(30)
    <3>7. p - (at + from) = i - from
      BY <2>1, <3>2
    <3>8. p - at = i
      BY <2>1, <3>2
    <3> HIDE DEF p
    <3> QED
      BY <3>3, <3>4, <3>5, <3>6, <3>7, <3>8
  <2>7. at < p /\ ~(p <= Len(params)) /\ ~(p <= Len(boot))
    <3> DEFINE l == Len(params)
    <3>1. ~(p <= LoadSize) /\ ~(p <= b) /\ at < p
      BY <1>1, <2>1, <2>3, SMTT(30)
    <3>2. l = LoadSize
      OBVIOUS
    <3> HIDE DEF p, l
    <3>3. ~(p <= l)
      BY <3>1, <3>2
    <3> QED
      BY <3>1, <3>3 DEF l, b
  <2>8. ready[p] = ImageByte(boot, params, engine, path, at, p)
    BY <2>4, <2>5
  <2>9. ImageByte(boot, params, engine, path, at, p) =
          CASE from < i /\ i <= from + n -> PathBytes(engine, path)[i - from]
            [] ~(from < i /\ i <= from + n) /\ i <= DataSize -> DataOf(engine, path)[i]
            [] ~(from < i /\ i <= from + n) /\ ~(i <= DataSize) ->
                 IF i <= Len(engine) THEN engine[i] ELSE 0
    <3> HIDE DEF p
    <3> QED
      BY <2>6, <2>7 DEF ImageByte, from, n
  <2> QED
    BY <2>8, <2>9
<1>16. Len(ready) = VramSize
  BY <1>6, <1>10 DEF v
<1>17. ReadyIs(ready, boot, params, engine, path, at)
  BY <1>9, <1>14, <1>15, <1>16 DEF ReadyIs, from, n, b, v
<1> QED
  BY <1>3, <1>17

-----------------------------------------------------------------------------
(* The bootloader behind its parameters, its variables cleared.            *)
LEMMA LoadArrives ==
  ASSUME NEW ready, NEW boot, NEW params, NEW engine, NEW path, NEW at \in Int,
         NEW c \in Int, ReadyIs(ready, boot, params, engine, path, at),
         boot \in Seq(Nat), params \in Seq(Nat), Len(params) = LoadSize,
         LoadSize <= Len(boot), Len(boot) <= c, c <= at, at <= VramSize
  PROVE  SubSeq(ready, 1, c)
           = params \o SubSeq(boot, LoadSize + 1, Len(boot)) \o Zeros(c - Len(boot))
<1> DEFINE b == Len(boot)
           l == LoadSize
           mid == SubSeq(boot, l + 1, b)
           z == Zeros(c - b)
           one == params \o mid
           whole == one \o z
           load == SubSeq(ready, 1, c)
<1>1. b \in Nat /\ l \in Nat /\ l <= b /\ b <= c /\ c <= at /\ c \in Int /\ at <= VramSize
  BY SizesAssumption, Joined
<1>2. ready \in Seq(Nat)
  BY DEF ReadyIs
<1>3. Len(ready) = VramSize
  BY DEF ReadyIs
<1>4. \A i \in 1..at : ready[i] = IF i <= l THEN params[i] ELSE IF i <= b THEN boot[i] ELSE 0
  BY DEF ReadyIs
<1>5. VramSize \in Nat
  BY SizesAssumption
<1>6. mid \in Seq(Nat) /\ Len(mid) = b - l /\ \A i \in 1..(b - l) : mid[i] = boot[l + i]
  <2>1. l + 1 \in 1..(b + 1) /\ b \in l..b
    BY <1>1
  <2>2. mid \in Seq(Nat)
    BY <2>1, SubSeqProperties
  <2>3. Len(mid) = IF l + 1 <= b THEN b - (l + 1) + 1 ELSE 0
    BY <1>1, <2>1, SubSeqProperties
  <2>4. \A i \in 1..(b - (l + 1) + 1) : mid[i] = boot[(l + 1) + i - 1]
    BY <1>1, <2>1, SubSeqProperties
  <2> HIDE DEF mid, b, l
  <2>5. Len(mid) = b - l
    BY <1>1, <2>3
  <2>6. ASSUME NEW i \in 1..(b - l)
        PROVE  mid[i] = boot[l + i]
    <3>1. i \in 1..(b - (l + 1) + 1) /\ (l + 1) + i - 1 = l + i
      BY <1>1
    <3> QED
      BY <2>4, <3>1
  <2> QED
    BY <2>2, <2>5, <2>6
<1>7. z \in Seq(Nat) /\ Len(z) = c - b /\ \A i \in 1..(c - b) : z[i] = 0
  <2>1. c - b \in Nat
    BY <1>1
  <2> QED
    BY <2>1, ZerosIs
<1>8. Sized(params, l)
  BY DEF Sized
<1> HIDE DEF mid, z, b, l
<1>9. /\ one \in Seq(Nat) /\ Len(one) = b
      /\ \A i \in 1..b : one[i] = IF i <= l THEN params[i] ELSE boot[i]
  <2>1. params \in Seq(Nat)
    OBVIOUS
  <2> DEFINE long == Len(params)
             n == Len(mid)
  <2>2. one \in Seq(Nat) /\ Len(one) = long + n
    BY <1>6, <2>1, Joined
  <2>3. \A i \in 1..long : one[i] = params[i]
    BY <1>6, <2>1, Joined
  <2>4. \A i \in 1..n : one[long + i] = mid[i]
    BY <1>6, <2>1, Joined, SMTT(30)
  <2>5. long = l /\ n = b - l
    BY <1>6, <1>8 DEF Sized
  <2> HIDE DEF one, long, n
  <2>6. Len(one) = b
    BY <1>1, <2>2, <2>5
  <2>7. ASSUME NEW i \in 1..b
        PROVE  one[i] = IF i <= l THEN params[i] ELSE boot[i]
    <3>1. CASE i <= l
      BY <1>1, <2>3, <2>5, <3>1
    <3>2. CASE ~(i <= l)
      <4> DEFINE j == i - l
      <4>1. j \in 1..n /\ j \in 1..(b - l) /\ long + j = i /\ l + j = i
        BY <1>1, <2>5, <3>2
      <4> HIDE DEF j
      <4>2. one[long + j] = boot[l + j]
        BY <1>6, <2>4, <4>1
      <4> QED
        BY <3>2, <4>1, <4>2
    <3> QED
      BY <3>1, <3>2
  <2> QED
    BY <2>2, <2>6, <2>7
<1> HIDE DEF one
<1>10. /\ whole \in Seq(Nat) /\ Len(whole) = c
       /\ \A i \in 1..c : whole[i] = IF i <= l THEN params[i] ELSE IF i <= b THEN boot[i] ELSE 0
  <2> DEFINE long == Len(one)
             n == Len(z)
  <2>1. whole \in Seq(Nat) /\ Len(whole) = long + n
    BY <1>7, <1>9, Joined
  <2>2. \A i \in 1..long : whole[i] = one[i]
    BY <1>7, <1>9, Joined
  <2>3. \A i \in 1..n : whole[long + i] = z[i]
    BY <1>7, <1>9, Joined, SMTT(30)
  <2>4. long = b /\ n = c - b
    BY <1>7, <1>9
  <2> HIDE DEF whole, long, n
  <2>5. Len(whole) = c
    BY <1>1, <2>1, <2>4
  <2>6. ASSUME NEW i \in 1..c
        PROVE  whole[i] = IF i <= l THEN params[i] ELSE IF i <= b THEN boot[i] ELSE 0
    <3>1. CASE i <= b
      BY <1>1, <1>9, <2>2, <2>4, <3>1
    <3>2. CASE ~(i <= b)
      <4> DEFINE j == i - b
      <4>1. j \in 1..n /\ j \in 1..(c - b) /\ long + j = i /\ ~(i <= l)
        BY <1>1, <2>4, <3>2
      <4> HIDE DEF j
      <4>2. whole[long + j] = 0
        BY <1>7, <2>3, <4>1
      <4> QED
        BY <3>2, <4>1, <4>2
    <3> QED
      BY <3>1, <3>2
  <2> QED
    BY <2>1, <2>5, <2>6
<1>11. load \in Seq(Nat) /\ Len(load) = c
  <2>1. c <= Len(ready) /\ c >= 1 - 1 /\ 1 \in 1..(Len(ready) + 1) /\ c \in 0..Len(ready)
    BY <1>1, <1>3, <1>5
  <2> QED
    BY <1>2, <2>1, SubSeqProperties
<1>12. \A i \in 1..c : load[i] = ready[i]
  <2>1. c <= Len(ready) /\ 1 \in 1..(Len(ready) + 1) /\ c \in 0..Len(ready)
    BY <1>1, <1>3, <1>5
  <2> QED
    BY <1>2, <2>1, SubSeqProperties
<1> HIDE DEF load, whole
<1>13. \A i \in 1..c : load[i] = whole[i]
  <2>1. \A i \in 1..c : i \in 1..at
    BY <1>1
  <2> QED
    BY <1>4, <1>10, <1>12, <2>1
<1>14. load = whole
  BY <1>10, <1>11, <1>13, SeqEqual
<1> QED
  BY <1>14 DEF load, whole, one, mid, z, b, l

(* A stretch of a string.                                                  *)
LEMMA StretchIs ==
  ASSUME NEW v, NEW a \in Int, NEW b \in Int, v \in Seq(Nat), a >= 0, a <= b, b <= Len(v)
  PROVE  /\ SubSeq(v, a + 1, b) \in Seq(Nat) /\ Len(SubSeq(v, a + 1, b)) = b - a
         /\ \A i \in 1..(b - a) : SubSeq(v, a + 1, b)[i] = v[a + i]
<1> DEFINE s == SubSeq(v, a + 1, b)
<1>1. Len(v) \in Nat /\ a + 1 \in 1..(Len(v) + 1) /\ b \in 0..Len(v)
  BY Joined
<1>2. s \in Seq(Nat)
  BY <1>1, SubSeqProperties
<1>3. Len(s) = IF a + 1 <= b THEN b - (a + 1) + 1 ELSE 0
  BY <1>1, SubSeqProperties
<1>4. \A i \in 1..(b - (a + 1) + 1) : s[i] = v[(a + 1) + i - 1]
  BY <1>1, SubSeqProperties
<1> HIDE DEF s
<1>5. Len(s) = b - a
  BY <1>3
<1>6. ASSUME NEW i \in 1..(b - a)
      PROVE  s[i] = v[a + i]
  <2>1. i \in 1..(b - (a + 1) + 1) /\ (a + 1) + i - 1 = a + i
    OBVIOUS
  <2> QED
    BY <1>4, <2>1
<1> QED
  BY <1>2, <1>5, <1>6 DEF s

(* The engine is copied behind the bank.                                   *)
LEMMA PlacedIs ==
  ASSUME NEW vram, NEW at \in Int, NEW n \in Int, vram \in Seq(Nat), at >= 0, n > 0,
         Len(vram) = VramSize, at + n <= VramSize, Aligned(n, 4)
  PROVE  /\ Placed(vram, at, n) \in Seq(Nat) /\ Len(Placed(vram, at, n)) = n
         /\ \A i \in 1..n : Placed(vram, at, n)[i] = vram[at + i]
<1> DEFINE z == Zeros(n)
           mem == vram \o z
           v == VramSize
           w == Taken4(mem, at, n)
           t == Over(mem, v, w)
           s == SubSeq(t, v + 1, v + n)
<1>1. v \in Nat /\ v % 4 = 0 /\ n % 4 = 0 /\ n \in Nat /\ Aligned(v, 4)
  BY SizesAssumption DEF Aligned
<1>2. z \in Seq(Nat) /\ Len(z) = n
  BY <1>1, ZerosIs
<1> HIDE DEF z
<1>3. mem \in Seq(Nat) /\ Len(mem) = Len(vram) + Len(z)
  BY <1>2, Joined
<1>4. \A i \in 1..Len(vram) : mem[i] = vram[i]
  BY <1>2, Joined
<1>5. Sized(mem, v + n)
  BY <1>2, <1>3 DEF Sized
<1> HIDE DEF mem
<1>6. \A i \in 1..v : mem[i] = vram[i]
  BY <1>4
<1> HIDE DEF v
<1>7. Room(mem, v + n)
  <2>1. (v + n) % 4 = 0 /\ v + n \in Nat
    BY <1>1, SMTT(30)
  <2> DEFINE l == v + n
  <2> HIDE DEF l
  <2>2. Len(mem) = l /\ l \in Nat /\ l % 4 = 0
    BY <1>5, <2>1 DEF Sized, l
  <2>3. 4 * ((l + 3) \div 4) <= l
    BY <2>2
  <2>4. Room(mem, l)
    BY <2>2, <2>3 DEF Room
  <2> QED
    BY <2>4 DEF l
<1>8. v + n <= Len(mem) /\ at + n <= Len(mem) /\ at + n <= v
  <2>1. Len(mem) = v + n
    BY <1>5 DEF Sized
  <2>2. at + n <= v
    BY DEF v
  <2> QED
    BY <1>1, <2>1, <2>2
<1>9. Moves(mem, copyLoop(mem, v, at, n), v, w)
  <2>1. mem \in Seq(Nat)
    BY <1>3
  <2>2. v \in Int /\ v >= 0 /\ Aligned(v, 4)
    BY <1>1
  <2> QED
    BY <1>7, <1>8, <2>1, <2>2, copyLoopMoves
<1>10. Placed(vram, at, n) = s
  <2>1. After(mem, copyLoop(mem, v, at, n)) = t
    BY <1>9 DEF Moves
  <2> HIDE DEF t
  <2>2. n # 0
    OBVIOUS
  <2> QED
    BY <2>1, <2>2 DEF Placed, mem, z, v
<1>11. Sized(w, n) /\ \A i \in 1..n : w[i] = mem[at + i]
  BY <1>1, <1>3, <1>8, TakenIs DEF Sized
<1> HIDE DEF w
<1>12. w \in Seq(Nat) /\ v + Len(w) <= Len(mem) /\ v >= 0 /\ v \in Int
  BY <1>1, <1>8, <1>11 DEF Sized
<1>13. t \in Seq(Nat)
  BY <1>3, <1>12, OverIs
<1>14. Len(t) = Len(mem)
  BY <1>3, <1>12, OverIs
<1>15. \A i \in 1..Len(mem) : t[i] = IF v < i /\ i <= v + Len(w) THEN w[i - v] ELSE mem[i]
  BY <1>3, <1>12, OverIs
<1> HIDE DEF t
<1>16. v + n \in Int /\ v <= v + n /\ v + n <= Len(t)
  BY <1>1, <1>8, <1>14
<1>17. s \in Seq(Nat)
  BY <1>12, <1>13, <1>16, StretchIs
<1>18. Len(s) = (v + n) - v
  BY <1>12, <1>13, <1>16, StretchIs
<1>19. \A i \in 1..((v + n) - v) : s[i] = t[v + i]
  BY <1>12, <1>13, <1>16, StretchIs
<1> HIDE DEF s
<1>20. (v + n) - v = n
  BY <1>1
<1>21. ASSUME NEW i \in 1..n
       PROVE  s[i] = vram[at + i]
  <2> DEFINE p == v + i
             q == at + i
  <2>1. p \in 1..Len(mem) /\ v < p /\ p <= v + n /\ p - v = i
    <3>1. Len(mem) = v + n
      BY <1>5 DEF Sized
    <3> QED
      BY <1>1, <3>1
  <2>2. q \in 1..v
    BY <1>1, <1>8
  <2>3. Len(w) = n
    BY <1>11 DEF Sized
  <2>4. s[i] = t[p]
    BY <1>19, <1>20
  <2> HIDE DEF p
  <2>5. t[p] = w[i]
    BY <1>15, <2>1, <2>3
  <2>6. w[i] = mem[q]
    BY <1>11
  <2> HIDE DEF q
  <2>7. mem[q] = vram[q]
    BY <1>6, <2>2
  <2> QED
    BY <2>4, <2>5, <2>6, <2>7 DEF q
<1> QED
  BY <1>10, <1>17, <1>18, <1>20, <1>21

(* The engine at its place, for the game: the type and the path are set.   *)
PlacedByte(engine, path, i) ==
  CASE boot_path_offset < i /\ i <= boot_path_offset + boot_path_max_len ->
         PathBytes(engine, path)[i - boot_path_offset]
    [] i = boot_type_at + 1 -> boot_type(path)
    [] OTHER -> engine[i]

LEMMA EnginePlaced ==
  ASSUME NEW ready, NEW boot, NEW params, NEW engine, NEW path,
         NEW at \in Int, NEW n \in Int,
         ReadyIs(ready, boot, params, engine, path, at),
         Sized(engine, n), n > 0, DataSize <= n,
         at >= 0, at + n <= VramSize, Aligned(n, 4)
  PROVE  /\ Sized(Placed(ready, at, n), n)
         /\ \A i \in 1..n : Placed(ready, at, n)[i] = PlacedByte(engine, path, i)
<1> DEFINE placed == Placed(ready, at, n)
           from == boot_path_offset
           room == boot_path_max_len
<1>1. ready \in Seq(Nat)
  BY DEF ReadyIs
<1>2. Len(ready) = VramSize
  BY DEF ReadyIs
<1>3. placed \in Seq(Nat)
  BY <1>1, <1>2, PlacedIs
<1>4. Len(placed) = n
  BY <1>1, <1>2, PlacedIs
<1>5. \A i \in 1..n : placed[i] = ready[at + i]
  BY <1>1, <1>2, PlacedIs
<1> HIDE DEF placed
<1>6. engine \in Seq(Nat)
  BY DEF Sized
<1>7. n = Len(engine)
  BY DEF Sized
<1>8. engine # <<>> /\ DataSize <= Len(engine)
  BY <1>6, <1>7, Joined
<1>9. PathPlace(engine) = from /\ PathRoom(engine) = room
  BY <1>8 DEF PathPlace, PathRoom
<1>10. /\ from \in Nat /\ room \in Nat /\ VramSize \in Nat /\ DataSize \in Nat
      /\ boot_type_at \in Nat /\ boot_type_at < DataSize /\ boot_type_at < from
  BY SizesAssumption
<1> HIDE DEF from, room
<1>11. \A i \in 1..DataSize : DataOf(engine, path)[i] =
        IF i = boot_type_at + 1 THEN boot_type(path) ELSE engine[i]
  BY <1>8, <1>6, DataIs
<1>12. \A i \in 1..(VramSize - at) : ready[at + i] =
         CASE from < i /\ i <= from + room -> PathBytes(engine, path)[i - from]
           [] ~(from < i /\ i <= from + room) /\ i <= DataSize -> DataOf(engine, path)[i]
           [] ~(from < i /\ i <= from + room) /\ ~(i <= DataSize) ->
                IF i <= Len(engine) THEN engine[i] ELSE 0
  BY <1>9 DEF ReadyIs
<1>13. ASSUME NEW i \in 1..n
       PROVE  placed[i] = PlacedByte(engine, path, i)
  <2>1. i \in 1..(VramSize - at) /\ i \in Int /\ i >= 1 /\ i <= n
    BY <1>10
  <2>2. CASE from < i /\ i <= from + room
    <3>1. placed[i] = PathBytes(engine, path)[i - from]
      BY <1>5, <1>12, <2>1, <2>2
    <3> QED
      BY <1>10, <2>1, <2>2, <3>1 DEF PlacedByte, from, room
  <2>3. CASE ~(from < i /\ i <= from + room) /\ i <= DataSize
    <3>1. placed[i] = DataOf(engine, path)[i] /\ i \in 1..DataSize
      BY <1>5, <1>10, <1>12, <2>1, <2>3
    <3>2. placed[i] = IF i = boot_type_at + 1 THEN boot_type(path) ELSE engine[i]
      BY <1>11, <3>1
    <3> QED
      BY <2>3, <3>2 DEF PlacedByte, from, room
  <2>4. CASE ~(from < i /\ i <= from + room) /\ ~(i <= DataSize)
    <3>1. placed[i] = engine[i]
      <4>1. placed[i] = IF i <= Len(engine) THEN engine[i] ELSE 0
        BY <1>5, <1>12, <2>1, <2>4
      <4> QED
        BY <1>7, <2>1, <4>1
    <3>2. i # boot_type_at + 1
      BY <1>10, <2>1, <2>4
    <3> QED
      BY <2>4, <3>1, <3>2 DEF PlacedByte, from, room
  <2> QED
    BY <2>2, <2>3, <2>4
<1>14. Sized(placed, n)
  BY <1>3, <1>4 DEF Sized
<1> QED
  BY <1>13, <1>14, Zenon DEF placed

(* The parts of it that EngineArrives names.                               *)
LEMMA PathArrives ==
  ASSUME NEW placed, NEW engine, NEW path, NEW n \in Int,
         placed \in Seq(Nat), engine \in Seq(Nat), path \in Seq(Nat),
         Sized(placed, n), Sized(engine, n), n > 0,
         \A i \in 1..n : placed[i] = PlacedByte(engine, path, i),
         Len(path) < boot_path_max_len, boot_path_offset + boot_path_max_len <= n,
         engine[boot_type_at + 1] = 0
  PROVE  /\ SubSeq(placed, boot_path_offset + 1, boot_path_offset + Len(path) + 1)
               = Append(path, 0)
         /\ Over(SubSeq(placed, 1, boot_path_offset), boot_type_at, <<0>>)
               = SubSeq(engine, 1, boot_path_offset)
         /\ SubSeq(placed, boot_path_offset + boot_path_max_len + 1, n)
               = SubSeq(engine, boot_path_offset + boot_path_max_len + 1, n)
<1> DEFINE from == boot_path_offset
           room == boot_path_max_len
           b == boot_type_at
           l == Len(path)
<1>1. /\ from \in Nat /\ room \in Nat /\ b \in Nat /\ b < from /\ l \in Nat /\ l < room
      /\ from + room <= n
  BY SizesAssumption, Joined
<1>2. engine # <<>> /\ Len(placed) = n /\ Len(engine) = n
  BY Joined DEF Sized
<1>3. SubSeq(placed, from + 1, from + l + 1) = Append(path, 0)
  <2> DEFINE bytes == PathBytes(engine, path)
             s == SubSeq(placed, from + 1, from + l + 1)
             e == from + l + 1
  <2>1. (\A i \in 1..l : bytes[i] = path[i]) /\ bytes[l + 1] = 0
    BY <1>2, PathBytesAre
  <2> HIDE DEF bytes
  <2>2. e \in Int /\ from <= e /\ e <= n /\ e - from = l + 1
    BY <1>1
  <2> HIDE DEF l
  <2>3. s \in Seq(Nat)
    BY <1>1, <1>2, <2>2, StretchIs
  <2>4. Len(s) = e - from
    BY <1>1, <1>2, <2>2, StretchIs
  <2>5. \A i \in 1..(e - from) : s[i] = placed[from + i]
    BY <1>1, <1>2, <2>2, StretchIs
  <2> HIDE DEF s, e
  <2>6. ASSUME NEW i \in 1..(l + 1)
        PROVE  s[i] = bytes[i]
    <3> DEFINE p == from + i
    <3>1. p \in 1..n /\ from < p /\ p <= from + room /\ p - from = i
      BY <1>1
    <3>2. s[i] = placed[p]
      BY <2>2, <2>5
    <3> HIDE DEF p
    <3>3. placed[p] = PlacedByte(engine, path, p)
      BY <3>1
    <3>4. PlacedByte(engine, path, p) = bytes[i]
      BY <1>1, <3>1 DEF PlacedByte, from, room, bytes
    <3> QED
      BY <3>2, <3>3, <3>4
  <2> DEFINE a == Append(path, 0)
  <2>7. a \in Seq(Nat) /\ Len(a) = Len(path) + 1
    BY AppendProperties
  <2>8. (\A i \in 1..l : a[i] = path[i]) /\ a[l + 1] = 0
    BY AppendProperties DEF l
  <2> HIDE DEF a
  <2>9. \A i \in 1..Len(s) : s[i] = a[i]
    BY <1>1, <2>1, <2>2, <2>4, <2>6, <2>8
  <2>10. Len(s) = Len(a)
    BY <2>2, <2>4, <2>7 DEF l
  <2>11. s = a
    BY <2>3, <2>7, <2>9, <2>10, SeqEqual
  <2> QED
    BY <2>11 DEF s, a, l
<1>4. Over(SubSeq(placed, 1, from), b, <<0>>) = SubSeq(engine, 1, from)
  <2> DEFINE s == SubSeq(placed, 0 + 1, from)
             e == SubSeq(engine, 0 + 1, from)
             z == <<0>>
             t == Over(s, b, z)
  <2>1. from \in Int /\ 0 \in Int /\ 0 >= 0 /\ 0 <= from /\ from <= n
    BY <1>1
  <2>2. s \in Seq(Nat)
    BY <1>2, <2>1, StretchIs
  <2>3. Len(s) = from - 0
    BY <1>2, <2>1, StretchIs
  <2>4. \A i \in 1..(from - 0) : s[i] = placed[0 + i]
    BY <1>2, <2>1, StretchIs
  <2>5. e \in Seq(Nat)
    BY <1>2, <2>1, StretchIs
  <2>6. Len(e) = from - 0
    BY <1>2, <2>1, StretchIs
  <2>7. \A i \in 1..(from - 0) : e[i] = engine[0 + i]
    BY <1>2, <2>1, StretchIs
  <2>8. z \in Seq(Nat) /\ Len(z) = 1 /\ z[1] = 0
    OBVIOUS
  <2> HIDE DEF s, e, z
  <2>9. b + Len(z) <= Len(s) /\ b \in Int /\ b >= 0
    BY <1>1, <2>3, <2>8
  <2>10. t \in Seq(Nat)
    BY <2>2, <2>8, <2>9, OverIs
  <2>11. Len(t) = Len(s)
    BY <2>2, <2>8, <2>9, OverIs
  <2>12. \A i \in 1..Len(s) : t[i] = IF b < i /\ i <= b + Len(z) THEN z[i - b] ELSE s[i]
    BY <2>2, <2>8, <2>9, OverIs, ZenonT(60)
  <2> HIDE DEF t
  <2>13. ASSUME NEW i \in 1..from
         PROVE  t[i] = e[i]
    <3>1. i \in 1..(from - 0) /\ i \in 1..Len(s) /\ 0 + i = i /\ i \in 1..n
      BY <1>1, <2>3
    <3>2. e[i] = engine[i] /\ s[i] = placed[i]
      BY <2>4, <2>7, <3>1
    <3>3. CASE i = b + 1
      <4>1. t[i] = z[1]
        BY <1>1, <2>8, <2>12, <3>1, <3>3
      <4> QED
        BY <2>8, <3>2, <3>3, <4>1 DEF b
    <3>4. CASE i # b + 1
      <4>1. t[i] = s[i]
        BY <1>1, <2>8, <2>12, <3>1, <3>4
      <4>2. PlacedByte(engine, path, i) = engine[i]
        BY <1>1, <3>4 DEF PlacedByte, b, from, room
      <4> QED
        BY <3>1, <3>2, <4>1, <4>2
    <3> QED
      BY <3>3, <3>4
  <2>14. Len(t) = from /\ Len(e) = from
    BY <1>1, <2>3, <2>6, <2>11
  <2>15. t = e
    BY <2>5, <2>10, <2>13, <2>14, SeqEqual
  <2>16. SubSeq(placed, 1, from) = s /\ SubSeq(engine, 1, from) = e
    BY DEF s, e
  <2> QED
    BY <2>15, <2>16 DEF t, z
<1>5. SubSeq(placed, from + room + 1, n) = SubSeq(engine, from + room + 1, n)
  <2> DEFINE a == from + room
             s == SubSeq(placed, a + 1, n)
             e == SubSeq(engine, a + 1, n)
  <2>1. a \in Int /\ a >= 0 /\ a <= n
    BY <1>1
  <2> HIDE DEF a
  <2>2. s \in Seq(Nat)
    BY <1>2, <2>1, StretchIs
  <2>3. Len(s) = n - a
    BY <1>2, <2>1, StretchIs
  <2>4. \A i \in 1..(n - a) : s[i] = placed[a + i]
    BY <1>2, <2>1, StretchIs
  <2>5. e \in Seq(Nat)
    BY <1>2, <2>1, StretchIs
  <2>6. Len(e) = n - a
    BY <1>2, <2>1, StretchIs
  <2>7. \A i \in 1..(n - a) : e[i] = engine[a + i]
    BY <1>2, <2>1, StretchIs
  <2> HIDE DEF s, e
  <2>8. ASSUME NEW i \in 1..(n - a)
        PROVE  s[i] = e[i]
    <3> DEFINE p == a + i
    <3>1. p \in 1..n /\ p > a
      BY <2>1
    <3>2. s[i] = placed[p] /\ e[i] = engine[p]
      BY <2>4, <2>7
    <3> HIDE DEF p
    <3>3. p # b + 1 /\ ~(p <= from + room)
      BY <1>1, <3>1 DEF a
    <3>4. PlacedByte(engine, path, p) = engine[p]
      BY <3>3 DEF PlacedByte, b, from, room
    <3> QED
      BY <3>1, <3>2, <3>4
  <2>9. \A i \in 1..Len(s) : s[i] = e[i]
    BY <2>3, <2>8
  <2>10. s = e
    BY <2>2, <2>3, <2>5, <2>6, <2>9, SeqEqual
  <2> QED
    BY <2>10 DEF s, e, a
<1> QED
  BY <1>3, <1>4, <1>5

(* The program of a title, at the place the console keeps it at.           *)
IsTitle(path) ==
  /\ Len(path) = 6
  /\ SubSeq(path, 1, 2) = <<Nand, Title>>
  /\ path[5] = Content /\ path[6] \in Apps

(* The directory of a title is known if it is one (main.cpp:793).          *)
LEMMA TitleIs ==
  ASSUME NEW path, path \in Seq(Nat), IsAFile(path)
  PROVE  /\ base_title_nand_path(path) = IF IsTitle(path) THEN SubSeq(path, 1, 4) ELSE <<>>
         /\ IsTitle(path) => SubSeq(path, 1, 4) # <<>> /\ path[1] = Nand
<1> DEFINE l == Len(path)
           s == SubSeq(path, 1, 2)
<1>1. l \in Nat
  BY Joined
<1>2. l >= 2 => s = <<path[1], path[2]>>
  <2> SUFFICES ASSUME l >= 2
               PROVE  s = <<path[1], path[2]>>
    OBVIOUS
  <2>1. s \in Seq(Nat)
    BY <1>1, SubSeqProperties
  <2>2. Len(s) = 2
    BY <1>1, SubSeqProperties
  <2>3. s[1] = path[1] /\ s[2] = path[2]
    BY <1>1, SubSeqProperties
  <2> DEFINE two == <<path[1], path[2]>>
  <2>4. path[1] \in Nat /\ path[2] \in Nat
    BY <1>1, ElementOfSeq
  <2>5. two \in Seq(Nat) /\ Len(two) = 2 /\ two[1] = path[1] /\ two[2] = path[2]
    BY <2>4
  <2> HIDE DEF s, two
  <2>6. \A i \in 1..Len(s) : s[i] = two[i]
    BY <2>2, <2>3, <2>5
  <2>7. s = two
    BY <2>1, <2>2, <2>5, <2>6, SeqEqual
  <2> QED
    BY <2>7, Zenon DEF s, two
<1> DEFINE four == SubSeq(path, 1, 4)
<1>3. l = 6 => four # <<>>
  <2> SUFFICES ASSUME l = 6
               PROVE  four # <<>>
    OBVIOUS
  <2>1. Len(four) = 4
    BY <1>1, SubSeqProperties
  <2>2. Len(<<>>) # 4
    OBVIOUS
  <2> HIDE DEF four
  <2> QED
    BY <2>1, <2>2, Zenon
<1> HIDE DEF s, four
<1>4. IsTitle(path) <=> /\ l = 6 /\ path[1] = Nand /\ path[2] = Title
                        /\ path[5] = Content /\ path[6] \in Apps
  <2>1. IsTitle(path) <=> /\ l = 6 /\ s = <<Nand, Title>>
                          /\ path[5] = Content /\ path[6] \in Apps
    BY DEF IsTitle, s
  <2>2. l = 6 => (s = <<Nand, Title>> <=> path[1] = Nand /\ path[2] = Title)
    BY <1>1, <1>2
  <2> QED
    BY <2>1, <2>2
<1>5. l = 6 => l - 1 = 5 /\ l - 2 = 4 /\ l > 2
  OBVIOUS
<1>6. /\ has_been_booted_from_nand(path) /\ path[l - 1] = Content => l = 6
      /\ l = 0 <=> path = <<>>
  BY Joined DEF IsAFile
<1>7. has_been_booted_from_nand(path) <=>
        l > 2 /\ path[1] = Nand /\ path[2] = Title /\ path[l] \in Apps
  BY DEF has_been_booted_from_nand, Last
<1>8. get_base_title_nand_path(path) =
        IF l > 2 /\ path[l - 1] = Content THEN SubSeq(path, 1, l - 2) ELSE <<>>
  BY DEF get_base_title_nand_path
<1>9. base_title_nand_path(path) =
        IF path # <<>> /\ has_been_booted_from_nand(path)
        THEN get_base_title_nand_path(path) ELSE <<>>
  BY DEF base_title_nand_path
<1> HIDE DEF l
<1>10. CASE IsTitle(path)
  <2>1. l = 6 /\ l - 1 = 5 /\ l - 2 = 4 /\ l > 2 /\ path # <<>>
    BY <1>4, <1>5, <1>6, <1>10
  <2>2. has_been_booted_from_nand(path)
    BY <1>4, <1>7, <1>10, <2>1
  <2>3. get_base_title_nand_path(path) = SubSeq(path, 1, 4)
    BY <1>4, <1>8, <1>10, <2>1
  <2> QED
    BY <1>3, <1>4, <1>9, <1>10, <2>1, <2>2, <2>3 DEF four
<1>11. CASE ~IsTitle(path)
  <2>1. CASE has_been_booted_from_nand(path)
    <3>1. path[l - 1] # Content
      BY <1>4, <1>5, <1>6, <1>7, <1>11, <2>1
    <3> QED
      BY <1>8, <1>9, <1>11, <3>1
  <2>2. CASE ~has_been_booted_from_nand(path)
    BY <1>9, <1>11, <2>2
  <2> QED
    BY <2>1, <2>2
<1> QED
  BY <1>10, <1>11

(* The kind of program is the medium's, but for a title.                   *)
LEMMA TypeIs ==
  ASSUME NEW path, path \in Seq(Nat), IsAFile(path)
  PROVE  boot_type(path) =
           CASE IsTitle(path) -> DSIWARE
             [] path # <<>> /\ path[1] \in {Sd, Sdmc} -> SD
             [] OTHER -> NOT_SUPPORTED
<1> DEFINE base == base_title_nand_path(path)
<1>1. base # <<>> <=> IsTitle(path)
  BY TitleIs
<1>2. IsTitle(path) => path[1] \notin {Sd, Sdmc}
  BY TitleIs, MediaAssumption
<1>3. has_been_booted_from_sd(path) <=> path # <<>> /\ path[1] \in {Sd, Sdmc}
  <2>1. Len(path) > 1 <=> path # <<>>
    <3> DEFINE l == Len(path)
    <3>1. l # 1
      BY DEF IsAFile
    <3>2. l \in Nat
      BY Joined
    <3>3. l = 0 <=> path = <<>>
      BY Joined
    <3> HIDE DEF l
    <3>4. l > 1 <=> l # 0
      BY <3>1, <3>2
    <3> QED
      BY <3>3, <3>4 DEF l
  <2> QED
    BY <2>1 DEF has_been_booted_from_sd
<1> HIDE DEF base
<1>4. boot_type(path) =
        CASE base # <<>> -> DSIWARE
          [] base = <<>> /\ path # <<>> /\ has_been_booted_from_sd(path) -> SD
          [] OTHER -> NOT_SUPPORTED
  BY DEF boot_type, base
<1> QED
  BY <1>1, <1>2, <1>3, <1>4

(* The type in the header, with an engine and without one.                 *)
LEMMA TypeArrives ==
  ASSUME NEW ready, NEW boot, NEW params, NEW engine, NEW path, NEW at \in Int,
         ReadyIs(ready, boot, params, engine, path, at),
         engine \in Seq(Nat), engine = <<>> \/ DataSize <= Len(engine),
         at >= 0, at + DataSize <= VramSize
  PROVE  At(SubSeq(ready, at + 1, at + DataSize), boot_type_at) = boot_type(path)
<1> DEFINE h == SubSeq(ready, at + 1, at + DataSize)
           e == at + DataSize
           i == boot_type_at + 1
           from == PathPlace(engine)
           n == PathRoom(engine)
<1>1. ready \in Seq(Nat)
  BY DEF ReadyIs
<1>2. Len(ready) = VramSize
  BY DEF ReadyIs
<1>3. /\ DataSize \in Nat /\ VramSize \in Nat /\ i \in 1..DataSize
      /\ ~(from < i /\ i <= from + n)
  BY SizesAssumption DEF PathPlace, PathRoom
<1> HIDE DEF from, n, i
<1>4. e \in Int /\ at <= e /\ e <= Len(ready) /\ e - at = DataSize
  BY <1>2, <1>3
<1>5. \A j \in 1..(e - at) : h[j] = ready[at + j]
  BY <1>1, <1>4, StretchIs
<1> HIDE DEF h
<1>6. h[i] = ready[at + i] /\ i \in 1..(VramSize - at)
  BY <1>3, <1>4, <1>5
<1>7. ready[at + i] = DataOf(engine, path)[i]
  <2>1. ready[at + i] =
          CASE from < i /\ i <= from + n -> PathBytes(engine, path)[i - from]
            [] ~(from < i /\ i <= from + n) /\ i <= DataSize -> DataOf(engine, path)[i]
            [] ~(from < i /\ i <= from + n) /\ ~(i <= DataSize) ->
                 IF i <= Len(engine) THEN engine[i] ELSE 0
    BY <1>6 DEF ReadyIs, from, n
  <2> QED
    BY <1>3, <2>1
<1>8. DataOf(engine, path)[i] = boot_type(path)
  BY <1>3, DataIs DEF i
<1> QED
  BY <1>6, <1>7, <1>8 DEF h, i, At

(* What FitsTheBank says, of the parts of a call.                          *)
LaunchFits(boot, c, params, engine, path, at) ==
  /\ boot \in Seq(Nat) /\ params \in Seq(Nat) /\ engine \in Seq(Nat) /\ path \in Seq(Nat)
  /\ at = cardEngineLocation(boot, c)
  /\ Len(params) = LoadSize /\ LoadSize <= Len(boot)
  /\ Len(boot) <= c /\ Len(boot) % 4 = 0
  /\ at + DataSize <= VramSize /\ at + Len(engine) <= VramSize
  /\ engine = <<>> => path = <<>>
  /\ engine # <<>> => /\ Len(engine) % 4 = 0 /\ DataSize <= Len(engine)
                      /\ boot_path_offset + boot_path_max_len <= Len(engine)
                      /\ Len(path) < boot_path_max_len
                      /\ engine[boot_type_at + 1] = 0
  /\ IsAFile(path)

(* The launcher and the clearing leave this.                               *)
LEMMA LaunchReady ==
  ASSUME NEW boot, NEW c \in Nat, NEW params, NEW engine, NEW path, NEW at \in Int,
         LaunchFits(boot, c, params, engine, path, at)
  PROVE  /\ ReadyIs(ClearBss(runLaunchEngine(boot, c, params, engine, path), boot, c),
                    boot, params, engine, path, at)
         /\ at >= 0 /\ c <= at /\ at <= VramSize
<1>1. /\ boot \in Seq(Nat) /\ params \in Seq(Nat) /\ engine \in Seq(Nat)
      /\ path \in Seq(Nat)
  BY DEF LaunchFits
<1>2. at = cardEngineLocation(boot, c)
  BY DEF LaunchFits
<1>3. Len(params) = LoadSize
  BY DEF LaunchFits
<1>4. /\ LoadSize <= Len(boot) /\ Len(boot) <= c
      /\ at + DataSize <= VramSize /\ at + Len(engine) <= VramSize
  BY Zenon DEF LaunchFits
<1>5. Len(boot) % 4 = 0
  BY Zenon DEF LaunchFits
<1>6. /\ engine = <<>> => path = <<>>
      /\ engine # <<>> => /\ DataSize <= Len(engine) /\ Len(path) < boot_path_max_len
                          /\ boot_path_offset + boot_path_max_len <= Len(engine)
  BY Zenon DEF LaunchFits
<1> DEFINE b == Len(boot)
           to == ((c + 3) \div 4) * 4
<1>7. b \in Nat /\ VramSize \in Nat /\ DataSize \in Nat
  BY <1>1, Joined, SizesAssumption
<1>8. b % 4 = 0 /\ b <= c
  BY <1>4, <1>5
<1>9. at = to
  BY <1>2 DEF cardEngineLocation
<1> HIDE DEF b
<1>10. c <= to /\ to \in Nat
  BY <1>7, <1>8, UpToEngine
<1> HIDE DEF to
<1>11. at >= b /\ at >= 0 /\ c <= at
  BY <1>7, <1>8, <1>9, <1>10
<1>12. at <= VramSize
  <2>1. at + DataSize <= VramSize
    BY <1>4
  <2> QED
    BY <1>7, <2>1
<1> DEFINE vram == runLaunchEngine(boot, c, params, engine, path)
<1>13. at >= Len(boot)
  BY <1>11 DEF b
<1>14. ImageIs(vram, boot, params, engine, path, at)
  BY <1>1, <1>2, <1>3, <1>4, <1>6, <1>13, Launched, Zenon
<1> HIDE DEF vram
<1>15. ReadyIs(ClearBss(vram, boot, c), boot, params, engine, path, at)
  BY <1>1, <1>2, <1>3, <1>4, <1>5, <1>12, <1>14, Cleared, Zenon
<1> QED
  BY <1>11, <1>12, <1>15 DEF vram

(* What EngineArrives asks of what the launcher returned, by its parts.    *)
Arrival(boot, c, params, engine, path, load, header, placed, file) ==
  LET type == CASE IsTitle(path) -> DSIWARE
                [] path # <<>> /\ path[1] \in {Sd, Sdmc} -> SD
                [] OTHER -> NOT_SUPPORTED
      rest == boot_path_offset + boot_path_max_len
  IN /\ load = params \o SubSeq(boot, LoadSize + 1, Len(boot)) \o Zeros(c - Len(boot))
     /\ At(header, boot_type_at) = type
     /\ file = IF IsTitle(path) THEN SubSeq(path, 1, 4) ELSE <<>>
     /\ engine # <<>> =>
          /\ SubSeq(placed, boot_path_offset + 1, boot_path_offset + Len(path) + 1)
               = Append(path, 0)
          /\ Over(SubSeq(placed, 1, boot_path_offset), boot_type_at, <<0>>)
               = SubSeq(engine, 1, boot_path_offset)
          /\ SubSeq(placed, rest + 1, Len(engine)) = SubSeq(engine, rest + 1, Len(engine))

(* The bootloader finds what it is to find.                                *)
LEMMA LaunchArrives ==
  ASSUME NEW boot, NEW c \in Nat, NEW params, NEW engine, NEW path, NEW at \in Int,
         LaunchFits(boot, c, params, engine, path, at), NEW ready,
         ready = ClearBss(runLaunchEngine(boot, c, params, engine, path), boot, c)
  PROVE  Arrival(boot, c, params, engine, path, SubSeq(ready, 1, c),
                 SubSeq(ready, at + 1, at + DataSize), Placed(ready, at, Len(engine)),
                 base_title_nand_path(path))
<1> DEFINE n == Len(engine)
           placed == Placed(ready, at, n)
<1>1. /\ ReadyIs(ready, boot, params, engine, path, at)
      /\ at >= 0 /\ c <= at /\ at <= VramSize
  BY LaunchReady, Zenon
<1>2. /\ boot \in Seq(Nat) /\ params \in Seq(Nat) /\ engine \in Seq(Nat)
      /\ path \in Seq(Nat) /\ IsAFile(path)
  BY DEF LaunchFits
<1>3. Len(params) = LoadSize
  BY DEF LaunchFits
<1>4. LoadSize <= Len(boot) /\ Len(boot) <= c /\ at + DataSize <= VramSize
  BY Zenon DEF LaunchFits
<1>5. /\ at + n <= VramSize
      /\ engine # <<>> => /\ n % 4 = 0 /\ DataSize <= n
                          /\ boot_path_offset + boot_path_max_len <= n
                          /\ Len(path) < boot_path_max_len
                          /\ engine[boot_type_at + 1] = 0
  BY Zenon DEF LaunchFits
<1>6. n \in Nat /\ (n = 0 <=> engine = <<>>) /\ c \in Int
  BY <1>2, Joined
<1>7. engine = <<>> \/ DataSize <= Len(engine)
  BY <1>5
<1> HIDE DEF n
<1>8. SubSeq(ready, 1, c) =
        params \o SubSeq(boot, LoadSize + 1, Len(boot)) \o Zeros(c - Len(boot))
  BY <1>1, <1>2, <1>3, <1>4, <1>6, LoadArrives, ZenonT(60)
<1>9. At(SubSeq(ready, at + 1, at + DataSize), boot_type_at) = boot_type(path)
  BY <1>1, <1>2, <1>4, <1>7, TypeArrives, Zenon
<1>10. boot_type(path) = CASE IsTitle(path) -> DSIWARE
                           [] path # <<>> /\ path[1] \in {Sd, Sdmc} -> SD
                           [] OTHER -> NOT_SUPPORTED
  BY <1>2, TypeIs, Zenon
<1>11. base_title_nand_path(path) = IF IsTitle(path) THEN SubSeq(path, 1, 4) ELSE <<>>
  BY <1>2, TitleIs, Zenon
<1> DEFINE rest == boot_path_offset + boot_path_max_len
           Kept == /\ SubSeq(placed, boot_path_offset + 1,
                             boot_path_offset + Len(path) + 1) = Append(path, 0)
                   /\ Over(SubSeq(placed, 1, boot_path_offset), boot_type_at, <<0>>)
                        = SubSeq(engine, 1, boot_path_offset)
                   /\ SubSeq(placed, rest + 1, n) = SubSeq(engine, rest + 1, n)
<1>12. ASSUME engine # <<>>
       PROVE  Kept
  <2>1. Aligned(n, 4) /\ n > 0 /\ n \in Int
    BY <1>5, <1>6, <1>12 DEF Aligned
  <2>2. /\ DataSize <= n /\ at + n <= VramSize /\ rest <= n
        /\ Len(path) < boot_path_max_len /\ engine[boot_type_at + 1] = 0
    BY <1>5, <1>12
  <2>3. Sized(engine, n)
    BY <1>2 DEF Sized, n
  <2>4. /\ Sized(placed, n)
        /\ \A i \in 1..n : placed[i] = PlacedByte(engine, path, i)
    <3>1. ReadyIs(ready, boot, params, engine, path, at) /\ at >= 0
      BY <1>1
    <3> HIDE DEF placed
    <3>2. /\ n \in Int /\ n > 0 /\ DataSize <= n
          /\ at + n <= VramSize /\ Aligned(n, 4)
      BY <2>1, <2>2
    <3> QED
      BY <2>3, <3>1, <3>2, EnginePlaced DEF placed
  <2> HIDE DEF placed
  <2>5. placed \in Seq(Nat)
    BY <2>4 DEF Sized
  <2> QED
    BY <1>2, <2>1, <2>2, <2>3, <2>4, <2>5, PathArrives, Zenon
<1> QED
  <2> DEFINE load == SubSeq(ready, 1, c)
             header == SubSeq(ready, at + 1, at + DataSize)
             file == base_title_nand_path(path)
  <2>1. /\ load = params \o SubSeq(boot, LoadSize + 1, Len(boot)) \o Zeros(c - Len(boot))
        /\ At(header, boot_type_at) = boot_type(path)
        /\ file = IF IsTitle(path) THEN SubSeq(path, 1, 4) ELSE <<>>
        /\ engine # <<>> => Kept
    BY <1>8, <1>9, <1>11, <1>12, Zenon
  <2> HIDE DEF load, header, file, placed
  <2>2. Arrival(boot, c, params, engine, path, load, header, placed, file)
    BY <1>10, <2>1, Zenon DEF Arrival, n
  <2> QED
    BY <2>2, Zenon DEF load, header, file, placed, n

(* Types of a call.                                                        *)
LEMMA HandoverTyped ==
  ASSUME NEW c \in HandoverCalls
  PROVE  /\ c.boot \in Seq(Nat) /\ c.params \in Seq(Nat) /\ c.engine \in Seq(Nat)
         /\ c.path \in Seq(Nat) /\ c.copy_end \in Nat
<1>1. /\ c.boot \in Seq(Byte) /\ c.params \in Seq(Byte) /\ c.engine \in Seq(Byte)
      /\ c.path \in Seq(Nat) /\ c.copy_end \in Nat
  BY DEF HandoverCalls
<1> QED
  BY <1>1, BytesAreNumbers

(* The launcher's last deed, in the machine.                               *)
LEMMA HandOverArrives ==
  ASSUME call \in HandoverCalls, FitsTheBank(call), IsAFile(call.path),
         HandOver, call' = call
  PROVE  EngineArrives'
<1> DEFINE boot == call.boot
           c == call.copy_end
           params == call.params
           engine == call.engine
           path == call.path
           at == cardEngineLocation(boot, c)
           ready == ClearBss(runLaunchEngine(boot, c, params, engine, path), boot, c)
           load == SubSeq(ready, 1, c)
           header == SubSeq(ready, at + 1, at + DataSize)
           placed == Placed(ready, at, Len(engine))
           file == base_title_nand_path(path)
           value == [load |-> load, header |-> header, engine |-> placed, file |-> file]
           Arrives(s, r) == Arrival(s.boot, s.copy_end, s.params, s.engine, s.path,
                                    r.load, r.header, r.engine, r.file)
<1>1. /\ boot \in Seq(Nat) /\ params \in Seq(Nat) /\ engine \in Seq(Nat)
      /\ path \in Seq(Nat) /\ c \in Nat
  BY HandoverTyped
<1>2. at \in Int
  BY <1>1 DEF cardEngineLocation
<1>3. LaunchFits(boot, c, params, engine, path, at)
  BY <1>1, Zenon DEF LaunchFits, FitsTheBank, At, NOT_SUPPORTED
<1>4. Arrival(boot, c, params, engine, path, load, header, placed, file)
  BY <1>1, <1>2, <1>3, LaunchArrives, Zenon
<1>5. result' = value
  BY DEF HandOver, Returns
<1> HIDE DEF load, header, placed, file
<1>6. /\ value.load = load /\ value.header = header /\ value.engine = placed
      /\ value.file = file
  OBVIOUS
<1>7. Arrives(call, value)
  BY <1>4, <1>6
<1> HIDE DEF value
<1>8. Arrives(call', result')
  BY <1>5, <1>7
<1> QED
  BY <1>8, Zenon DEF EngineArrives, Arrival, IsTitle

(* The bootloader finds itself behind its parameters, and the engine it    *)
(* copies is whole but for the kind of program and the path.               *)
THEOREM EngineTheorem == Spec => []EngineArrives
<1>1. Init => EngineArrives
  BY DEF Init, EngineArrives, Nothing
<1>2. CallOK /\ EngineArrives /\ [Next]_algVars => EngineArrives'
  <2> SUFFICES ASSUME CallOK, EngineArrives, [Next]_algVars
               PROVE  EngineArrives'
    OBVIOUS
  <2>1. call' = call
    BY Steps
  <2>2. CASE result' = result
    BY <2>1, <2>2 DEF EngineArrives
  <2>3. CASE call.alg # "handover"
    BY <2>1, <2>3 DEF EngineArrives
  <2>4. CASE result' # result /\ call.alg = "handover"
    <3>1. HandOver
      BY <2>4, Steps
    <3>2. call \in HandoverCalls /\ FitsTheBank(call) /\ IsAFile(call.path)
      BY <2>4, CallsAssumption DEF CallOK
    <3> QED
      BY <2>1, <2>4, <3>1, <3>2, HandOverArrives
  <2> QED
    BY <2>2, <2>3, <2>4
<1> QED
  BY <1>1, <1>2, CallInvariance, PTL DEF Spec
=============================================================================
