--------------------------------- MODULE Aes ---------------------------------
(***************************************************************************)
(* The block cipher of polarssl/aes.c: its tables, its two key schedules   *)
(* and its rounds, one step per turn of a loop.  A word is a tuple of four *)
(* bytes, the lowest first, so that reading and writing words and taking   *)
(* their bytes need no arithmetic; a block is four words.                  *)
(*                                                                         *)
(* The machine encrypts a block under a key, then decrypts what it wrote.  *)
(***************************************************************************)
EXTENDS Bytes

CONSTANT Jobs     \* the keys and blocks to encrypt, as bytes: [key, plain]

ASSUME JobsAssumption ==
  \A j \in Jobs : /\ j.key \in Seq(Byte) /\ Len(j.key) \in {16, 24, 32}
                  /\ j.plain \in Seq(Byte) /\ Len(j.plain) = 16

-----------------------------------------------------------------------------
(* Tables.                                                                 *)

XTIME(x) == IF x >= 128 THEN Xor((2 * x) % 256, 27) ELSE 2 * x
ROTL8(w) == <<w[4], w[1], w[2], w[3]>>
RotateByte(x) == ((2 * x) % 256) + (x \div 128)

(* A byte exclusive-ored with its first four rotations.                    *)
WithRotations(x0) ==
  LET x1 == RotateByte(x0)
      x2 == RotateByte(x1)
      x3 == RotateByte(x2)
      x4 == RotateByte(x3)
  IN Xor(Xor(Xor(x0, x1), Xor(x2, x3)), x4)

(* aes_gen_tables: the powers and logarithms of 3 (the turn that fills     *)
(* them is taken sixteen by sixteen, and leaves 255 as the logarithm of    *)
(* 1), the S-box and its inverse, and MixColumns of each of their entries  *)
(* in the four rotations of a word.                                        *)
Powers(turn) ==
  LET Power(t, n, x) ==
        LET after[k \in 0..n] == IF k = 0 THEN x ELSE At(t, after[k - 1])
        IN after[n]
      sixteen(x) == Power(turn, 16, x)
      power(turns, i) == Power(turn, i % 16, Power(turns, i \div 16, 1))
      table(turns) == <<>> \o [i \in 1..256 |-> power(turns, i - 1)]
  IN table(Table(256, sixteen))

Logarithms(pow) ==
  LET logarithm(x) == IF x = 0 THEN 0
                      ELSE CHOOSE i \in 1..255 : At(pow, i) = x
  IN Table(256, logarithm)

ForwardBox(pow, log) ==
  LET forward(i) == IF i = 0 THEN 99
                    ELSE Xor(WithRotations(At(pow, 255 - At(log, i))), 99)
  IN Table(256, forward)
ReverseBox(FSb) ==
  LET reverse(x) == CHOOSE i \in Byte : At(FSb, i) = x IN Table(256, reverse)

(* A table of words, and the same rotated by one, two and three bytes.     *)
Rotations(T0) ==
  LET turned(T) == <<>> \o [i \in 1..256 |-> ROTL8(T[i])]
      rotated[n \in 1..4] == IF n = 1 THEN T0 ELSE turned(rotated[n - 1])
  IN <<>> \o [n \in 1..4 |-> rotated[n]]

Tables(pow, log, FSb, RSb) ==
  LET MUL(x, y) == IF x = 0 \/ y = 0 THEN 0
                   ELSE At(pow, (At(log, x) + At(log, y)) % 255)
      forward(x) == <<XTIME(x), x, x, Xor(XTIME(x), x)>>
      reverse(x) == <<MUL(14, x), MUL(9, x), MUL(13, x), MUL(11, x)>>
  IN [FSb |-> FSb, RSb |-> RSb,
      FT |-> Rotations(<<>> \o [i \in 1..256 |-> forward(FSb[i])]),
      RT |-> Rotations(<<>> \o [i \in 1..256 |-> reverse(RSb[i])])]

aes_gen_tables ==
  LET turned(x) == Xor(x, XTIME(x))
      boxed(pow, log, FSb) == Tables(pow, log, FSb, ReverseBox(FSb))
      logged(pow, log) == boxed(pow, log, ForwardBox(pow, log))
      powered(pow) == logged(pow, Logarithms(pow))
  IN powered(Powers(Table(256, turned)))

RCON == <<1, 2, 4, 8, 16, 32, 64, 128, 27, 54>>

-----------------------------------------------------------------------------
(* Keys, of four, six or eight words.                                      *)

(* GET_ULONG_LE and PUT_ULONG_LE, word after word.                         *)
WordsOf(v) == <<>> \o [i \in 1..(Len(v) \div 4) |-> SubSeq(v, (4 * i) - 3, 4 * i)]
BytesOf(y) == y[1] \o y[2] \o y[3] \o y[4]

WordXor(v, w) ==
  <<Xor(v[1], w[1]), Xor(v[2], w[2]), Xor(v[3], w[3]), Xor(v[4], w[4])>>

(* The S-box on a word, as it is or rotated by a byte.                     *)
Sub(w) == <<>> \o [i \in 1..4 |-> At(aes_gen_tables.FSb, w[i])]
SubRotated(w) == Sub(<<w[2], w[3], w[4], w[1]>>)

nr(k) == CASE k = 4 -> 10 [] k = 6 -> 12 [] k = 8 -> 14
Turns(k) == CASE k = 4 -> 10 [] k = 6 -> 8 [] k = 8 -> 7

(* Mutant: a long key is expanded without the second S-box.                *)
NextWords_OneBox(w, k, i) ==
  LET next[j \in 1..k] ==
        WordXor(w[j], IF j = 1
                      THEN WordXor(<<RCON[i], 0, 0, 0>>, SubRotated(w[k]))
                      ELSE next[j - 1])
  IN <<>> \o [j \in 1..k |-> next[j]]

(* One turn of aes_setkey_enc: from k words the next k.  The first takes   *)
(* the rotated S-box of the last, and in a long key the fifth the S-box of *)
(* the fourth.                                                             *)
NextWords(w, k, i) ==
  LET next[j \in 1..k] ==
        WordXor(w[j], CASE j = 1 ->
                             WordXor(<<RCON[i], 0, 0, 0>>, SubRotated(w[k]))
                        [] j = 5 /\ k = 8 -> Sub(next[4])
                        [] OTHER -> next[j - 1])
  IN <<>> \o [j \in 1..k |-> next[j]]

(* The entries of four bytes in four tables, all exclusive-ored.           *)
Looked(T, b) ==
  LET sum[n \in 0..4] ==
        IF n = 0 THEN <<0, 0, 0, 0>> ELSE WordXor(sum[n - 1], At(T[n], b[n]))
  IN sum[4]

(* Mutant: the round keys are reversed and left as they are.               *)
Reversed_Unmixed(SK, n) ==
  <<>> \o [i \in 1..(4 * (n + 1)) |->
             SK[(4 * (n - ((i - 1) \div 4))) + ((i - 1) % 4) + 1]]

(* aes_setkey_dec: the round keys from the last to the first, all but two  *)
(* through the inverse of MixColumns.                                      *)
Reversed(SK, n) ==
  LET mixed(w) == Looked(aes_gen_tables.RT, Sub(w))
      RK(i) == LET r == (i - 1) \div 4
                   word == SK[(4 * (n - r)) + ((i - 1) % 4) + 1]
               IN IF r \in {0, n} THEN word ELSE mixed(word)
  IN <<>> \o [i \in 1..(4 * (n + 1)) |-> RK(i)]

-----------------------------------------------------------------------------
(* Rounds.  A round takes byte n of the word n - 1 places further on       *)
(* (encrypting, step 1) or further back (decrypting, step 3).              *)

Taken(y, i, n, step) == y[((i - 1 + (step * (n - 1))) % 4) + 1][n]

(* The bytes that go into each word.                                       *)
Gathered(y, step) ==
  <<>> \o [i \in 1..4 |-> <<>> \o [n \in 1..4 |-> Taken(y, i, n, step)]]

(* AES_FROUND and AES_RROUND.                                              *)
Round(key, y, T, step) ==
  <<>> \o [i \in 1..4 |-> WordXor(key[i], Looked(T, Gathered(y, step)[i]))]

(* The round without MixColumns that comes last.                           *)
LastRound(key, y, box, step) ==
  <<>> \o [i \in 1..4 |->
             WordXor(key[i], <<>> \o [n \in 1..4 |-> At(box, Gathered(y, step)[i][n])])]

AddKey(key, y) == <<>> \o [i \in 1..4 |-> WordXor(key[i], y[i])]

-----------------------------------------------------------------------------
(* What the tables hold.  They are the same for every job, so that TLC     *)
(* finds all of this by looking at every entry, and at every two of them:  *)
(* the boxes are inverse; the rounds that decrypt multiply the columns by  *)
(* what undoes the rounds that encrypt; and that multiplication goes       *)
(* through an exclusive or.                                                *)
Word == Byte \X Byte \X Byte \X Byte
Alone(n, x) == <<>> \o [m \in 1..4 |-> IF m = n THEN x ELSE 0]

ASSUME BoxesAssumption ==
  \A x \in Byte :
    /\ At(aes_gen_tables.FSb, x) \in Byte
    /\ At(aes_gen_tables.RSb, At(aes_gen_tables.FSb, x)) = x
ASSUME ColumnsAssumption ==
  \A n \in 1..4 : \A x \in Byte :
    /\ At(aes_gen_tables.FT[n], x) \in Word
    /\ At(aes_gen_tables.RT[n], x) \in Word
    /\ Looked(aes_gen_tables.RT, Sub(At(aes_gen_tables.FT[n], x)))
         = Alone(n, At(aes_gen_tables.FSb, x))
ASSUME SumsAssumption ==
  LET reverse(n, x) == At(aes_gen_tables.RT[n], At(aes_gen_tables.FSb, x))
  IN \A n \in 1..4 : \A x, y \in Byte :
       reverse(n, Xor(x, y)) = WordXor(reverse(n, x), reverse(n, y))

-----------------------------------------------------------------------------
(* The machine.  rk holds the words of the context so far, round counts    *)
(* the turns of the loop that runs.                                        *)

VARIABLES job, phase, rk, round, block

aesVars == <<job, phase, rk, round, block>>

Phases == {"idle", "expand", "encrypt", "invert", "decrypt", "done"}

k == Len(job.key) \div 4
RoundKey == SubSeq(rk, (4 * round) + 1, (4 * round) + 4)

AesInit ==
  /\ job \in Jobs
  /\ phase = "expand"
  /\ rk = WordsOf(job.key)
  /\ round = 0
  /\ block = WordsOf(job.plain)

AesIdle ==
  /\ job = [key |-> <<>>, plain |-> <<>>]
  /\ phase = "idle"
  /\ rk = <<>>
  /\ round = 0
  /\ block = <<>>

(* A turn of aes_setkey_enc, or its return.                                *)
ExpandKey ==
  /\ phase = "expand"
  /\ IF round < Turns(k)
     THEN /\ rk' = rk \o NextWords(SubSeq(rk, Len(rk) - k + 1, Len(rk)), k, round + 1)
          /\ round' = round + 1
          /\ UNCHANGED <<phase, block>>
     ELSE /\ phase' = "encrypt"
          /\ round' = 0
          /\ UNCHANGED <<rk, block>>
  /\ UNCHANGED job

(* aes_setkey_dec, once the first block has been written.                  *)
InvertKey ==
  /\ phase = "invert"
  /\ rk' = Reversed(rk, nr(k))
  /\ phase' = "decrypt"
  /\ round' = 0
  /\ UNCHANGED <<job, block>>

(* A round of aes_crypt_ecb: the key is added before the first, the last   *)
(* is the short one.                                                       *)
Crypt(mode, T, box, step, after) ==
  /\ phase = mode
  /\ block' = CASE round = 0 -> AddKey(RoundKey, block)
                [] round = nr(k) -> LastRound(RoundKey, block, box, step)
                [] OTHER -> Round(RoundKey, block, T, step)
  /\ IF round = nr(k) THEN phase' = after /\ UNCHANGED round
     ELSE round' = round + 1 /\ UNCHANGED phase
  /\ UNCHANGED <<job, rk>>

Encrypt == Crypt("encrypt", aes_gen_tables.FT, aes_gen_tables.FSb, 1, "invert")
Decrypt == Crypt("decrypt", aes_gen_tables.RT, aes_gen_tables.RSb, 3, "done")

AesNext == ExpandKey \/ Encrypt \/ InvertKey \/ Decrypt

-----------------------------------------------------------------------------
(* FIPS 197, by arithmetic in the field and without tables.                *)

Times2(x) == IF x >= 128 THEN Xor((2 * x) - 256, 27) ELSE 2 * x

Product(a, x) ==
  LET x2 == Times2(x)
      x4 == Times2(x2)
      x8 == Times2(x4)
      bit(n, v) == IF (a \div n) % 2 = 1 THEN v ELSE 0
  IN Xor(Xor(bit(1, x), bit(2, x2)), Xor(bit(4, x4), bit(8, x8)))

Multiplied(a, x) ==
  Xor(Product(a % 16, x),
      Product(a \div 16, Times2(Times2(Times2(Times2(x))))))

(* The inverse of a byte, and the affine map of the standard on its bits.  *)
Bit(x, n) == (x \div (2 ^ (n % 8))) % 2
Affine(x) ==
  LET bit(n) == ((Bit(x, n) + Bit(x, n + 4) + Bit(x, n + 5) + Bit(x, n + 6)
                    + Bit(x, n + 7) + Bit(99, n)) % 2) * (2 ^ n)
  IN bit(0) + bit(1) + bit(2) + bit(3) + bit(4) + bit(5) + bit(6) + bit(7)
InverseOf(x) == IF x = 0 THEN 0 ELSE CHOOSE y \in Byte : Multiplied(y, x) = 1
SBox == [x \in Byte |-> Affine(InverseOf(x))]

(* What the tables of the rounds that encrypt hold, entry by entry: a      *)
(* column of MixColumns for each byte of the S-box.                        *)
ASSUME StandardAssumption ==
  \A x \in Byte :
    /\ At(aes_gen_tables.FSb, x) = SBox[x]
    /\ LET one == SBox[x]
           two == Product(2, one)
           three == Product(3, one)
       IN /\ At(aes_gen_tables.FT[1], x) = <<two, one, one, three>>
          /\ At(aes_gen_tables.FT[2], x) = <<three, two, one, one>>
          /\ At(aes_gen_tables.FT[3], x) = <<one, three, two, one>>
          /\ At(aes_gen_tables.FT[4], x) = <<one, one, three, two>>

(* A round of the standard, one step after the other on columns.           *)
SubBytes(y) == <<>> \o [i \in 1..4 |-> <<>> \o [n \in 1..4 |-> SBox[y[i][n]]]]
ShiftRows(y) == Gathered(y, 1)
MixColumns(y) ==
  LET after(n) == (n % 4) + 1
      mixed(w, n) == Xor(Xor(Product(2, w[n]), Product(3, w[after(n)])),
                         Xor(w[after(after(n))], w[after(after(after(n)))]))
  IN <<>> \o [i \in 1..4 |-> <<>> \o [n \in 1..4 |-> mixed(y[i], n)]]

(* The key expansion of the standard: each word from the one before it and *)
(* the one k before it.                                                    *)
Expanded(words) ==
  \A i \in (k + 1)..(4 * (nr(k) + 1)) :
    LET before == words[i - 1]
        substituted == SubBytes(<<before, before, before, before>>)[1]
        temp == CASE (i - 1) % k = 0 ->
                       WordXor(<<substituted[2], substituted[3],
                                 substituted[4], substituted[1]>>,
                               <<RCON[(i - 1) \div k], 0, 0, 0>>)
                  [] k > 6 /\ (i - 1) % k = 4 -> substituted
                  [] OTHER -> before
    IN words[i] = WordXor(words[i - k], temp)

(* What the code takes from its tables is the standard: the schedule it    *)
(* encrypts with is the key expanded, and a round is AddRoundKey after     *)
(* MixColumns after ShiftRows after SubBytes.                              *)
CipherOfTheStandard ==
  [][/\ phase = "encrypt" /\ round = 0 => Expanded(rk)
     /\ phase = "encrypt" /\ round > 0 =>
          block' = LET shifted == ShiftRows(SubBytes(block))
                   IN AddKey(RoundKey, IF round = nr(k) THEN shifted
                                       ELSE MixColumns(shifted))]_aesVars

(* What the code decrypts with its reversed schedule is what it encrypted. *)
DecryptsItsOwn == phase = "done" => BytesOf(block) = job.plain
=============================================================================
