------------------------------- MODULE Uint128 -------------------------------
(***************************************************************************)
(* Numbers kept as strings of bytes, the lowest first (u128_math.c), and   *)
(* the keys that are derived with them: gm9i/f_xy.c, gm9i/crypto.c and the *)
(* modcrypt key of main.arm7.c.  The code's strings have sixteen bytes;    *)
(* here they have as many as the argument, so that short ones can be       *)
(* compared with integers.                                                 *)
(***************************************************************************)
EXTENDS Bytes, FiniteSets

(* Two to the n, for shifts within a byte.                                 *)
TwoTo(n) == <<1, 2, 4, 8, 16, 32, 64, 128, 256>>[n + 1]

(* byteshift whole bytes, and bitshift bits out of a byte into the next.   *)
u128_lrot(num, shift) ==
  LET n == Len(num)
      bitshift == shift % 8
      turned(i) == ((num[i + 1] * TwoTo(bitshift)) % 256)
                     + (num[(((i + n) - 1) % n) + 1] \div TwoTo(8 - bitshift))
      place(i) == ((i + n) - ((shift \div 8) % n)) % n
  IN <<>> \o [i \in 1..n |-> turned(place(i - 1))]

u128_rrot(num, shift) ==
  LET n == Len(num)
      bitshift == shift % 8
      from(i) == num[((i + (shift \div 8)) % n) + 1]
  IN <<>> \o [i \in 1..n |->
                (from(i - 1) \div TwoTo(bitshift))
                  + ((from(i) * TwoTo(8 - bitshift)) % 256)]

u128_xor(a, b) == XorAll(a, b)
u128_or(a, b) == <<>> \o [i \in 1..Len(a) |-> Or(a[i], b[i])]
u128_and(a, b) == <<>> \o [i \in 1..Len(a) |-> And(a[i], b[i])]
u128_swap(in) == Backwards(in)

(* Byte by byte with a carry of 0 or 1.                                    *)
u128_add(a, b) ==
  LET carry[i \in 0..Len(a)] ==
        IF i = 0 THEN 0 ELSE (a[i] + b[i] + carry[i - 1]) \div 256
  IN <<>> \o [i \in 1..Len(a) |-> (a[i] + b[i] + carry[i - 1]) % 256]

(* Mutant: the borrow of a byte of zero is lost.                           *)
u128_sub_Borrow(a, b) ==
  LET borrow[i \in 0..Len(a)] ==
        IF i = 0 THEN 0 ELSE IF a[i] < b[i] THEN 1 ELSE 0
  IN <<>> \o [i \in 1..Len(a) |-> ((a[i] - b[i]) - borrow[i - 1]) % 256]

(* The high byte of a difference of 16 bits, of which one bit is used.     *)
u128_sub(a, b) ==
  LET carry[i \in 0..Len(a)] ==
        IF i = 0 THEN 0
        ELSE ((((a[i] - b[i]) - carry[i - 1]) % 65536) \div 256) % 2
  IN <<>> \o [i \in 1..Len(a) |-> ((a[i] - b[i]) - carry[i - 1]) % 256]

(* A number of 32 bits is its four bytes.                                  *)
Bytes32(b) ==
  <<b % 256, (b \div 256) % 256, (b \div 65536) % 256, (b \div 16777216) % 256>>

u128_add32(a, b) == u128_add(a, Bytes32(b) \o Zeros(Len(a) - 4))

-----------------------------------------------------------------------------
(* Key scrambling.                                                         *)

DSi_KEY_MAGIC == <<121, 62, 79, 26, 95, 15, 104, 42,
                   88, 2, 89, 41, 78, 251, 254, 255>>
DSi_NAND_KEY_Y == <<118, 220, 185, 10, 211, 196, 77, 189,
                    29, 221, 45, 32, 5, 0, 160, 225>>
DSi_ES_KEY_Y == <<229, 204, 90, 139, 86, 208, 201, 114,
                  156, 23, 232, 220, 57, 18, 54, 169>>

F_XY(key_x, key_y) ==
  u128_lrot(u128_add(DSi_KEY_MAGIC, XorAll(key_x, key_y)), 42)

F_XY_reverse(key) == u128_sub(u128_rrot(key, 42), DSi_KEY_MAGIC)

(* The seeds, lowest byte first.                                           *)
KEYSEED_DSI_NAND_0 == <<6, 105, 238, 36>>
KEYSEED_DSI_NAND_1 == <<29, 96, 91, 230>>
KEYSEED_3DS_NAND_0 == <<175, 166, 88, 179>>
KEYSEED_3DS_NAND_1 == <<78, 73, 78, 84>>
KEYSEED_3DS_NAND_2 == <<69, 78, 68, 79>>
KEYSEED_3DS_NAND_3 == <<183, 103, 194, 8>>
KEYSEED_ES_0 == <<74, 0, 0, 78>>
KEYSEED_ES_1 == <<78, 0, 0, 74>>
KEYSEED_ES_2 == <<114, 75, 12, 200>>

Modes == {"NAND", "NAND_3DS", "ES"}

(* Mutant: the sealed blocks' key is made of one word of the two.          *)
KeyWords_OneWord(console_id, mode) ==
  LET id0 == console_id[1]
      id1 == console_id[2]
  IN CASE mode = "NAND" ->
            id0 \o XorAll(id0, KEYSEED_DSI_NAND_0)
              \o XorAll(id1, KEYSEED_DSI_NAND_1) \o id1
       [] mode = "NAND_3DS" ->
            u128_or(XorAll(id0, KEYSEED_3DS_NAND_0), <<0, 0, 0, 128>>)
              \o KEYSEED_3DS_NAND_1 \o KEYSEED_3DS_NAND_2
              \o XorAll(id1, KEYSEED_3DS_NAND_3)
       [] mode = "ES" ->
            KEYSEED_ES_0 \o KEYSEED_ES_1 \o XorAll(id1, KEYSEED_ES_2) \o id1

(* The four words of the X key, from the two of the console.               *)
KeyWords(console_id, mode) ==
  LET id0 == console_id[1]
      id1 == console_id[2]
  IN CASE mode = "NAND" ->
            id0 \o XorAll(id0, KEYSEED_DSI_NAND_0)
              \o XorAll(id1, KEYSEED_DSI_NAND_1) \o id1
       [] mode = "NAND_3DS" ->
            u128_or(XorAll(id0, KEYSEED_3DS_NAND_0), <<0, 0, 0, 128>>)
              \o KEYSEED_3DS_NAND_1 \o KEYSEED_3DS_NAND_2
              \o XorAll(id1, KEYSEED_3DS_NAND_3)
       [] mode = "ES" ->
            KEYSEED_ES_0 \o KEYSEED_ES_1 \o XorAll(id1, KEYSEED_ES_2) \o id0

(* Scrambled as F_XY does it, in place.                                    *)
Scrambled(key, key_y) == u128_lrot(u128_add(u128_xor(key, key_y), DSi_KEY_MAGIC), 42)

generate_key(console_id, mode) ==
  Scrambled(KeyWords(console_id, mode),
            IF mode = "ES" THEN DSi_ES_KEY_Y ELSE DSi_NAND_KEY_Y)

(* The key of the encrypted areas: of a developer's game the start of its  *)
(* header, of another game scrambled from "Nintendo", the game code, the   *)
(* game code backwards and a hash in the header.                           *)
Nintendo == <<78, 105, 110, 116, 101, 110, 100, 111>>
modcryptKey(header) ==
  IF header.debugKey THEN header.start
  ELSE Scrambled(header.sha1_hmac_hash_arm9i_dec,
                 Nintendo \o header.gameCode \o Backwards(header.gameCode))

-----------------------------------------------------------------------------
(* Reference: how many numbers n bytes can be, and the one that those of v *)
(* are, summed up from the highest byte.                                   *)

Numbers(n) ==
  LET many[i \in 0..n] == IF i = 0 THEN 1 ELSE 256 * many[i - 1]
  IN many[n]

Value(v) ==
  LET n == Len(v)
      top[i \in 0..n] == IF i = 0 THEN 0 ELSE v[(n + 1) - i] + (256 * top[i - 1])
  IN top[n]

(* A rotation moves every bit as many places up, and around; a negative    *)
(* one moves them down.                                                    *)
BitOf(v, j) == (v[(j \div 8) + 1] \div TwoTo(j % 8)) % 2
RotationOf(v, shift, w) ==
  \A j \in 0..((8 * Len(v)) - 1) : BitOf(w, j) = BitOf(v, (j - shift) % (8 * Len(v)))

ArithmeticOf(v, w, shift, results) ==
  LET n == Len(v)
  IN /\ \A x \in {results.sum, results.difference, results.left, results.right} :
          x \in Seq(Byte) /\ Len(x) = n
     /\ Value(results.sum) = (Value(v) + Value(w)) % Numbers(n)
     /\ Value(results.difference) = (Value(v) - Value(w)) % Numbers(n)
     /\ RotationOf(v, shift, results.left)
     /\ RotationOf(v, -shift, results.right)

(* Scrambling is undone by F_XY_reverse.                                   *)
Unscrambled(key, key_x, key_y) == F_XY_reverse(key) = XorAll(key_x, key_y)
=============================================================================
