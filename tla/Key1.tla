-------------------------------- MODULE Key1 ---------------------------------
(***************************************************************************)
(* The cipher of the cartridge bus (encryption.c) and the secure area that *)
(* is read through it (read_card.c).  A word is the four digits its tables *)
(* are looked up by: bytes in the code, digits of base Base = 4 here, so   *)
(* that a word is a byte and every block can be tried.                     *)
(***************************************************************************)
EXTENDS Bytes

Base == 4
Words == Base * Base * Base * Base  \* as many as there are words
KeyWordsTotal == 18 + (4 * Base)    \* KEYSIZE / sizeof(u32)

CONSTANTS
  gEncrData,        \* the tables of DS cartridges,
  gEncrDataTwl,     \* of DSi cartridges
  gEncrDataTwlDev   \* and of DSi development cartridges

ASSUME TablesAssumption ==
  \A table \in {gEncrData, gEncrDataTwl, gEncrDataTwlDev} :
    table \in Seq(0..(Words - 1)) /\ Len(table) = KeyWordsTotal

CardKeys == {"NTR_CARD_KEY", "DSI_CARD_KEY", "DSI_DEV_CARD_KEY"}

(* keybuf[i] of the code.                                                  *)
Entry(keybuf, i) == keybuf[i + 1]
Weights == <<1, Base, Base * Base, Base * Base * Base>>
Digit(z, n) == (z \div Weights[n + 1]) % Base

(* What a word is replaced by: sum, exclusive or, sum of its four entries. *)
Scrambled4(keybuf, z) ==
  LET box(n) == Entry(keybuf, 18 + (Base * n) + Digit(z, 3 - n))
  IN (Xor((box(0) + box(1)) % Words, box(2)) + box(3)) % Words

(* Sixteen rounds with the words keybuf[key[1]], ..., keybuf[key[16]], and *)
(* two words over what comes out of them.                                  *)
Rounds(keybuf, ptr, key, last) ==
  LET turned(before, z) == <<Xor(before[2], Scrambled4(keybuf, z)), z>>
      next(before, n) == turned(before, Xor(Entry(keybuf, key[n]), before[1]))
      xy[n \in 0..16] ==
        IF n = 0 THEN <<ptr[2], ptr[1]>> ELSE next(xy[n - 1], n)
  IN XorAll(<<Entry(keybuf, last[1]), Entry(keybuf, last[2])>>, xy[16])

crypt_64bit_up(keybuf, ptr) ==
  Rounds(keybuf, ptr, [n \in 1..16 |-> n - 1], <<16, 17>>)

(* Mutant: one round too few from the other end.                           *)
crypt_64bit_down_Short(keybuf, ptr) ==
  Rounds(keybuf, ptr, [n \in 1..16 |-> IF n = 16 THEN 3 ELSE 18 - n], <<1, 0>>)

crypt_64bit_down(keybuf, ptr) ==
  Rounds(keybuf, ptr, [n \in 1..16 |-> 18 - n], <<1, 0>>)

bswap_32bit(w) ==
  Digit(w, 3) + (Base * Digit(w, 2)) + (Base * Base * Digit(w, 1))
    + (Base * Base * Base * Digit(w, 0))

(* The key code goes through the cipher, and through it into the round     *)
(* words; then every word of the buffer is replaced, two by two, by a      *)
(* block that is enciphered again and again.  s is [keybuf, keycode].      *)
Coded(s) ==
  LET above(high) ==
        crypt_64bit_up(s.keybuf, <<s.keycode[1], high[1]>>) \o <<high[2]>>
  IN above(crypt_64bit_up(s.keybuf, <<s.keycode[2], s.keycode[3]>>))

Refilled(keybuf) ==
  LET put(before, n, scratch) ==
        [keybuf |-> Over(before.keybuf, 2 * (n - 1), <<scratch[2], scratch[1]>>),
         scratch |-> scratch]
      next(before, n) ==
        put(before, n, crypt_64bit_up(before.keybuf, before.scratch))
      filled[n \in 0..(KeyWordsTotal \div 2)] ==
        IF n = 0 THEN [keybuf |-> keybuf, scratch |-> <<0, 0>>]
        ELSE next(filled[n - 1], n)
  IN filled[KeyWordsTotal \div 2].keybuf

Keyed(keybuf, keycode, modulo) ==
  <<>> \o [i \in 1..KeyWordsTotal |->
    IF i > 18 THEN keybuf[i]
    ELSE Xor(keybuf[i], bswap_32bit(keycode[((i - 1) % modulo) + 1]))]

apply_keycode(s, modulo) ==
  LET with(keycode) == [keycode |-> keycode,
                        keybuf |-> Refilled(Keyed(s.keybuf, keycode, modulo))]
  IN with(Coded(s))

(* The tables are copied afresh, then keyed once, twice or three times; a  *)
(* development cartridge uses them as they are.                            *)
init_keycode(idcode, level, modulo, iCardDevice) ==
  LET tables == CASE iCardDevice = "NTR_CARD_KEY" -> gEncrData
                  [] iCardDevice = "DSI_CARD_KEY" -> gEncrDataTwl
                  [] iCardDevice = "DSI_DEV_CARD_KEY" -> gEncrDataTwlDev
      turned(two) ==
        [two EXCEPT !.keycode = <<two.keycode[1], (2 * two.keycode[2]) % Words,
                                  two.keycode[3] \div 2>>]
      keyed[l \in 0..level] ==
        IF l = 0 THEN [keybuf |-> tables,
                       keycode |-> <<idcode, idcode \div 2, (2 * idcode) % Words>>]
        ELSE apply_keycode(IF l = 3 THEN turned(keyed[l - 1]) ELSE keyed[l - 1], modulo)
  IN IF iCardDevice = "DSI_DEV_CARD_KEY" THEN tables ELSE keyed[level].keybuf

(* decryptSecureArea: the first block is under one key more than the rest. *)
Pair(area, n) == <<area[(2 * n) - 1], area[2 * n]>>

decryptSecureArea(gameCode, secureArea, iCardDevice) ==
  LET second == init_keycode(gameCode, 2, 2, iCardDevice)
      third == init_keycode(gameCode, 3, 2, iCardDevice)
      first == Over(secureArea, 0, crypt_64bit_down(second, Pair(secureArea, 1)))
  IN <<>> \o [i \in 1..Len(first) |->
                crypt_64bit_down(third, Pair(first, (i + 1) \div 2))[2 - (i % 2)]]

-----------------------------------------------------------------------------
(* Reference: how the secure area of a cartridge is made.  All of it is    *)
(* enciphered with the key of level 3, then its first block again with the *)
(* key of level 2, which is that of the commands before it is read.        *)

SecureAreaOf(gameCode, plain, iCardDevice) ==
  LET second == init_keycode(gameCode, 2, 2, iCardDevice)
      third == init_keycode(gameCode, 3, 2, iCardDevice)
      whole == <<>> \o [i \in 1..Len(plain) |->
                 crypt_64bit_up(third, Pair(plain, (i + 1) \div 2))[2 - (i % 2)]]
  IN Over(whole, 0, crypt_64bit_up(second, Pair(whole, 1)))
=============================================================================
