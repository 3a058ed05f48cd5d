---------------------------- MODULE BinaryLoader ----------------------------
(***************************************************************************)
(* How the bootloader's ARM7 brings a game's binaries into memory once the *)
(* card is in its main data mode (see CardReader): cardReadDirect splits a *)
(* read into the blocks cardReadBlock gets from the copies made earlier or *)
(* from the card (read_card.c), main.arm7.c reads up to four binaries, the *)
(* modcrypt areas of the last two are deciphered in place with a running   *)
(* counter (dsi.c), and the header is handed to the game.                  *)
(*                                                                         *)
(* A byte of the ROM is known by its address.  One that is ciphered bears  *)
(* the counters of the keystreams applied to it.                           *)
(***************************************************************************)
EXTENDS Integers

CONSTANTS
  Block,       (* 0x200: what cardReadBlock reads                           *)
  Page,        (* 0x1000: a read by the card wraps around in its page       *)
  HeaderEnd,   (* 0x1000: behind the header                                 *)
  SecureStart, (* CARD_SECURE_AREA_OFFSET                                   *)
  AreaSize,    (* CARD_SECURE_AREA_SIZE                                     *)
  Cipher,      (* 0x10: what one keystream deciphers                        *)
  Word,        (* 2^32: the counter consists of digits below this, of which *)
               (* two are modelled                                          *)
  Top,         (* bound: the highest address in memory                      *)
  Games        (* the cards, and how they are started                       *)

SecureEnd == SecureStart + AreaSize
Binaries == {"arm9", "arm7", "arm9i", "arm7i"}
DsiBinaries == {"arm9i", "arm7i"}
Memory == 0..Top

(* bins: where each binary is on the card, how long it is and where it     *)
(* goes; areas: the modcrypt areas, with their first counter; twlArea: the *)
(* DSi secure area's address, 0 for none; console and twlMode: what        *)
(* decides whether the game is started in DSi mode.                        *)
GameType ==
  [bins: [Binaries -> [rom: Nat, size: Nat, dest: Memory]],
   areas: [DsiBinaries -> [rom: Nat, size: Nat, ctr: [hi: 0..Word - 1,
                                                     lo: 0..Word - 1]]],
   ciphered: BOOLEAN, unitCode: 0..3, twlArea: Nat,
   dsiConsole: BOOLEAN, twlMode: 0..2]

SupportsDsi(g) == g.unitCode > 0

(* twlMode 2 forces DSi mode.                                              *)
DsiMode(g) ==
  g.dsiConsole /\ (g.twlMode = 2 \/ (g.twlMode # 0 /\ SupportsDsi(g)))

(* a is read before b.                                                     *)
Before(a, b) ==
  \/ a = "arm9" /\ b # "arm9"
  \/ a = "arm7" /\ b \in DsiBinaries
  \/ a = "arm9i" /\ b = "arm7i"

(* Reading b writes whole blocks: behind its end too, up to here.          *)
LastWritten(g, b) == g.bins[b].dest + g.bins[b].size + Block - 2

(* A game that can be loaded: its binaries fit in, what is written for one *)
(* leaves those read before alone, and each area lies in its own binary and *)
(* not before the secure area.                                             *)
Loadable(g) ==
  /\ SupportsDsi(g) \/ \A b \in DsiBinaries : g.bins[b].size = 0
  /\ g.ciphered => SupportsDsi(g)
  /\ g.twlArea % Block = 0
  /\ \A b \in Binaries : g.bins[b].size > 0 => LastWritten(g, b) <= Top
  /\ \A a, b \in Binaries :
       Before(a, b) /\ g.bins[b].size > 0 =>
         \/ LastWritten(g, b) < g.bins[a].dest
         \/ g.bins[a].dest + g.bins[a].size <= g.bins[b].dest
  /\ \A b \in DsiBinaries :
       LET part == g.areas[b] whole == g.bins[b]
       IN /\ part.size % Cipher = 0
          /\ part.size > 0 => /\ whole.rom <= part.rom
                              /\ SecureStart <= part.rom
                              /\ part.rom + part.size <= whole.rom + whole.size
          /\ \A a \in Binaries \ {b} :
               \/ part.rom + part.size <= g.bins[a].rom
               \/ g.bins[a].rom + g.bins[a].size <= part.rom

ASSUME BinaryLoaderAssumption ==
  /\ {Block, Page, HeaderEnd, SecureStart, AreaSize, Cipher, Word}
       \subseteq Nat \ {0}
  /\ Page % Block = 0 /\ HeaderEnd % Block = 0
  /\ SecureStart % Block = 0 /\ AreaSize % Block = 0
  /\ HeaderEnd <= SecureStart /\ Cipher <= Block /\ Word > 1
  /\ Top \in Nat
  /\ Games \subseteq {g \in GameType : Loadable(g)}

VARIABLES
  game,
  stage,     (* what is read, deciphered or done next                       *)
  pos,       (* how far that is done                                        *)
  ctr,       (* ctx.ctr                                                     *)
  mem,
  listed,    (* the areas that dsiHeaderTemp lists                          *)
  published  (* those the game's own header lists                           *)

vars == <<game, stage, pos, ctr, mem, listed, published>>

Stages == {"arm9", "arm7", "arm9i", "arm7i", "key9i", "crypt9i", "key7i",
           "crypt7i", "header", "done"}
Counters == [hi: 0..Word - 1, lo: 0..Word - 1]

-----------------------------------------------------------------------------
(* The card's contents.                                                    *)

Byte(a) == [rom |-> a, keys |-> {}]
Zero == Byte(-1)
Junk == Byte(-2)

(* What the game's maker did: the areas are ciphered with one counter      *)
(* after the other.                                                        *)
CounterAt(c, n) ==
  LET v == (c.hi * Word + c.lo + n) % (Word * Word)
  IN [hi |-> v \div Word, lo |-> v % Word]

Within(a, part) == part.rom <= a /\ a < part.rom + part.size

Keys(a) ==
  {CounterAt(game.areas[b].ctr, (a - game.areas[b].rom) \div Cipher) :
     b \in {d \in DsiBinaries : game.ciphered /\ Within(a, game.areas[d])}}

(* The ROM as the console sees it: nothing between header and secure area. *)
Rom(a) == IF HeaderEnd <= a /\ a < SecureStart THEN Zero
          ELSE [rom |-> a, keys |-> Keys(a)]

HasTwlArea == SupportsDsi(game) /\ game.twlArea # 0

InTwlArea(a) ==
  HasTwlArea /\ game.twlArea <= a /\ a < game.twlArea + AreaSize

(* The k-th address after src in its page.                                 *)
Wrapped(src, k) == src - (src % Page) + ((src + k) % Page)

(* The card's answer to a data read; the secure areas can not be read that *)
(* way.                                                                    *)
Answer(src, k) ==
  LET a == Wrapped(src, k)
  IN IF a < SecureEnd \/ InTwlArea(a) THEN Junk ELSE Rom(a)

-----------------------------------------------------------------------------
(* Reading.                                                                *)

(* The k-th byte that cardReadBlock delivers: of the copy of the header or *)
(* of a secure area, behind whose end lies anything, or of the card.       *)
ReadByte(src, k) ==
  LET Copied(end) == IF src + k < end THEN Rom(src + k) ELSE Junk
  IN CASE src < HeaderEnd -> Copied(HeaderEnd)
       [] HeaderEnd <= src /\ src < SecureStart -> Zero
       [] SecureStart <= src /\ src < SecureEnd -> Copied(SecureEnd)
       [] src >= SecureEnd /\ InTwlArea(src) -> Copied(game.twlArea + AreaSize)
       [] OTHER -> Answer(src, k)

cardReadBlock(src, dest) ==
  mem' = [d \in Memory |-> IF dest <= d /\ d < dest + Block
                           THEN ReadByte(src, d - dest) ELSE mem[d]]

(* Mutant: as if the address were aligned.                                 *)
ToBoundary_Aligned(src) == Block

(* From src to the next multiple of Block.                                 *)
ToBoundary(src) == Block - (src % Block)

(* Mutant: one block too many where the end is a boundary.                 *)
Enough_More(size, read) == size < read

Enough(size, read) == size <= read

bin == game.bins[stage]

(* The stage after a binary.                                               *)
AfterBinary ==
  CASE stage = "arm9" -> "arm7"
    [] stage = "arm7" -> IF DsiMode(game) THEN "arm9i" ELSE "header"
    [] stage = "arm9i" -> "arm7i"
    [] stage = "arm7i" -> IF game.ciphered THEN "key9i" ELSE "header"

(* Nothing to read.                                                        *)
SkipEmpty ==
  /\ stage \in Binaries /\ bin.size = 0
  /\ stage' = AfterBinary
  /\ UNCHANGED <<game, pos, ctr, mem, listed, published>>

(* The first block of a binary, or the next one; then on, or at the end to *)
(* the next stage.                                                         *)
ReadBlock ==
  /\ stage \in Binaries /\ bin.size > 0
  /\ cardReadBlock(bin.rom + pos, bin.dest + pos)
  /\ LET read == pos + (IF pos = 0 THEN ToBoundary(bin.rom) ELSE Block)
     IN IF Enough(bin.size, read)
        THEN pos' = 0 /\ stage' = AfterBinary
        ELSE pos' = read /\ UNCHANGED stage
  /\ UNCHANGED <<game, ctr, listed, published>>

-----------------------------------------------------------------------------
(* Deciphering.                                                            *)

Target == IF stage \in {"key9i", "crypt9i"} THEN "arm9i" ELSE "arm7i"

area == game.areas[Target]

AfterArea == IF Target = "arm9i" THEN "key7i" ELSE "header"

(* dsi_set_key and dsi_set_ctr.                                            *)
SetCounter ==
  /\ stage \in {"key9i", "key7i"}
  /\ ctr' = area.ctr
  /\ stage' = IF area.size = 0 THEN AfterArea
              ELSE IF stage = "key9i" THEN "crypt9i" ELSE "crypt7i"
  /\ listed' = IF stage' = "header" THEN {} ELSE listed
  /\ UNCHANGED <<game, pos, mem, published>>

(* dsi_add_ctr, from the lowest digit up: a sum below what was there       *)
(* carries.                                                                *)
AddCounter(c) ==
  LET lo == (c.lo + 1) % Word
      carry == IF lo < c.lo THEN 1 ELSE 0
  IN [hi |-> (c.hi + carry) % Word, lo |-> lo]

(* Applying a keystream twice undoes it.                                   *)
Xor(byte, key) ==
  [byte EXCEPT !.keys = (@ \ {key}) \cup ({key} \ @)]

(* One turn of decrypt_modcrypt_area; at its end the header forgets the    *)
(* areas.                                                                  *)
Decipher ==
  /\ stage \in {"crypt9i", "crypt7i"}
  /\ LET start == game.bins[Target].dest + (area.rom - game.bins[Target].rom)
     IN mem' = [d \in Memory |->
                  IF start + pos <= d /\ d < start + pos + Cipher
                  THEN Xor(mem[d], ctr) ELSE mem[d]]
  /\ ctr' = AddCounter(ctr)
  /\ IF pos + Cipher < area.size
     THEN pos' = pos + Cipher /\ UNCHANGED stage
     ELSE pos' = 0 /\ stage' = AfterArea
  /\ listed' = IF stage' = "header" THEN {} ELSE listed
  /\ UNCHANGED <<game, published>>

(* Mutant: the areas are taken from the card's header.                     *)
loadHeader_Card ==
  /\ stage = "header"
  /\ published' = IF DsiMode(game) /\ game.ciphered THEN DsiBinaries ELSE {}
  /\ stage' = "done"
  /\ UNCHANGED <<game, pos, ctr, mem, listed>>

(* Only in DSi mode the game gets the part of the header with the areas.   *)
loadHeader ==
  /\ stage = "header"
  /\ published' = IF DsiMode(game) THEN listed ELSE {}
  /\ stage' = "done"
  /\ UNCHANGED <<game, pos, ctr, mem, listed>>

-----------------------------------------------------------------------------

Init ==
  /\ game \in Games
  /\ stage = "arm9" /\ pos = 0
  /\ ctr = [hi |-> 0, lo |-> 0]
  /\ mem = [d \in Memory |-> Junk]
  /\ listed = IF game.ciphered
              THEN {b \in DsiBinaries : game.areas[b].size > 0} ELSE {}
  /\ published = {}

Next == SkipEmpty \/ ReadBlock \/ SetCounter \/ Decipher \/ loadHeader

(* One thread of one CPU; the ARM9 waits for it in its service loop.       *)
Spec == Init /\ [][Next]_vars /\ WF_vars(Next)

-----------------------------------------------------------------------------
(* Properties.                                                             *)

(* Apart from the types: nothing has been left half done when a stage      *)
(* begins.                                                                 *)
TypeOK ==
  /\ game \in GameType
  /\ stage \in Stages
  /\ pos \in Nat
  /\ stage \in Binaries => pos = 0 \/ pos < bin.size
  /\ stage \in {"crypt9i", "crypt7i"} => pos < area.size
  /\ stage \notin Binaries \cup {"crypt9i", "crypt7i"} => pos = 0
  /\ ctr \in Counters
  /\ mem \in [Memory -> [rom: Int, keys: SUBSET Counters]]
  /\ listed \subseteq DsiBinaries /\ published \subseteq DsiBinaries

ToLoad == {b \in Binaries : b \in DsiBinaries => DsiMode(game)}

(* At the end every binary is in memory from its first to its last byte,   *)
(* wherever on the card it begins and ends, and is deciphered.             *)
Loaded ==
  stage = "done" =>
    \A b \in ToLoad : \A k \in 0..game.bins[b].size - 1 :
      mem[game.bins[b].dest + k] =
        [Rom(game.bins[b].rom + k) EXCEPT !.keys = {}]

(* The blocks read reach less than one block behind a binary's end, and    *)
(* what is deciphered lies in its binary: the rest of memory is as before. *)
NothingElse ==
  \A d \in Memory :
    mem[d] # Junk => \E b \in ToLoad : /\ game.bins[b].size > 0
                                       /\ game.bins[b].dest <= d
                                       /\ d <= LastWritten(game, b)

(* The header the game gets lists the areas that are still ciphered in its *)
(* memory, and no others: none.                                            *)
HeaderAgrees ==
  stage = "done" /\ DsiMode(game) =>
    \A b \in DsiBinaries :
      b \in published <=>
        \E k \in 0..game.areas[b].size - 1 :
          mem[game.bins[b].dest + (game.areas[b].rom - game.bins[b].rom) + k].keys
            # {}
=============================================================================
