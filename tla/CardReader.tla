----------------------------- MODULE CardReader -----------------------------
(***************************************************************************)
(* The bootloader's way to the card, read_card.c, as arm7_loadBinary calls *)
(* it: reset the slot, read the header, decide what kind of card it is,    *)
(* walk it through its KEY1 and KEY2 modes to main data mode, again for    *)
(* the DSi half of a DSi card, and read the binaries; on a bad header do   *)
(* it all once more with a harder reset.                                   *)
(*                                                                         *)
(* The card is the other side of the conversation: it is in one mode, with *)
(* one key table and one command counter, and takes nothing else.          *)
(* Contents are abstracted to where they come from.  emulate_dsi and       *)
(* do_banner_read are constants of the code (false and true).              *)
(***************************************************************************)
EXTENDS Integers, Sequences

CONSTANT Cards   (* the cards that may be in the slot                      *)

(* oneT: the chip ID's upper bit, the card wants every KEY1 command twice  *)
(* and answers in blocks of 0x200; dsi: a unit code above 0; extended: dsi *)
(* or dsi_flags; ext: what the header holds after 0x200; mirror: what a    *)
(* header read at 0x3E00 shows: the header's start, its bytes at 0xE00, an *)
(* emulator's mark, or something else.                                     *)
CardType ==
  {c \in [emulated: BOOLEAN, oneT: BOOLEAN, dsi: BOOLEAN, extended: BOOLEAN,
          ext: {"data", "ff"}, mirror: {"start", "e00", "mark", "else"},
          twlRegion: BOOLEAN] :
     /\ c.dsi => c.extended
     /\ c.twlRegion => c.dsi
     /\ c.emulated <=> c.mirror \in {"mark", "else"}
     /\ c.mirror = "e00" => c.dsi}

ASSUME CardsAssumption == Cards \subseteq CardType

RETAIL == 0
EMULATED == 1
AUTODETECT == 2
Kind(c) == IF c.emulated THEN EMULATED ELSE RETAIL

(* Who wrote a part of a header: nobody, a card that gave no answer (all   *)
(* ones) or a disturbed one, the card; or the clearing of the FFs.         *)
FirstParts == {"none", "ff", "noise", "card"}
ExtParts == {"zero", "ff", "noise", "data"}
Headers == [first: FirstParts, ext: ExtParts]

SecureBlocks == <<4, 5, 6, 7>>

VARIABLES
  pc, dsiMode, card,
  attempt,        (* how often arm7_loadBinary has called cardInit          *)
  cartridgeType,  (* bootloader_data->cartridgeType                         *)
  ndsHeader,      (* the caller's header at 0x02FFC000                      *)
  headerData, chipRead, normalChip, twlBlowfish,
  secureArea,     (* the blocks read, in order, and whether decrypted       *)
  secureAreaTWL,
  key1,           (* the key table loaded and key1data.kkkkk, from its seed *)
  slot,           (* the card: mode, key table, counter it expects          *)
  confused        (* history: the card got a command it does not take       *)

header == <<ndsHeader, headerData, chipRead, normalChip>>
areas == <<secureArea, secureAreaTWL>>
setup == <<dsiMode, card>>
readerVars == <<pc, setup, attempt, cartridgeType, header, twlBlowfish, areas, key1,
          slot, confused>>

ReaderInit ==
  /\ pc = "init"
  /\ dsiMode \in BOOLEAN
  /\ card \in Cards
  /\ attempt = 0
  /\ cartridgeType \in {Kind(card), AUTODETECT}
  /\ ndsHeader = [first |-> "none", ext |-> "zero"]
  /\ headerData = [first |-> "none", ext |-> "zero"]
  /\ chipRead = FALSE /\ normalChip = FALSE /\ twlBlowfish = FALSE
  /\ secureArea = [blocks |-> << >>, plain |-> FALSE]
  /\ secureAreaTWL = << >>
  /\ key1 = [table |-> "ntr", counter |-> 0]
  /\ slot = [mode |-> "data", table |-> "ntr", counter |-> 0]
  /\ confused = FALSE

-----------------------------------------------------------------------------
(* The card's side.                                                        *)

RawSlot == [mode |-> "raw", table |-> "ntr", counter |-> 0]

(* A command the card does not take confuses it.                           *)
Sent(taken) == confused' = (confused \/ ~taken)

(* Mutant: every sending of a doubled command is a new one.                *)
KeyCommand_EverySend(before, after) ==
  /\ Sent(/\ ~card.emulated /\ slot.mode = before /\ slot.table = key1.table
          /\ slot.counter = key1.counter /\ normalChip = card.oneT)
  /\ slot' = [slot EXCEPT !.mode = after, !.counter = @ + 1]
  /\ key1' = [key1 EXCEPT !.counter = @ + (IF normalChip THEN 2 ELSE 1)]

(* createEncryptedCommand and its sendings: the counter goes up with each  *)
(* command, and a chip with 0x200 blocks gets the same bytes twice.        *)
KeyCommand(before, after) ==
  /\ Sent(/\ ~card.emulated /\ slot.mode = before /\ slot.table = key1.table
          /\ slot.counter = key1.counter /\ normalChip = card.oneT)
  /\ slot' = [slot EXCEPT !.mode = after, !.counter = @ + 1]
  /\ key1' = [key1 EXCEPT !.counter = @ + 1]

(* Unencrypted reads.                                                      *)
TakesHeaderRead == slot.mode = "raw" \/ card.emulated
TakesDataRead == slot.mode = "data" \/ (card.emulated /\ slot.mode = "key1")

-----------------------------------------------------------------------------
(* cardInit.                                                               *)

(* Mutant: the chip ID is read only once for both attempts.                *)
ResetSlot_KeepsChip ==
  /\ pc = "init" /\ pc' = "header"
  /\ attempt' = attempt + 1
  /\ twlBlowfish' = FALSE
  /\ normalChip' = (IF attempt = 0 THEN FALSE ELSE normalChip)
  /\ chipRead' = (IF attempt = 0 THEN FALSE ELSE chipRead)
  /\ slot' = RawSlot
  /\ UNCHANGED <<setup, cartridgeType, ndsHeader, headerData, areas, key1,
                 confused>>

(* Up to slot_reset_shared, which resets the card in any case; the harder  *)
(* reset (a retry, or no plain retail card) only adds to it.               *)
ResetSlot ==
  /\ pc = "init" /\ pc' = "header"
  /\ attempt' = attempt + 1
  /\ twlBlowfish' = FALSE /\ normalChip' = FALSE /\ chipRead' = FALSE
  /\ slot' = RawSlot
  /\ UNCHANGED <<setup, cartridgeType, ndsHeader, headerData, areas, key1,
                 confused>>

(* What the card's pins give: the card, nothing, or a disturbed read.      *)
Extended(got, noise) ==
  CASE got = "card" -> card.extended
    [] got = "ff" -> TRUE
    [] got = "noise" -> noise

ChipId(got, noise) ==
  CASE got = "card" -> card.oneT
    [] got = "ff" -> TRUE
    [] got = "noise" -> noise

(* fullHeaderRead: the test for FFs looks at the caller's header, of which *)
(* only the first 0x200 bytes are new.                                     *)
HeadersRead(got, ext) ==
  IF ~ext
  THEN /\ headerData' = [headerData EXCEPT !.first = got]
       /\ ndsHeader' = [ndsHeader EXCEPT !.first = got]
  ELSE /\ headerData' =
            [first |-> got,
             ext |-> IF ndsHeader.ext = "ff" THEN "zero"
                     ELSE IF got = "card" THEN card.ext ELSE got]
       /\ ndsHeader' = headerData'

(* fullHeaderRead, the check of the CRC and doChipIDRead.                  *)
ReadHeader ==
  /\ pc = "header"
  /\ \E got \in FirstParts \ {"none"}, extNoise, idNoise \in BOOLEAN :
       LET ext == Extended(got, extNoise)
       IN /\ HeadersRead(got, ext)
          /\ IF (ext \/ got = "card") /\ ~chipRead
             THEN normalChip' = ChipId(got, idNoise) /\ chipRead' = TRUE
             ELSE UNCHANGED <<normalChip, chipRead>>
          /\ pc' = IF got = "card" THEN "detect" ELSE "failed"
  /\ Sent(TakesHeaderRead)
  /\ UNCHANGED <<setup, attempt, cartridgeType, twlBlowfish, areas, key1, slot>>

(* Mutant: the cards that show their bytes at 0xE00 are not considered.    *)
IsCartridgeEmulated_NoE00 == card.mirror # "start"

(* isCartridgeEmulated compares with the header as it was stored.          *)
IsCartridgeEmulated ==
  CASE card.mirror = "mark" -> TRUE
    [] card.mirror = "start" -> FALSE
    [] card.mirror = "e00" -> ndsHeader.ext # card.ext
    [] card.mirror = "else" -> TRUE

(* The kind of card is settled; an emulated card gives its secure area to  *)
(* plain header reads, a retail card would show its header again.          *)
DetectType ==
  /\ pc = "detect" /\ pc' = "key1"
  /\ cartridgeType' = IF cartridgeType # AUTODETECT THEN cartridgeType
                      ELSE IF IsCartridgeEmulated THEN EMULATED ELSE RETAIL
  /\ secureArea' = IF cartridgeType' # EMULATED THEN secureArea
                   ELSE [blocks |-> IF card.emulated THEN SecureBlocks
                                    ELSE << >>,
                         plain |-> FALSE]
  /\ Sent(TakesHeaderRead)
  /\ key1' = [table |-> "ntr", counter |-> 0]
  /\ UNCHANGED <<setup, attempt, header, twlBlowfish, secureAreaTWL, slot>>

(* The first command with a new key table, 3C or 3D, which carries the     *)
(* counter.  An emulated card is done with modes here.                     *)
ActivateKey1 ==
  /\ pc = "key1"
  /\ Sent(slot.mode = "raw" /\ (key1.table = "twl" => card.dsi))
  /\ slot' = [mode |-> "key1", table |-> key1.table, counter |-> 0]
  /\ key1' = [key1 EXCEPT !.counter = 0]
  /\ IF cartridgeType # EMULATED
     THEN pc' = "key2" /\ UNCHANGED <<secureAreaTWL, twlBlowfish>>
     ELSE IF key1.table = "ntr"
     THEN pc' = "final" /\ UNCHANGED <<secureAreaTWL, twlBlowfish>>
     ELSE /\ pc' = "plainmode"
          /\ secureAreaTWL' = IF card.twlRegion /\ card.emulated
                              THEN SecureBlocks ELSE secureAreaTWL
          /\ twlBlowfish' = TRUE
  /\ UNCHANGED <<setup, attempt, cartridgeType, header, secureArea>>

(* 4..., then the KEY2 seeds go into the registers.                        *)
ActivateKey2 ==
  /\ pc = "key2" /\ pc' = "chipid"
  /\ KeyCommand("key1", "key2")
  /\ UNCHANGED <<setup, attempt, cartridgeType, header, twlBlowfish, areas>>

(* 1..., and the offset into the secure area starts at 0.                  *)
SecureChipId ==
  /\ pc = "chipid" /\ pc' = "secure"
  /\ KeyCommand("key2", "key2")
  /\ IF key1.table = "ntr"
     THEN /\ secureArea' = [blocks |-> << >>, plain |-> FALSE]
          /\ UNCHANGED secureAreaTWL
     ELSE secureAreaTWL' = << >> /\ UNCHANGED secureArea
  /\ UNCHANGED <<setup, attempt, cartridgeType, header, twlBlowfish>>

Area == IF key1.table = "ntr" THEN secureArea.blocks ELSE secureAreaTWL

(* 2..., for the blocks 4 to 7.                                            *)
ReadSecureBlock ==
  /\ pc = "secure"
  /\ KeyCommand("key2", "key2")
  /\ LET read == Append(Area, Len(Area) + 4)
     IN /\ pc' = IF Len(read) = 4 THEN "datamode" ELSE "secure"
        /\ IF key1.table = "ntr"
           THEN /\ secureArea' = [secureArea EXCEPT !.blocks = read]
                /\ UNCHANGED secureAreaTWL
           ELSE secureAreaTWL' = read /\ UNCHANGED secureArea
  /\ UNCHANGED <<setup, attempt, cartridgeType, header, twlBlowfish>>

(* A...                                                                    *)
EnterDataMode ==
  /\ pc = "datamode"
  /\ KeyCommand("key2", "data")
  /\ pc' = IF key1.table = "ntr" THEN "final" ELSE "banner"
  /\ twlBlowfish' = (key1.table = "twl")
  /\ UNCHANGED <<setup, attempt, cartridgeType, header, areas>>

-----------------------------------------------------------------------------
(* finalCardSetup and switchToTwlBlowfish.                                 *)

(* Mutant: a DSi card stays in its DS half.                                *)
FinalSetup_NoSwitch ==
  /\ pc = "final"
  /\ secureArea' = [secureArea EXCEPT !.plain = TRUE]
  /\ pc' = IF dsiMode /\ cartridgeType = EMULATED THEN "plainmode" ELSE "banner"
  /\ UNCHANGED <<setup, attempt, cartridgeType, header, twlBlowfish,
                 secureAreaTWL, key1, slot, confused>>

FinalSetup ==
  /\ pc = "final"
  /\ secureArea' = [secureArea EXCEPT !.plain = TRUE]
  /\ pc' = IF dsiMode /\ card.dsi THEN "twl"
           ELSE IF dsiMode /\ cartridgeType = EMULATED THEN "plainmode"
           ELSE "banner"
  /\ UNCHANGED <<setup, attempt, cartridgeType, header, twlBlowfish,
                 secureAreaTWL, key1, slot, confused>>

(* The slot is reset again and the other key table loaded.                 *)
SwitchToTwl ==
  /\ pc = "twl" /\ pc' = "key1"
  /\ slot' = RawSlot
  /\ key1' = [key1 EXCEPT !.table = "twl"]
  /\ UNCHANGED <<setup, attempt, cartridgeType, header, twlBlowfish, areas,
                 confused>>

PlainDataMode ==
  /\ pc = "plainmode" /\ pc' = "banner"
  /\ Sent(card.emulated)
  /\ slot' = [slot EXCEPT !.mode = "data"]
  /\ UNCHANGED <<setup, attempt, cartridgeType, header, twlBlowfish, areas, key1>>

(* Reads some flashcarts wait for.                                         *)
ReadBanner ==
  /\ pc = "banner" /\ pc' = "load"
  /\ Sent(TakesDataRead)
  /\ UNCHANGED <<setup, attempt, cartridgeType, header, twlBlowfish, areas,
                 key1, slot>>

-----------------------------------------------------------------------------
(* arm7_loadBinary and its caller.                                         *)

(* A bad header is worth one more attempt.  Behind the second the ARM9 is  *)
(* told, and arm7_main goes on all the same.                               *)
Retry ==
  /\ pc = "failed"
  /\ pc' = IF attempt < 2 THEN "init" ELSE "unread"
  /\ UNCHANGED <<setup, attempt, cartridgeType, header, twlBlowfish, areas,
                 key1, slot, confused>>

LoadBinaries ==
  /\ pc = "load" /\ pc' = "loadi"
  /\ Sent(TakesDataRead)
  /\ UNCHANGED <<setup, attempt, cartridgeType, header, twlBlowfish, areas,
                 key1, slot>>

(* dsiModeConfirmed: twlMode 2 forces it.  The DSi half of a DSi card is   *)
(* read with its own key table; cardReadBlock's late switch never comes.   *)
LoadTwlBinaries ==
  /\ pc = "loadi" /\ pc' = "done"
  /\ \E twlMode \in 0..2 :
       Sent(dsiMode /\ twlMode > 0 /\ (twlMode = 2 \/ card.dsi)
              => /\ TakesDataRead
                 /\ card.dsi => twlBlowfish /\ slot.table = "twl")
  /\ UNCHANGED <<setup, attempt, cartridgeType, header, twlBlowfish, areas,
                 key1, slot>>

(* The same lines without a header of the card.  twlMode 2 confirms DSi    *)
(* mode, and so may a unit code that nobody gave: FFs always do.           *)
GoOn ==
  /\ pc = "unread"
  /\ \E twlMode \in 0..2, unit \in BOOLEAN :
       /\ ndsHeader.first = "ff" => unit
       /\ pc' = IF dsiMode /\ twlMode > 0 /\ (twlMode = 2 \/ unit)
                THEN "rubbish" ELSE "over"
  /\ UNCHANGED <<setup, attempt, cartridgeType, header, twlBlowfish, areas,
                 key1, slot, confused>>

(* cardReadBlock's late switch, for a place beyond the size in the header. *)
(* It takes every card for a retail one, and its KEY1 commands are in the  *)
(* code of a game that only by chance is the card's.                       *)
LateSwitch ==
  /\ pc = "rubbish" /\ ~twlBlowfish
  /\ \E code \in BOOLEAN :
       LET taken == /\ code /\ headerData.first = "noise"
                    /\ card.dsi /\ ~card.emulated /\ normalChip = card.oneT
       IN /\ Sent(taken)
          /\ slot' = IF taken
                     THEN [mode |-> "data", table |-> "twl", counter |-> 7]
                     ELSE [mode |-> "key1", table |-> "twl", counter |-> 0]
          /\ secureAreaTWL' = IF taken THEN SecureBlocks ELSE << >>
  /\ key1' = [table |-> "twl", counter |-> 7]
  /\ twlBlowfish' = TRUE
  /\ UNCHANGED <<pc, setup, attempt, cartridgeType, header, secureArea>>

(* A block from the card as it is, or from the reader's buffers.           *)
RubbishRead ==
  /\ pc = "rubbish"
  /\ \E buffered \in BOOLEAN : Sent(buffered \/ TakesDataRead)
  /\ UNCHANGED <<pc, setup, attempt, cartridgeType, header, twlBlowfish, areas,
                 key1, slot>>

(* The sizes in the header are what ends it, 0 as well.                    *)
RubbishEnds ==
  /\ pc = "rubbish" /\ pc' = "over"
  /\ UNCHANGED <<setup, attempt, cartridgeType, header, twlBlowfish, areas,
                 key1, slot, confused>>

Finished ==
  /\ pc \in {"done", "over"}
  /\ UNCHANGED readerVars

ReaderNext ==
  \/ ResetSlot \/ ReadHeader \/ DetectType \/ ActivateKey1 \/ ActivateKey2
  \/ SecureChipId \/ ReadSecureBlock \/ EnterDataMode \/ FinalSetup
  \/ SwitchToTwl \/ PlainDataMode \/ ReadBanner \/ Retry \/ LoadBinaries
  \/ LoadTwlBinaries \/ GoOn \/ LateSwitch \/ RubbishRead \/ RubbishEnds
  \/ Finished

ReaderSpec == ReaderInit /\ [][ReaderNext]_readerVars

-----------------------------------------------------------------------------
(* Properties.                                                             *)

Modes == {"raw", "key1", "key2", "data"}
Tables == {"ntr", "twl"}
Areas == {<< >>, <<4>>, <<4, 5>>, <<4, 5, 6>>, SecureBlocks}

(* Seven encrypted commands belong to one pass through the modes, and the  *)
(* secure area is four blocks in order: neither counter nor buffer runs    *)
(* over, on either key table and on a retry.                               *)
ReaderTypeOK ==
  /\ pc \in {"init", "header", "detect", "key1", "key2", "chipid", "secure",
             "datamode", "final", "twl", "plainmode", "banner", "load",
             "loadi", "failed", "unread", "rubbish", "over", "done"}
  /\ dsiMode \in BOOLEAN /\ card \in CardType /\ attempt \in 0..2
  /\ cartridgeType \in {RETAIL, EMULATED, AUTODETECT}
  /\ ndsHeader \in Headers /\ headerData \in Headers
  /\ chipRead \in BOOLEAN /\ normalChip \in BOOLEAN /\ twlBlowfish \in BOOLEAN
  /\ secureArea \in [blocks: Areas, plain: BOOLEAN]
  /\ secureAreaTWL \in Areas
  /\ key1 \in [table: Tables, counter: 0..7]
  /\ slot \in [mode: Modes, table: Tables, counter: 0..7]
  /\ confused \in BOOLEAN

(* A card taken for what it is never gets a command it does not take: not  *)
(* in the wrong mode, under the wrong key table or counter, once instead   *)
(* of twice; also on the second pass of a DSi card and after a failed      *)
(* first attempt.  The one exception is the boot that goes on with DSi     *)
(* mode confirmed when neither attempt gave a header (main.arm7.c:1064,    *)
(* 1076): there the card was reset and is read all the same.               *)
Understood ==
  cartridgeType \in {Kind(card), AUTODETECT} /\ confused
    => pc \in {"rubbish", "over"} /\ attempt = 2 /\ dsiMode

Settled == pc \in {"key1", "key2", "chipid", "secure", "datamode", "final",
                   "twl", "plainmode", "banner", "load", "loadi", "done"}

(* A card whose header is right at the first attempt is taken for what it  *)
(* is, whatever part of itself it shows at 0x3E00.                         *)
DetectedRight == Settled /\ attempt = 1 => cartridgeType = Kind(card)

(* The binaries are only read with everything in place that cardReadBlock  *)
(* answers from: the card's own header, the decrypted secure area and, on  *)
(* a DSi, the DSi card's second one.                                       *)
AreasInPlace ==
  pc \in {"load", "loadi", "done"} /\ cartridgeType = Kind(card)
    => /\ ndsHeader.first = "card" /\ headerData.first = "card"
       /\ secureArea = [blocks |-> SecureBlocks, plain |-> TRUE]
       /\ dsiMode /\ card.dsi /\ (card.emulated => card.twlRegion)
            => secureAreaTWL = SecureBlocks

(* read_card.c line 470: "Some DSi cartridges report the bytes at 0xE00 of *)
(* the header when reading here", and are not emulated, at any attempt.    *)
RetailDsiRecognised ==
  Settled /\ card.mirror = "e00" => cartridgeType = RETAIL
=============================================================================
