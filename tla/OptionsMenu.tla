---------------------------- MODULE OptionsMenu ----------------------------
(***************************************************************************)
(* The launcher's ARM9 program, main.cpp: it loads the options from the SD *)
(* card or the console's NAND, starts the inserted cartridge by itself or  *)
(* shows the menu, saves the options when asked, and hands the parameter   *)
(* block to the bootloader.  The console may lose power at any time, and   *)
(* is switched on again with or without an SD card.                        *)
(*                                                                         *)
(* The cursor is wherever UP and DOWN have brought it: a key press names   *)
(* the entry it acts on.                                                   *)
(***************************************************************************)
EXTENDS SavedOptions

CONSTANTS
  Consoles,      (* the consoles to run on                                  *)
  InitialFiles,  (* what earlier versions may have left on SD and NAND      *)
  MaxPresses,    (* bound on key presses, over all executions               *)
  MaxSaves       (* bound on writes to a file                               *)

(* dsi: the program runs in DSi mode; debugger: the RAM is doubled; nand:  *)
(* it was started from the console's own memory.                           *)
Console ==
  {c \in [dsi: BOOLEAN, is3ds: BOOLEAN, debugger: BOOLEAN, nand: BOOLEAN] :
     /\ c.is3ds \/ c.nand => c.dsi
     /\ ~(c.is3ds /\ c.debugger)}

ASSUME ConsolesAssumption == Consoles \subseteq Console
Media == {"sd", "nand"}

ASSUME InitialFilesAssumption ==
  \A f \in InitialFiles :
     /\ DOMAIN f = Media
     /\ \A m \in Media : f[m] = << >> \/ WellFormed(f[m])
ASSUME BoundsAssumption == MaxPresses \in Nat /\ MaxSaves \in Nat

(* The header read from slot 1: crc: headerCRC16 matches (nothing else of  *)
(* a header is looked at if it does not); self: the card is the one this   *)
(* program was started from.                                               *)
NoHeader == [crc |-> FALSE, dsi |-> FALSE, self |-> FALSE]
CardHeaders == {NoHeader} \union [crc: {TRUE}, dsi: BOOLEAN, self: BOOLEAN]

(* What LEFT, RIGHT and A can do in one frame.                             *)
Chords == {{"LEFT"}, {"RIGHT"}, {"A"}, {"LEFT", "A"}, {"RIGHT", "A"}}

VARIABLES
  pc,        (* off, load, card, menu, writing or launched                 *)
  console, sd, keyB,  (* the console, an SD card in it, B held at start    *)
  data,      (* all_saved_data                                             *)
  saveTo,    (* save_to_filepath: 0 for SD, 1 for NAND                     *)
  resetTo,   (* reset_to_defaults                                          *)
  header,    (* ndsHeader                                                  *)
  files,     (* the file on each medium; empty if there is none            *)
  target,    (* the medium being written                                   *)
  block,     (* the options the bootloader gets                            *)
  how,       (* history: what started the game                             *)
  saved,     (* history: what was last saved on each medium, if complete   *)
  presses, saves

menuVars == <<pc, console, sd, keyB, data, saveTo, resetTo, header, files, target,
          block, how, saved, presses, saves>>

MenuInit ==
  /\ pc = "off"
  /\ console \in Consoles
  /\ sd = FALSE /\ keyB = FALSE
  /\ data = Defaults /\ saveTo = 0 /\ resetTo = DEFAULT_VALUE_GENERIC
  /\ header = NoHeader
  /\ files \in InitialFiles
  /\ target = "none"
  /\ block = Defaults
  /\ how = "none"
  /\ saved = files
  /\ presses = 0 /\ saves = 0

-----------------------------------------------------------------------------
(* Start-up.                                                               *)

PowerOn ==
  /\ pc = "off" /\ pc' = "load"
  /\ sd' \in IF console.dsi THEN BOOLEAN ELSE {FALSE}
  /\ keyB' \in BOOLEAN
  /\ UNCHANGED <<console, data, saveTo, resetTo, header, files, target, block,
                 how, saved, presses, saves>>

(* Mutant: the default autoboot value is not resolved.                     *)
LoadOptions_AutobootUnset ==
  /\ pc = "load" /\ pc' = "card"
  /\ LET sdRead == sd /\ ~ReadFails(files["sd"])
         nandRead == ~sdRead /\ console.nand /\ ~ReadFails(files["nand"])
     IN /\ data' = IF sdRead THEN ReadData(files["sd"], data)
                   ELSE IF nandRead THEN ReadData(files["nand"], data)
                   ELSE Defaults
        /\ saveTo' = IF nandRead \/ (console.nand /\ ~sd) THEN 1 ELSE 0
  /\ UNCHANGED <<console, sd, keyB, resetTo, header, files, target, block, how,
                 saved, presses, saves>>

(* Mutant: the NAND is read even if the SD card had options.               *)
LoadOptions_NandWins ==
  /\ pc = "load" /\ pc' = "card"
  /\ LET sdRead == sd /\ ~ReadFails(files["sd"])
         nandRead == console.nand /\ ~ReadFails(files["nand"])
         read == IF nandRead THEN ReadData(files["nand"], data)
                 ELSE IF sdRead THEN ReadData(files["sd"], data)
                 ELSE Defaults
     IN /\ data' = IF read[L.autoboot] = DEFAULT_VALUE_GENERIC
                   THEN [read EXCEPT ![L.autoboot] = 1] ELSE read
        /\ saveTo' = IF nandRead \/ (console.nand /\ ~sd) THEN 1 ELSE 0
  /\ UNCHANGED <<console, sd, keyB, resetTo, header, files, target, block, how,
                 saved, presses, saves>>

(* SD first, then NAND; the NAND is read over what a failed SD read left.  *)
LoadOptions ==
  /\ pc = "load" /\ pc' = "card"
  /\ LET sdRead == sd /\ ~ReadFails(files["sd"])
         nandRead == ~sdRead /\ console.nand /\ ~ReadFails(files["nand"])
         read == IF sdRead THEN ReadData(files["sd"], data)
                 ELSE IF nandRead THEN ReadData(files["nand"], data)
                 ELSE Defaults
     IN /\ data' = IF read[L.autoboot] = DEFAULT_VALUE_GENERIC
                   THEN [read EXCEPT ![L.autoboot] = 1] ELSE read
        /\ saveTo' = IF nandRead \/ (console.nand /\ ~sd) THEN 1 ELSE 0
  /\ UNCHANGED <<console, sd, keyB, resetTo, header, files, target, block, how,
                 saved, presses, saves>>

(* Mutant: an option saved on a DSi is taken over on a 3DS.                *)
SetupDefaults_Any3ds(d, h) ==
  [d EXCEPT
     ![L.twl] = IF ~console.dsi THEN 0
                ELSE IF d[L.twl] = DEFAULT_VALUE_GENERIC
                     THEN IF h.dsi THEN 1 ELSE 0 ELSE d[L.twl],
     ![L.cartridge_read_type] =
        IF ~console.debugger THEN 0
        ELSE IF @ = DEFAULT_VALUE_GENERIC THEN 2 ELSE @,
     ![L.remove_debugger_monitor] = IF ~console.debugger THEN 1 ELSE @]

(* setup_defaults: what the bootloader gets for a card with header h.      *)
SetupDefaults(d, h) ==
  [d EXCEPT
     ![L.twl] = IF ~console.dsi THEN 0
                ELSE IF d[L.twl] = DEFAULT_VALUE_GENERIC
                     THEN IF h.dsi THEN 1 ELSE 0 ELSE d[L.twl],
     ![L.redirectPowerButton] = IF console.is3ds THEN 0 ELSE @,
     ![L.cartridge_read_type] =
        IF ~console.debugger THEN 0
        ELSE IF @ = DEFAULT_VALUE_GENERIC THEN 2 ELSE @,
     ![L.remove_debugger_monitor] = IF ~console.debugger THEN 1 ELSE @]

Launch(h, reason) ==
  /\ pc' = "launched"
  /\ block' = SetupDefaults(data, h)
  /\ how' = reason

(* The first look at the card: the launcher goes ahead by itself unless B  *)
(* is held, the option is off, the header is wrong or the card is its own. *)
TryAutoboot ==
  /\ pc = "card"
  /\ header' \in CardHeaders
  /\ IF ~keyB /\ data[L.autoboot] # 0 /\ header'.crc /\ ~header'.self
     THEN Launch(header', "auto")
     ELSE pc' = "menu" /\ UNCHANGED <<block, how>>
  /\ UNCHANGED <<console, sd, keyB, data, saveTo, resetTo, files, target, saved,
                 presses, saves>>

-----------------------------------------------------------------------------
(* The menu.                                                               *)

(* populate_settings_options: the saved fields this console offers.        *)
Offered ==
  {L.language, L.sleepMode}
  \union (IF console.dsi THEN {L.twl, L.runCardEngine, L.autoboot} ELSE {})
  \union (IF console.dsi /\ ~console.is3ds THEN {L.redirectPowerButton} ELSE {})
  \union (IF ~console.dsi /\ console.debugger THEN {L.runCardEngine} ELSE {})
  \union (IF console.debugger THEN {L.cartridge_read_type} ELSE {})

(* fix_data_x_val_default and fix_data_bool_val.                           *)
FixDefault(v, n) ==
  IF v < DEFAULT_VALUE_GENERIC THEN n - 1
  ELSE IF v >= n THEN DEFAULT_VALUE_GENERIC ELSE v

FixBool(v) == IF v < 0 THEN 1 ELSE IF v > 1 THEN 0 ELSE v

(* The values a field wraps around in.                                     *)
Fix(f, v) ==
  CASE f = L.twl -> FixDefault(v, 3)
    [] f = L.language -> FixDefault(v, 7)
    [] f = L.cartridge_read_type -> FixDefault(v, 2)
    [] OTHER -> FixBool(v)

(* What LEFT, RIGHT and A add to the entry at the cursor, together.        *)
Delta(keys) ==
  (IF "RIGHT" \in keys THEN 1 ELSE 0) + (IF "A" \in keys THEN 1 ELSE 0)
    - (IF "LEFT" \in keys THEN 1 ELSE 0)

Sideways(keys) == keys \intersect {"LEFT", "RIGHT"} # {}
UndoA(keys) == IF "A" \in keys THEN 1 ELSE 0

Pressed ==
  /\ pc = "menu"
  /\ presses < MaxPresses /\ presses' = presses + 1

EditField(keys) ==
  /\ Pressed
  /\ \E f \in Offered : data' = [data EXCEPT ![f] = Fix(f, @ + Delta(keys))]
  /\ UNCHANGED <<pc, console, sd, keyB, saveTo, resetTo, header, files, target,
                 block, how, saved, saves>>

(* The entry "Save default to" after a press.                              *)
SaveChoice(v, keys) ==
  LET moved == v + Delta(keys)
      fixed == IF ~Sideways(keys) THEN moved
               ELSE IF ~console.nand THEN 0
               ELSE IF ~sd THEN 1 ELSE FixBool(moved)
  IN fixed - UndoA(keys)

(* fopen(..., "wb") empties the file; it may also fail.                    *)
OpenForWrite(medium) ==
  \/ /\ saves < MaxSaves /\ saves' = saves + 1
     /\ pc' = "writing"
     /\ target' = medium
     /\ files' = [files EXCEPT ![medium] = << >>]
     /\ saved' = [saved EXCEPT ![medium] = << >>]
  \/ UNCHANGED <<pc, target, files, saved, saves>>

SaveEntry(keys) ==
  /\ console.dsi /\ Pressed
  /\ LET choice == SaveChoice(saveTo, keys)
     IN /\ saveTo' = choice
        /\ IF "A" \in keys /\ sd /\ choice = 0 THEN OpenForWrite("sd")
           ELSE IF "A" \in keys /\ console.nand /\ choice = 1
                THEN OpenForWrite("nand")
                ELSE UNCHANGED <<pc, target, files, saved, saves>>
  /\ UNCHANGED <<console, sd, keyB, data, resetTo, header, block, how>>

(* fwrite and fclose.  The words fit into one sector: they reach a full    *)
(* medium not at all, and neither result is looked at.                     *)
FinishWrite ==
  /\ pc = "writing" /\ pc' = "menu"
  /\ target' = "none"
  /\ data' = [data EXCEPT ![L.version] = SAVED_VERSION]
  /\ \/ /\ files' = [files EXCEPT ![target] = data']
        /\ saved' = [saved EXCEPT ![target] = data]
     \/ UNCHANGED <<files, saved>>
  /\ UNCHANGED <<console, sd, keyB, saveTo, resetTo, header, block, how,
                 presses, saves>>

(* reset_launch_engine_data_to_dsx: everything but language and autoboot.  *)
ResetToDsx(d, toDs) ==
  [d EXCEPT ![L.twl] = IF toDs THEN 0 ELSE 1,
            ![L.sleepMode] = 1, ![L.runCardEngine] = 0,
            ![L.redirectPowerButton] = 0,
            ![L.cartridge_read_type] = DEFAULT_VALUE_GENERIC,
            ![L.remove_debugger_monitor] = 0]

ResetEntry(keys) ==
  /\ Pressed
  /\ LET moved == resetTo + Delta(keys)
         fixed == IF ~Sideways(keys) THEN moved
                  ELSE IF ~console.dsi THEN DEFAULT_VALUE_GENERIC
                  ELSE FixDefault(moved, 2)
         choice == fixed - UndoA(keys)
     IN /\ resetTo' = choice
        /\ data' = IF "A" \notin keys THEN data
                   ELSE IF choice = 0 THEN ResetToDsx(data, TRUE)
                   ELSE IF choice = 1 THEN ResetToDsx(data, FALSE)
                   ELSE Defaults
  /\ UNCHANGED <<pc, console, sd, keyB, saveTo, header, files, target, block,
                 how, saved, saves>>

(* X, Y, L or R reads the card again.                                      *)
UpdateInformation ==
  /\ pc = "menu"
  /\ header' \in CardHeaders
  /\ UNCHANGED <<pc, console, sd, keyB, data, saveTo, resetTo, files, target,
                 block, how, saved, presses, saves>>

PressStart ==
  /\ pc = "menu"
  /\ header' \in CardHeaders
  /\ IF header'.crc THEN Launch(header', "start")
     ELSE UNCHANGED <<pc, block, how>>
  /\ UNCHANGED <<console, sd, keyB, data, saveTo, resetTo, files, target, saved,
                 presses, saves>>

-----------------------------------------------------------------------------
(* The console is switched off, or the game ends: memory is gone, the      *)
(* files are as they were at that moment.                                  *)
PowerOff ==
  /\ pc # "off" /\ pc' = "off"
  /\ sd' = FALSE /\ keyB' = FALSE
  /\ data' = Defaults /\ saveTo' = 0 /\ resetTo' = DEFAULT_VALUE_GENERIC
  /\ header' = NoHeader /\ target' = "none" /\ block' = Defaults
  /\ how' = "none"
  /\ UNCHANGED <<console, files, saved, presses, saves>>

MenuNext ==
  \/ PowerOn \/ LoadOptions \/ TryAutoboot
  \/ \E keys \in Chords : EditField(keys) \/ SaveEntry(keys) \/ ResetEntry(keys)
  \/ FinishWrite \/ UpdateInformation \/ PressStart \/ PowerOff

MenuSpec == MenuInit /\ [][MenuNext]_menuVars

-----------------------------------------------------------------------------
(* Properties.                                                             *)

OptionsOK(d) ==
  /\ d \in Data
  /\ d[L.version] = SAVED_VERSION
  /\ d[L.twl] \in TwlRange
  /\ d[L.runCardEngine] \in Switch
  /\ d[L.language] \in LanguageRange
  /\ d[L.sleepMode] \in Switch
  /\ d[L.redirectPowerButton] \in Switch
  /\ d[L.cartridge_read_type] \in ReadTypeRange
  /\ d[L.remove_debugger_monitor] \in Switch
  /\ d[L.autoboot] \in Switch

(* Every option stays among the values the menu offers, whatever keys are  *)
(* pressed in one frame and whatever layout the options were read from.    *)
MenuTypeOK ==
  /\ pc \in {"off", "load", "card", "menu", "writing", "launched"}
  /\ console \in Console /\ sd \in BOOLEAN /\ keyB \in BOOLEAN
  /\ OptionsOK(data)
  /\ saveTo \in -1..1 /\ resetTo \in -2..1
  /\ header \in CardHeaders
  /\ \A m \in Media : files[m] = << >> \/ WellFormed(files[m])
  /\ target \in Media \union {"none"}
  /\ how \in {"none", "auto", "start"}

(* The best complete copy of the options: main.cpp 904-911 looks at the SD *)
(* card first.                                                             *)
BestCopy ==
  IF sd /\ saved["sd"] # << >> THEN saved["sd"]
  ELSE IF console.nand THEN saved["nand"] ELSE << >>

(* After start-up memory holds what was last saved completely, field by    *)
(* field and through every conversion; a save cut off by a power loss or a *)
(* full medium costs its own medium's copy and nothing else.               *)
LoadedAsSaved ==
  pc = "card" => IF BestCopy = << >> THEN data = Defaults
                 ELSE KeepsOptions(BestCopy, data)

(* The bootloader gets no unresolved default and nothing this console      *)
(* cannot do, although the options may come from a file another console or *)
(* another version wrote (main.cpp 384-414).                               *)
BlockFits ==
  pc = "launched" =>
    /\ header.crc
    /\ block[L.twl] \in 0..2
    /\ ~console.dsi => block[L.twl] = 0
    /\ console.dsi => block[L.twl] =
         IF data[L.twl] # DEFAULT_VALUE_GENERIC THEN data[L.twl]
         ELSE IF header.dsi THEN 1 ELSE 0
    /\ console.is3ds => block[L.redirectPowerButton] = 0
    /\ IF console.debugger THEN block[L.cartridge_read_type] \in 0..2
       ELSE /\ block[L.cartridge_read_type] = 0
            /\ block[L.remove_debugger_monitor] = 1

(* A game starts by itself only if no user asked otherwise: not with B     *)
(* held, not the launcher's own card, and not if the options were saved,   *)
(* by version 1.2 or later, with autoboot off.                             *)
NoSurpriseLaunch ==
  how = "auto" =>
    /\ ~keyB /\ ~header.self
    /\ BestCopy # << >> /\ ~EarlyVersion(BestCopy)
         => SavedAutoboot(BestCopy) # 0

(* README.md line 13: on DSi and 3DS the options can be saved, "so they're *)
(* automatically loaded for future executions": a saved autoboot option    *)
(* decides, whichever version saved it.                                    *)
AutobootAsSaved ==
  how = "auto" /\ BestCopy # << >>
    => SavedAutoboot(BestCopy) # 0
=============================================================================
