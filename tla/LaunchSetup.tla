----------------------------- MODULE LaunchSetup -----------------------------
(***************************************************************************)
(* From the menu to the game, in two programs that share a parameter       *)
(* block: the launcher tells the consoles apart, offers the settings that  *)
(* suit them, reads the card's header and chooses a card engine by it      *)
(* (arm7/main.c, main.cpp, launch_engine.c); the bootloader reads the card *)
(* again, decides on the mode, sets touchscreen, sound, clocks and SD      *)
(* access, plants the engine, and locks the registers (main.arm7.c).       *)
(*                                                                         *)
(* CardReader has how a card is read, OptionsMenu the menu and its file,   *)
(* BootHandshake who does what when, and GameSetup main memory.            *)
(***************************************************************************)
EXTENDS Integers

CONSTANTS
  Machines,    (* consoles                                                  *)
  Cards,       (* what may be in the slot                                   *)
  Misread,     (* what the bootloader may take for a header when it has     *)
               (* failed to read one                                        *)
  Origin,      (* cardengine*.ld: where each of the engines is to lie       *)
  EngineSize,  (* the memory there                                          *)
  CHEAT_DATA_SIZE,
  SavedSettings,  (* the settings a file may have, or the defaults          *)
  WramA,       (* the first and the last address of WRAM-A                  *)
  MaxChanges,  (* bound: settings the player changes                        *)
  MaxSwaps     (* bound: cards the player exchanges                         *)

(* dsi: the launcher runs in DSi mode; doubled: RAM of a developer's       *)
(* console.                                                                *)
Machine == {m \in [dsi: BOOLEAN, is3ds: BOOLEAN, doubled: BOOLEAN] :
              /\ m.is3ds => m.dsi
              /\ ~(m.is3ds /\ m.doubled)}

(* unit: unitCode > 0, the game can run in DSi mode; sdk5: as the          *)
(* bootloader finds; dsiTouch: bit 0 of 0x02FFE1BF, the game sets up the   *)
(* touchscreen itself; top: the title is "TOP TF/SD DS"; hookable: there   *)
(* is a table to hook into; there: it is in the slot, or has been read.    *)
Card == [there: BOOLEAN, unit: BOOLEAN, sdk5: BOOLEAN, dsiTouch: BOOLEAN,
         browser: BOOLEAN, top: BOOLEAN, hookable: BOOLEAN]

NoCard == [there |-> FALSE, unit |-> FALSE, sdk5 |-> FALSE, dsiTouch |-> FALSE,
           browser |-> FALSE, top |-> FALSE, hookable |-> FALSE]

Engines == {"base", "isne", "expRam"}

ASSUME MachinesAssumption == Machines \subseteq Machine
ASSUME CardsAssumption ==
  Cards \subseteq {c \in Card : c.there /\ ~(c.browser /\ (c.unit \/ c.sdk5))}
(* Without a binary there are no module parameters, so none of SDK 5.      *)
ASSUME MisreadAssumption == Misread \subseteq {c \in Card : ~c.there /\ ~c.sdk5}
ASSUME OriginAssumption ==
  /\ Origin \in [Engines -> Nat] /\ EngineSize \in Nat
  /\ CHEAT_DATA_SIZE \in Nat /\ CHEAT_DATA_SIZE % 32 = 0
  /\ \A e \in Engines : Origin[e] >= CHEAT_DATA_SIZE /\ Origin[e] % 32 >= 4
ASSUME WramAAssumption ==
  /\ WramA.first \in Nat /\ WramA.last \in Nat
  /\ \A e \in Engines :
       (WramA.first <= Origin[e] /\ Origin[e] <= WramA.last) <=> e = "base"
ASSUME BoundsAssumption == MaxChanges \in Nat /\ MaxSwaps \in Nat

Default == -1   (* DEFAULT_VALUE_GENERIC                                    *)

Names == {"twlmode", "twlclk", "twlvram", "twltouch", "language", "soundFreq",
          "sdaccess", "scfgUnlock", "runCardEngine", "sleepMode",
          "redirectPowerButton", "cartridge_read_type",
          "remove_debugger_monitor"}

(* Those with a default of their own for DS and DSi cards.                 *)
Twl == {"twlmode", "twlclk", "twlvram", "twltouch", "soundFreq", "sdaccess",
        "scfgUnlock"}

Settings == [Names -> -1..2]

ASSUME SavedSettingsAssumption == SavedSettings \subseteq Settings

NoHeader == [right |-> FALSE, dsi |-> FALSE]

VARIABLES
  machine,
  register,  (* the power chip's register 0x80                              *)
  is_3ds,    (* what the ARM7 has found out about the console               *)
  card,      (* in the slot                                                 *)
  header,    (* ndsHeader: whether its checksum is right, unitCode > 0      *)
  settings,  (* launch_engine_data                                          *)
  stage,
  load,      (* what the bootloader is passed: settings, console and engine *)
  game,      (* the card as the bootloader has it                           *)
  hw,        (* registers and memory, see Hardware                          *)
  engine,    (* the engine planted, or "none", and the cheats' place        *)
  changes, swaps

vars == <<machine, register, is_3ds, card, header, settings, stage, load, game,
          hw, engine, changes, swaps>>

Stages == {"probe", "header", "menu", "launch", "boot", "plant", "lock",
           "setScfg", "game"}

-----------------------------------------------------------------------------
(* What console this is.                                                   *)

(* Mutant: always the same value.                                          *)
Probe_Same ==
  /\ stage = "probe" /\ stage' = "header"
  /\ LET written == IF machine.is3ds THEN register ELSE 16
     IN is_3ds' = (machine.dsi /\ written # 16)
  /\ UNCHANGED <<machine, register, card, header, settings, load, game,
                 hw, engine, changes, swaps>>

(* is_device_3ds: a 3DS does not take what is written to the register; the *)
(* value is not the one that is there.  It is put back.                    *)
Probe ==
  /\ stage = "probe" /\ stage' = "header"
  /\ LET value == IF register = 16 THEN 17 ELSE 16
         written == IF machine.is3ds THEN register ELSE value
     IN is_3ds' = (machine.dsi /\ written # value)
  /\ UNCHANGED <<machine, register, card, header, settings, load, game,
                 hw, engine, changes, swaps>>

Doubled == machine.doubled   (* isRAMDoubled()                              *)
is_on_debugger == Doubled /\ ~(machine.dsi /\ is_3ds)

-----------------------------------------------------------------------------
(* The card's header.                                                      *)

(* cartridge_read_header_data_total: a second attempt, after a reset, when *)
(* the first gave nothing.  good: that one of them succeeds.               *)
ReadHeader(good) ==
  header' = IF good /\ card.there THEN [right |-> TRUE, dsi |-> card.unit]
            ELSE NoHeader

(* The launcher goes ahead by itself, or shows its menu.                   *)
FirstLook ==
  /\ stage = "header"
  /\ \E good \in BOOLEAN, autoboot \in BOOLEAN :
       /\ ReadHeader(good)
       /\ stage' = IF autoboot /\ header'.right THEN "launch" ELSE "menu"
  /\ UNCHANGED <<machine, register, is_3ds, card, settings, load, game,
                 hw, engine, changes, swaps>>

SwapCard ==
  /\ stage = "menu" /\ swaps < MaxSwaps /\ swaps' = swaps + 1
  /\ card' \in (Cards \cup {NoCard}) \ {card}
  /\ UNCHANGED <<machine, register, is_3ds, header, settings, stage, load,
                 game, hw, engine, changes>>

(* Mutant: is_card_ready(false).                                           *)
PressStart_Stale ==
  /\ stage = "menu"
  /\ stage' = IF header.right THEN "launch" ELSE "menu"
  /\ UNCHANGED <<machine, register, is_3ds, card, header, settings, load,
                 game, hw, engine, changes, swaps>>

(* START reads the header again.                                           *)
PressStart ==
  /\ stage = "menu"
  /\ \E good \in BOOLEAN : ReadHeader(good)
  /\ stage' = IF header'.right THEN "launch" ELSE "menu"
  /\ UNCHANGED <<machine, register, is_3ds, card, settings, load, game,
                 hw, engine, changes, swaps>>

-----------------------------------------------------------------------------
(* The settings.                                                           *)

(* settings_list: the setting, the consoles its entry is for, and whether  *)
(* only a developer gets to see it.                                        *)
settings_list ==
  {[name |-> n, on |-> {"dsi", "3ds"}, debugger |-> FALSE] :
      n \in Twl \cup {"runCardEngine"}}
  \cup {[name |-> n, on |-> {"ds", "dsi", "3ds"}, debugger |-> FALSE] :
      n \in {"language", "sleepMode"}}
  \cup {[name |-> "redirectPowerButton", on |-> {"dsi"}, debugger |-> FALSE],
        [name |-> "runCardEngine", on |-> {"ds"}, debugger |-> TRUE],
        [name |-> "cartridge_read_type", on |-> {"ds", "dsi"},
         debugger |-> TRUE]}

Kind == IF ~machine.dsi THEN "ds" ELSE IF is_3ds THEN "3ds" ELSE "dsi"

(* populate_settings_options.                                              *)
Offered ==
  {x.name : x \in {y \in settings_list :
                     Kind \in y.on /\ (y.debugger => is_on_debugger)}}

Range(n) ==
  CASE n \in {"twlmode", "cartridge_read_type", "language"} -> -1..2
    [] n \in Twl \ {"twlmode"} -> -1..1
    [] OTHER -> 0..1

ChangeSetting ==
  /\ stage = "menu" /\ changes < MaxChanges /\ changes' = changes + 1
  /\ \E n \in Offered : \E v \in Range(n) \ {settings[n]} :
       settings' = [settings EXCEPT ![n] = v]
  /\ UNCHANGED <<machine, register, is_3ds, card, header, stage, load, game,
                 hw, engine, swaps>>

(* The defaults: off for a DS card; on for a DSi card, but for soundFreq.  *)
DefaultFor(n, dsi) == IF dsi /\ n # "soundFreq" THEN 1 ELSE 0

(* Mutant: a card type from a developer's file is taken over anywhere.     *)
setup_defaults_AnyType(s, dsi) ==
  [n \in Names |->
     CASE n \in Twl /\ ~machine.dsi -> 0
       [] n \in Twl /\ machine.dsi /\ s[n] = Default -> DefaultFor(n, dsi)
       [] n = "redirectPowerButton" /\ is_3ds -> 0
       [] n = "cartridge_read_type" /\ s[n] = Default -> 2
       [] n = "remove_debugger_monitor" /\ ~is_on_debugger -> 1
       [] OTHER -> s[n]]

setup_defaults(s, dsi) ==
  [n \in Names |->
     CASE n \in Twl /\ ~machine.dsi -> 0
       [] n \in Twl /\ machine.dsi /\ s[n] = Default -> DefaultFor(n, dsi)
       [] n = "redirectPowerButton" /\ is_3ds -> 0
       [] n = "cartridge_read_type" /\ ~is_on_debugger -> 0
       [] n = "cartridge_read_type" /\ is_on_debugger /\ s[n] = Default -> 2
       [] n = "remove_debugger_monitor" /\ ~is_on_debugger -> 1
       [] OTHER -> s[n]]

-----------------------------------------------------------------------------
(* The parameter block.                                                    *)

(* The engine by what the launcher knows; a DS has none but a developer's. *)
Chosen(s, dsi) ==
  CASE ~machine.dsi /\ ~Doubled -> "none"
    [] ~machine.dsi /\ Doubled -> "isne"
    [] machine.dsi /\ Doubled /\ dsi /\ s["twlmode"] # 0 -> "expRam"
    [] OTHER -> "base"

(* runLaunchEngine's load_data, from the header's unitCode.                *)
LoadData(s, dsi) ==
  LET d == setup_defaults(s, dsi)
  IN [set |-> d, dsiMode |-> machine.dsi, hasDoubleRAM |-> Doubled,
      is3DS |-> is_3ds, isOnDebugger |-> is_on_debugger,
      chosen |-> Chosen(d, dsi)]

LoadType == [set: Settings, dsiMode: BOOLEAN, hasDoubleRAM: BOOLEAN,
             is3DS: BOOLEAN, isOnDebugger: BOOLEAN,
             chosen: Engines \cup {"none"}]

runLaunchEngine ==
  /\ stage = "launch" /\ stage' = "boot"
  /\ load' = LoadData(settings, header.dsi)
  /\ UNCHANGED <<machine, register, is_3ds, card, header, settings, game,
                 hw, engine, changes, swaps>>

-----------------------------------------------------------------------------
(* The bootloader's decisions, from the block p and the card c.            *)

On(p, n) == p.set[n] # 0

dsiModeConfirmed(p, c) ==
  p.dsiMode /\ (p.set["twlmode"] = 2 \/ (On(p, "twlmode") /\ c.unit))

extendedMemory(p, c) ==
  \/ dsiModeConfirmed(p, c)
  \/ p.dsiMode /\ c.browser
  \/ p.dsiMode /\ ~On(p, "remove_debugger_monitor") /\ p.isOnDebugger

(* touch: the touchscreen's mode; sound: 47 kHz; clk: the ARM9's clock     *)
(* doubled; vram: more video memory; sd: access to the SD card; wramA:     *)
(* where WRAM-A is, at 0x03000000 as left by initMBK, at 0x037C0000 for    *)
(* the engine, or as the game's header says; ram: megabytes; locked7 and   *)
(* locked9: SCFG and MBK cannot be written any more.                       *)
Hardware == [touch: {"launcher", "nds", "dsi"}, sound: BOOLEAN, clk: BOOLEAN,
             vram: BOOLEAN, sd: BOOLEAN, wramA: {"low", "engine", "game"},
             ram: {4, 8, 16, 32}, locked7: BOOLEAN, locked9: BOOLEAN]

FirstHardware ==
  [touch |-> "launcher", sound |-> FALSE, clk |-> FALSE, vram |-> FALSE,
   sd |-> machine.dsi, wramA |-> "low",
   ram |-> CASE machine.dsi /\ Doubled -> 32
             [] machine.dsi /\ ~Doubled -> 16
             [] ~machine.dsi /\ Doubled -> 8
             [] OTHER -> 4,
   locked7 |-> FALSE, locked9 |-> FALSE]

(* The codec's registers, one after the other; what a game can tell of     *)
(* them is which protocol the touchscreen answers in afterwards.  On a     *)
(* console the first writes only the volume and the last registers, on an  *)
(* emulator the whole list.                                                *)
NDSTouchscreenMode == "nds"
DSiTouchscreenMode == "dsi"
TouchMode(p) ==
  IF On(p, "twltouch") THEN DSiTouchscreenMode ELSE NDSTouchscreenMode

(* Touchscreen, SD and sound: a DSi game that wants the touchscreen in its *)
(* mode finds it that way.                                                 *)
SetTouchAndSound(h, p, c) ==
  IF ~p.dsiMode THEN h
  ELSE [h EXCEPT
          !.touch = IF dsiModeConfirmed(p, c) /\ c.unit /\ c.dsiTouch THEN @
                    ELSE TouchMode(p),
          !.sd = IF dsiModeConfirmed(p, c) THEN @ ELSE On(p, "sdaccess"),
          !.sound = On(p, "soundFreq")]

(* runCardEngine, after all that may clear it.                             *)
runCardEngine(p, c) ==
  /\ On(p, "runCardEngine") /\ ~c.top
  /\ p.dsiMode \/ p.hasDoubleRAM
  /\ ~(dsiModeConfirmed(p, c) /\ c.unit /\ ~p.hasDoubleRAM)
  /\ p.chosen # "none"
  /\ c.hookable

(* REG_MBK6, which has no effect once SCFG is locked.                      *)
MapWramA(h, to) == IF h.locked7 THEN h ELSE [h EXCEPT !.wramA = to]

InWramA(address) == WramA.first <= address /\ address <= WramA.last

Plant(h, p, c) ==
  IF runCardEngine(p, c) /\ InWramA(Origin[p.chosen])
  THEN MapWramA(h, "engine") ELSE h

(* Mutant: without rounding down.                                          *)
cheatDataPos_Exact(e) == Origin[e] - CHEAT_DATA_SIZE

(* 32 bytes aligned, below the engine.                                     *)
cheatDataPos(e) ==
  ((Origin[e] - CHEAT_DATA_SIZE) \div 32) * 32

NoEngine == [is |-> "none", cheats |-> 0]

Planted(p, c) ==
  IF runCardEngine(p, c)
  THEN [is |-> p.chosen, cheats |-> cheatDataPos(p.chosen)] ELSE NoEngine

(* Mutant: DSi games are locked out as well.                               *)
RemapAndLock_Always(h, p, c) ==
  LET mapped == IF c.sdk5 /\ c.unit /\ dsiModeConfirmed(p, c)
                THEN [MapWramA(h, "game") EXCEPT !.sd = TRUE] ELSE h
  IN [mapped EXCEPT !.locked7 = p.dsiMode /\ ~On(p, "scfgUnlock")]

(* initMBK_dsiMode, for games that bring a map of their own, and the lock. *)
RemapAndLock(h, p, c) ==
  LET mapped == IF c.sdk5 /\ c.unit /\ dsiModeConfirmed(p, c)
                THEN [MapWramA(h, "game") EXCEPT !.sd = TRUE] ELSE h
  IN [mapped EXCEPT !.locked7 = /\ p.dsiMode /\ ~On(p, "scfgUnlock")
                                /\ ~dsiModeConfirmed(p, c)]

(* The ARM9's share, ARM9_SETSCFG.                                         *)
SetScfg9(h, p, c) ==
  IF ~p.dsiMode THEN h
  ELSE [h EXCEPT
          !.ram = IF extendedMemory(p, c) THEN @ ELSE 4,
          !.vram = dsiModeConfirmed(p, c) \/ On(p, "twlvram"),
          !.clk = On(p, "twlclk"),
          !.locked9 = ~dsiModeConfirmed(p, c) /\ ~On(p, "scfgUnlock")]

-----------------------------------------------------------------------------
(* The bootloader's steps.                                                 *)

(* When no card could be read, an error is shown (debugOutput) and the     *)
(* boot goes on with what memory holds in the header's place.              *)
LoadBinary ==
  /\ stage = "boot" /\ stage' = "plant"
  /\ \/ card.there /\ game' = card
     \/ game' \in Misread
  /\ hw' = SetTouchAndSound(hw, load, game')
  /\ UNCHANGED <<machine, register, is_3ds, card, header, settings, load,
                 engine, changes, swaps>>

PlantEngine ==
  /\ stage = "plant" /\ stage' = "lock"
  /\ hw' = Plant(hw, load, game)
  /\ engine' = Planted(load, game)
  /\ UNCHANGED <<machine, register, is_3ds, card, header, settings, load,
                 game, changes, swaps>>

LockScfg ==
  /\ stage = "lock" /\ stage' = "setScfg"
  /\ hw' = RemapAndLock(hw, load, game)
  /\ UNCHANGED <<machine, register, is_3ds, card, header, settings, load,
                 game, engine, changes, swaps>>

SetScfg ==
  /\ stage = "setScfg" /\ stage' = "game"
  /\ hw' = SetScfg9(hw, load, game)
  /\ UNCHANGED <<machine, register, is_3ds, card, header, settings, load,
                 game, engine, changes, swaps>>

Init ==
  /\ machine \in Machines /\ register \in {0, 16, 17}
  /\ is_3ds = FALSE
  /\ card \in Cards \cup {NoCard} /\ header = NoHeader
  /\ settings \in SavedSettings
  /\ stage = "probe"
  /\ load = LoadData(settings, FALSE)
  /\ game = NoCard /\ hw = FirstHardware /\ engine = NoEngine
  /\ changes = 0 /\ swaps = 0

Next ==
  \/ Probe \/ FirstLook \/ SwapCard \/ PressStart \/ ChangeSetting
  \/ runLaunchEngine \/ LoadBinary \/ PlantEngine \/ LockScfg \/ SetScfg

Spec == Init /\ [][Next]_vars

-----------------------------------------------------------------------------
(* Properties.                                                             *)

(* The variables' types.                                                   *)
TypeOK ==
  /\ machine \in Machine /\ register \in {0, 16, 17} /\ is_3ds \in BOOLEAN
  /\ card \in Card
  /\ header \in [right: BOOLEAN, dsi: BOOLEAN]
  /\ settings \in Settings /\ stage \in Stages /\ load \in LoadType
  /\ game \in Card /\ hw \in Hardware
  /\ engine \in [is: Engines \cup {"none"}, cheats: Nat]
  /\ changes \in 0..MaxChanges /\ swaps \in 0..MaxSwaps

(* The memory that belongs to each engine is there for the game's whole    *)
(* life, and the game has not been given it.  What was not read, but taken *)
(* for a game of the other mode, may find the expanded memory gone.        *)
Mapped(e) ==
  CASE e = "base" -> /\ hw.wramA = "engine"
                     /\ game.there =>
                          ~(dsiModeConfirmed(load, game) /\ game.unit)
    [] e = "isne" -> ~machine.dsi /\ hw.ram >= 8
    [] e = "expRam" -> machine.dsi /\ (game.there => hw.ram = 32)
    [] OTHER -> TRUE

(* Whatever the player chose, and whichever card was exchanged for another *)
(* before START, the engine the launcher chose is planted only where the   *)
(* mode the bootloader arrived at leaves it memory (launch_engine.c:50,    *)
(* main.arm7.c:1205).                                                      *)
EngineMapped == stage = "game" => Mapped(engine.is)

(* The two places where the end of the cheats is marked and all between    *)
(* them lie outside of the engine that was copied before.                  *)
EngineIntact ==
  engine.is # "none" =>
    LET last == engine.cheats + CHEAT_DATA_SIZE + 3
    IN last < Origin[engine.is] \/ engine.cheats >= Origin[engine.is] + EngineSize

(* What the bootloader is told of the console is so, even on a console     *)
(* whose register already holds the value written for a test.              *)
MachineSeen ==
  stage \notin {"probe", "header", "menu", "launch"} =>
    /\ load.is3DS = machine.is3ds
    /\ load.isOnDebugger = machine.doubled
    /\ load.dsiMode = machine.dsi

(* All the settings do to a game, g, that is started now.                  *)
Outcome(s, g) ==
  LET p == LoadData(s, header.dsi)
      h1 == SetTouchAndSound(hw, p, g)
      h2 == Plant(h1, p, g)
      h3 == RemapAndLock(h2, p, g)
      e == Planted(p, g)
  IN [hw |-> SetScfg9(h3, p, g), engine |-> e.is,
      mode |-> dsiModeConfirmed(p, g),
      reads |-> p.set["cartridge_read_type"],
      power |-> e.is \in {"base", "expRam"} /\ On(p, "redirectPowerButton"),
      language |-> p.set["language"], sleep |-> On(p, "sleepMode")]

(* A setting that this console's menu does not show makes no difference,   *)
(* whatever a file had for it, but remove_debugger_monitor, which no menu  *)
(* shows; nor does it when the bootloader then fails to read the card.     *)
OffersWhatMatters ==
  stage = "launch" =>
    \A g \in {card} \cup Misread :
      \A n \in Names \ (Offered \cup {"remove_debugger_monitor"}) :
        \A v \in Range(n) :
          Outcome([settings EXCEPT ![n] = v], g) = Outcome(settings, g)

(* The player's choice, or what suits the card that is started.            *)
Wanted(n) ==
  IF settings[n] = Default THEN DefaultFor(n, card.unit) # 0 ELSE settings[n] # 0

(* Any card is run in DSi mode by force, otherwise those that can be.      *)
DsiModeWanted == Wanted("twlmode") /\ (settings["twlmode"] = 2 \/ card.unit)

(* On a DSi a game in DS mode finds the touchscreen, the clock and the     *)
(* access to the SD card that were chosen for that very card, and cannot   *)
(* change them unless that was chosen too; a game in DSi mode is never     *)
(* locked out.  The card that was read gets the mode that was chosen for   *)
(* it.  When none could be read, and the boot goes on all the same         *)
(* (main.arm7.c:1064), what is taken for its header decides on the mode,   *)
(* which may be the wrong one, but the rest is as chosen for that mode.    *)
HardwareAsChosen ==
  stage = "game" /\ machine.dsi =>
    /\ game.there =>
         game = card /\ (dsiModeConfirmed(load, game) <=> DsiModeWanted)
    /\ IF dsiModeConfirmed(load, game)
       THEN /\ ~hw.locked7 /\ ~hw.locked9 /\ hw.sd /\ hw.ram >= 16
            /\ Wanted("twlmode")
            /\ hw.clk = Wanted("twlclk") /\ hw.sound = Wanted("soundFreq")
            /\ hw.touch # (IF Wanted("twltouch") THEN "nds" ELSE "dsi")
       ELSE /\ hw.touch = (IF Wanted("twltouch") THEN "dsi" ELSE "nds")
            /\ hw.sd = Wanted("sdaccess") /\ hw.clk = Wanted("twlclk")
            /\ hw.vram = Wanted("twlvram") /\ hw.sound = Wanted("soundFreq")
            /\ hw.locked7 = ~Wanted("scfgUnlock") /\ hw.locked9 = hw.locked7
=============================================================================
