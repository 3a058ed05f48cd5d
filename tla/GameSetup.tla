------------------------------ MODULE GameSetup ------------------------------
(***************************************************************************)
(* What the bootloader leaves in main memory for the game: clearing it     *)
(* (arm7_resetMemory), the header, the user settings from the firmware's   *)
(* two slots, card and checksum values, and the card engine's language     *)
(* (main.arm7.c, hook.c, cardEngine.c).                                    *)
(*                                                                         *)
(* The same address leads to different memory before and after the ARM9    *)
(* sets SCFG_EXT (main.arm9.c): a game started in DS mode sees four        *)
(* megabytes over and over.  Memory is therefore modelled as it is, by     *)
(* pages of 4 KB counted from 0x02000000, and addresses lead to it through *)
(* At.  BootHandshake shows that the ARM9 serves the request once and      *)
(* before the ARM7 goes on; here it is one step.                           *)
(***************************************************************************)
EXTENDS Integers

CONSTANTS
  Languages,  (* those a console can be set to                              *)
  Chinese,    (* the one of iQue consoles                                   *)
  Default,    (* the option that leaves the language alone                  *)
  CountMod,   (* 0x80: the settings' update counter is below                *)
  MaxWrites,  (* bound: how often the user changes the settings             *)
  Setups      (* console, options and game                                  *)

(* dsi: the launcher runs in DSi mode; doubleRAM: a developer's console;   *)
(* twlCfg: the language in the DSi's own settings, as far as its menu has  *)
(* passed them on; sdk5: what the game was built with, and whether that    *)
(* can be found in it; hook: whether its interrupt table can.              *)
SetupType ==
  [dsi: BOOLEAN, doubleRAM: BOOLEAN, onDebugger: BOOLEAN,
   removeMonitor: BOOLEAN, twlMode: 0..2, language: Languages \cup {Default},
   twlCfg: Languages \cup {Default}, runCardEngine: BOOLEAN,
   dsiCapable: BOOLEAN, sdk5: BOOLEAN, params: BOOLEAN, ique: BOOLEAN,
   browser: BOOLEAN, hook: BOOLEAN]

(* Games that can run in DSi mode need that SDK, and other games built     *)
(* with it say so; the browser is a DS game.                               *)
Possible(s) ==
  /\ s.dsiCapable => s.sdk5
  /\ s.sdk5 => s.dsiCapable \/ s.params
  /\ s.browser => ~s.sdk5
  /\ ~s.dsi => s.twlCfg = Default

ASSUME GameSetupAssumption ==
  /\ Chinese \in Languages /\ Default \notin Languages
  /\ CountMod \in Nat /\ CountMod > 2 /\ MaxWrites \in Nat
  /\ Setups \subseteq {s \in SetupType : Possible(s)}

VARIABLES
  setup,
  slots,     (* the firmware's two copies of the user settings              *)
  newest,    (* the one last written completely, 0 for none                 *)
  version,   (* how often they have been written                            *)
  stage,     (* what arm7_main does next                                    *)
  visible,   (* how much main memory there is, in pages                     *)
  mem,
  language,  (* bootloader_data->language                                   *)
  extended,  (* arm9_extendedMemory                                         *)
  engine     (* the language the card engine was planted with, or NoEngine  *)

vars == <<setup, slots, newest, version, stage, visible, mem, language,
          extended, engine>>

Stages == {"off", "loadHeader", "readUserSettings", "copyInfo", "hook",
           "setScfg", "setMemoryAddress", "game"}

-----------------------------------------------------------------------------
(* Pages, and what is kept in them.                                        *)

MB4 == 1024
MB8 == 2048
MB16 == 4096

Temp == 4092            (* 0x02FFC000                                       *)
Last4 == 1023           (* 0x023FF000                                       *)
OldPage == 2047         (* DSI_INFO_BASE_ADDR                               *)
NewPage == 4095         (* DSI_INFO_BASE_ADDR_SDK5                          *)
CodePage == 986         (* 0x023DA000: the ARM9's bootloader                *)
Monitor(s) == IF s.dsi THEN MB16 + 3840 ELSE 1792

Fields == {"body", "header", "settings", "ids", "copy", "handler"}

At(page) == page % visible

Pages == {0, CodePage, Monitor([dsi |-> TRUE]), Monitor([dsi |-> FALSE])}
           \cup {page % size : page \in {Temp, OldPage, OldPage - 1, NewPage,
                                         NewPage - 1},
                               size \in {MB4, MB8, MB16}}

Left == [is |-> "left"]          (* as the launcher left it                 *)
Blank == [is |-> "blank"]
DsiHeader == [is |-> "dsiHeader"]
Stray == [is |-> "stray"]        (* the game's, with a byte overwritten     *)
NoEngine == [is |-> "none"]

(* A header with the iQue mark or not, and the mark its checksum goes with. *)
Header(ique, crc) == [is |-> "header", ique |-> ique, crc |-> crc]
Headers == {Header(i, c) : i, c \in BOOLEAN}

Settings(v, lang) == [is |-> "settings", version |-> v, language |-> lang]

Ids(crc) == [is |-> "ids", crc |-> crc]

-----------------------------------------------------------------------------
(* The firmware, which the console's own menu writes: the older slot, with *)
(* the next counter.  Without power in between it is left half written.    *)

Slot == [good: BOOLEAN, count: 0..CountMod - 1, version: 0..MaxWrites,
         language: Languages]

Older == IF newest = 1 THEN 2 ELSE 1

NextCount == IF newest = 0 THEN 0 ELSE (slots[newest].count + 1) % CountMod

WriteSettings ==
  /\ stage = "off" /\ version < MaxWrites
  /\ version' = version + 1
  /\ \E complete \in BOOLEAN, lang \in Languages :
       /\ slots' = [slots EXCEPT ![Older] =
                      [good |-> complete, count |-> NextCount,
                       version |-> version', language |-> lang]]
       /\ newest' = IF complete THEN Older ELSE newest
  /\ UNCHANGED <<setup, stage, visible, mem, language, extended, engine>>

-----------------------------------------------------------------------------
(* arm7_resetMemory.                                                       *)

(* Mutant: as if there were nothing to keep.                               *)
Cleared_Monitor(page) == page >= 4 /\ page # CodePage

(* The pages that are cleared, all but those of the cheats.                *)
Cleared(page) ==
  \/ 4 <= page /\ page < CodePage
  \/ CodePage < page /\ page < 1008
  \/ 1016 <= page /\ page < MB4
  \/ /\ ~setup.dsi /\ setup.doubleRAM
     /\ \/ MB4 <= page /\ page < 1792
        \/ setup.removeMonitor /\ 1792 <= page /\ page < 1920
        \/ 1920 <= page /\ page < MB8
  \/ setup.dsi /\ MB4 <= page /\ page < MB16
  \/ /\ setup.dsi /\ setup.doubleRAM
     /\ \/ MB16 <= page /\ page < MB16 + 3840
        \/ setup.removeMonitor /\ MB16 + 3840 <= page /\ page < MB16 + 4032
        \/ MB16 + 4032 <= page /\ page < 2 * MB16

(* Apart from the debug handler, which is put back.                        *)
ResetMemory ==
  /\ stage = "off"
  /\ stage' = "loadHeader"
  /\ mem' = [page \in Pages |-> [f \in Fields |->
               IF /\ Cleared(page)
                  /\ ~(~setup.removeMonitor /\ page = At(NewPage) /\ f = "handler")
               THEN Blank ELSE mem[page][f]]]
  /\ UNCHANGED <<setup, slots, newest, version, visible, language, extended,
                 engine>>

-----------------------------------------------------------------------------
(* Header and settings.                                                    *)

dsiModeConfirmed ==
  setup.dsi /\ (setup.twlMode = 2 \/ (setup.twlMode # 0 /\ setup.dsiCapable))

(* What findModuleParamsOffset finds or makes up.                          *)
isSdk5 == IF setup.params THEN setup.sdk5 ELSE setup.dsiCapable

base == IF isSdk5 THEN NewPage ELSE OldPage

Put(page, f, value) == [mem EXCEPT ![At(page)][f] = value]

loadHeader ==
  /\ stage = "loadHeader"
  /\ stage' = "readUserSettings"
  /\ mem' = [page \in Pages |-> [f \in Fields |->
               CASE page = At(base) /\ f = "header" ->
                      Header(setup.ique, setup.ique)
                 [] dsiModeConfirmed /\ page = At(base - 1) /\ f = "body" ->
                      DsiHeader
                 [] OTHER -> mem[page][f]]]
  /\ UNCHANGED <<setup, slots, newest, version, visible, language, extended,
                 engine>>

(* Mutant: the higher counter is the newer one.                            *)
CurrentSlot_Higher ==
  CASE slots[1].good /\ slots[2].good ->
         IF slots[2].count > slots[1].count THEN 2 ELSE 1
    [] slots[2].good /\ ~slots[1].good -> 2
    [] slots[1].good /\ ~slots[2].good -> 1
    [] OTHER -> 0

CurrentSlot ==
  CASE slots[1].good /\ slots[2].good ->
         IF slots[2].count = (slots[1].count + 1) % CountMod THEN 2 ELSE 1
    [] slots[2].good /\ ~slots[1].good -> 2
    [] slots[1].good /\ ~slots[2].good -> 1
    [] OTHER -> 0

(* The DSi's own language is a substitute for the option.                  *)
ChosenLanguage ==
  IF language = Default THEN setup.twlCfg ELSE language

(* A game for iQue consoles gets its mark removed on others.               *)
readUserSettings ==
  /\ stage = "readUserSettings"
  /\ stage' = "copyInfo"
  /\ IF CurrentSlot = 0
     THEN UNCHANGED <<mem, language>>
     ELSE LET slot == slots[CurrentSlot]
              lang == IF ChosenLanguage \in Languages THEN ChosenLanguage
                      ELSE slot.language
              header == mem[At(base)]["header"]
          IN /\ language' = ChosenLanguage
             /\ mem' = [mem EXCEPT ![At(base)] =
                   [@ EXCEPT !["settings"] = Settings(slot.version, lang),
                             !["header"] = IF lang # Chinese /\ header.ique
                                           THEN Header(FALSE, FALSE)
                                           ELSE header]]
  /\ UNCHANGED <<setup, slots, newest, version, visible, extended, engine>>

(* Where the game will see only four megabytes, what it needs is copied to *)
(* where it will find it.                                                  *)
CopyInfo ==
  /\ stage = "copyInfo"
  /\ stage' = "hook"
  /\ mem' = IF dsiModeConfirmed \/ (setup.dsi /\ setup.browser) THEN mem
            ELSE [mem EXCEPT ![Last4] = mem[At(base)],
                             ![At(OldPage)] = mem[At(base)]]
  /\ extended' = \/ dsiModeConfirmed
                 \/ setup.dsi /\ setup.browser
                 \/ setup.dsi /\ ~setup.removeMonitor /\ setup.onDebugger
  /\ UNCHANGED <<setup, slots, newest, version, visible, language, engine>>

-----------------------------------------------------------------------------
(* The card engine, the memory's size, and the rest.                       *)

(* Not without memory of its own, nor without a table to hook into.        *)
runCardEngine ==
  /\ setup.runCardEngine /\ setup.hook
  /\ setup.dsi \/ setup.doubleRAM
  /\ ~(dsiModeConfirmed /\ setup.dsiCapable /\ ~setup.doubleRAM)

HookCardEngine ==
  /\ stage = "hook"
  /\ stage' = "setScfg"
  /\ engine' = IF runCardEngine THEN [is |-> "engine", language |-> language]
               ELSE NoEngine
  /\ UNCHANGED <<setup, slots, newest, version, visible, mem, language,
                 extended>>

(* The ARM9's part: ARM9_SETSCFG.                                          *)
SetScfg ==
  /\ stage = "setScfg"
  /\ stage' = "setMemoryAddress"
  /\ visible' = IF setup.dsi /\ ~dsiModeConfirmed /\ ~extended THEN MB4
                ELSE visible
  /\ UNCHANGED <<setup, slots, newest, version, mem, language, extended,
                 engine>>

(* Mutant: the values go where the header was put.                         *)
setMemoryAddress_Early ==
  /\ stage = "setMemoryAddress"
  /\ stage' = "game"
  /\ mem' = [page \in Pages |-> [f \in Fields |->
               CASE page = base % MB16 /\ f = "ids" ->
                      Ids(mem[At(base)]["header"].crc)
                 [] OTHER -> mem[page][f]]]
  /\ UNCHANGED <<setup, slots, newest, version, visible, language, extended,
                 engine>>

(* The card's ID and the checksums; for some games a copy of the header.   *)
setMemoryAddress ==
  /\ stage = "setMemoryAddress"
  /\ stage' = "game"
  /\ mem' = [page \in Pages |-> [f \in Fields |->
               CASE page = At(base) /\ f = "ids" ->
                      Ids(mem[At(base)]["header"].crc)
                 [] setup.dsiCapable /\ page = At(NewPage) /\ f = "copy" ->
                      mem[At(NewPage)]["header"]
                 [] OTHER -> mem[page][f]]]
  /\ UNCHANGED <<setup, slots, newest, version, visible, language, extended,
                 engine>>

-----------------------------------------------------------------------------
(* The game runs.                                                          *)

(* Where its library looks for all this.                                   *)
GamePage == At(IF setup.sdk5 THEN NewPage ELSE OldPage)

(* Mutant: without a look at the option.                                   *)
ChangeLanguage_Always ==
  /\ stage = "game" /\ engine # NoEngine
  /\ mem' = Put(OldPage, "settings",
                [mem[At(OldPage)]["settings"] EXCEPT !.language = engine.language])
  /\ UNCHANGED <<setup, slots, newest, version, stage, visible, language,
                 extended, engine>>

(* myIrqHandlerVBlank.                                                     *)
ChangeLanguage ==
  /\ stage = "game" /\ engine # NoEngine
  /\ engine.language \in Languages
  /\ LET there == mem[At(OldPage)]["settings"]
     IN mem' = Put(OldPage, "settings",
                   IF there.is = "settings"
                   THEN [there EXCEPT !.language = engine.language]
                   ELSE Stray)
  /\ UNCHANGED <<setup, slots, newest, version, stage, visible, language,
                 extended, engine>>

Init ==
  /\ setup \in Setups
  /\ \E count \in 0..CountMod - 1, lang \in Languages, good \in BOOLEAN :
       /\ slots = [i \in {1, 2} |->
                     [good |-> good /\ i = 1, count |-> count, version |-> 0,
                      language |-> lang]]
       /\ newest = IF good THEN 1 ELSE 0
  /\ version = 0 /\ stage = "off"
  /\ visible = IF setup.dsi THEN MB16
               ELSE IF setup.doubleRAM THEN MB8 ELSE MB4
  /\ mem = [page \in Pages |-> [f \in Fields |-> Left]]
  /\ language = setup.language
  /\ extended = FALSE
  /\ engine = NoEngine

Next ==
  \/ WriteSettings
  \/ ResetMemory \/ loadHeader \/ readUserSettings \/ CopyInfo
  \/ HookCardEngine \/ SetScfg \/ setMemoryAddress
  \/ ChangeLanguage

Spec == Init /\ [][Next]_vars

-----------------------------------------------------------------------------
(* Properties.                                                             *)

Values ==
  {Left, Blank, DsiHeader, Stray} \cup Headers
    \cup {Ids(c) : c \in BOOLEAN}
    \cup [is: {"settings"}, version: 0..MaxWrites, language: Languages]

Engines == {NoEngine} \cup [is: {"engine"}, language: Languages \cup {Default}]

(* The variables' types.                                                   *)
TypeOK ==
  /\ setup \in SetupType
  /\ slots \in [{1, 2} -> Slot] /\ newest \in 0..2 /\ version \in 0..MaxWrites
  /\ stage \in Stages /\ visible \in {MB4, MB8, MB16}
  /\ mem \in [Pages -> [Fields -> Values]]
  /\ language \in Languages \cup {Default} /\ extended \in BOOLEAN
  /\ engine \in Engines

(* The option, or else the DSi's language, or else the settings' own.      *)
Wanted ==
  CASE setup.language # Default -> setup.language
    [] setup.language = Default /\ setup.twlCfg # Default -> setup.twlCfg
    [] OTHER -> slots[newest].language

(* Wherever its counter stood and whenever the power went away, the game   *)
(* finds the settings last written completely, in the language wanted, and *)
(* finds them with the card engine at work too (my_readUserSettings).      *)
SettingsCurrent ==
  stage = "game" /\ newest # 0 =>
    mem[GamePage]["settings"] = Settings(slots[newest].version, Wanted)

(* In whatever mode it is started and however much memory it sees, the     *)
(* game finds its header where its library looks, with the checksum that   *)
(* goes with it, the same checksum in the values beside it, and what a DSi *)
(* game looks for besides.                                                 *)
GameSees ==
  stage = "game" =>
    LET header == mem[GamePage]["header"]
    IN /\ header \in Headers /\ header.crc = header.ique
       /\ header.ique => setup.ique /\ (newest = 0 \/ Wanted = Chinese)
       /\ mem[GamePage]["ids"] = Ids(header.crc)
       /\ setup.dsiCapable => mem[At(NewPage)]["copy"] = header
       /\ dsiModeConfirmed =>
            mem[At(IF setup.sdk5 THEN NewPage - 1 ELSE OldPage - 1)]["body"]
              = DsiHeader

Exists(page) ==
  page < IF setup.dsi THEN IF setup.doubleRAM THEN 2 * MB16 ELSE MB16
         ELSE visible

(* The ARM9's code, which still runs, and what the debugger needs have     *)
(* been left alone by the clearing, and nothing else has: the debugger's   *)
(* handler is where the game's processor will look for it.                 *)
LeftAlone ==
  stage = "game" =>
    /\ \A page \in Pages, f \in Fields \ {"handler"} :
         Exists(page) =>
           (mem[page][f] = Left <=>
              \/ page \in {0, CodePage}
              \/ page = Monitor(setup) /\ ~setup.removeMonitor)
    /\ setup.onDebugger /\ ~setup.removeMonitor =>
         mem[At(NewPage)]["handler"] = Left

(* main.arm7.c:326 names the place of the language: 0x11C before the       *)
(* game's header.  Where the firmware had settings for the game to find,   *)
(* nothing else is overwritten when the card engine changes the language   *)
(* in every frame (cardEngine.c:47).                                       *)
LanguageInSettings ==
  newest # 0 => \A page \in Pages : mem[page]["settings"] # Stray
=============================================================================
