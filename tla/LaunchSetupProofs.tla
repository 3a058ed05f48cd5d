-------------------------- MODULE LaunchSetupProofs --------------------------
(***************************************************************************)
(* Proofs about LaunchSetup, for every console, card and saved settings.   *)
(* The inductive invariant says what the registers are after each step in  *)
(* terms of the parameter block and the game the bootloader has read or    *)
(* taken a header for, and that the block was made from the header of the  *)
(* card in the slot, which is the game if one was read.                    *)
(***************************************************************************)
EXTENDS LaunchSetup, TLAPS

Before == {"probe", "header", "menu", "launch"}
After == {"boot", "plant", "lock", "setScfg", "game"}

Hw1 == SetTouchAndSound(FirstHardware, load, game)
Hw2 == Plant(Hw1, load, game)
Hw3 == RemapAndLock(Hw2, load, game)
Hw4 == SetScfg9(Hw3, load, game)

(* What every step of the launcher and the bootloader preserves.           *)
Told == stage # "probe" => is_3ds = machine.is3ds
SameCard == stage \in After \cup {"launch"} =>
              header.dsi = card.unit
Block == stage \in After => load = LoadData(settings, header.dsi)
SameGame ==
  IF game.there THEN game = card /\ stage \in After \ {"boot"} ELSE ~game.sdk5
Registers ==
  /\ stage \in Before \cup {"boot"} => hw = FirstHardware
  /\ stage = "plant" => hw = Hw1
  /\ stage = "lock" => hw = Hw2
  /\ stage = "setScfg" => hw = Hw3
  /\ stage = "game" => hw = Hw4
EngineIs ==
  IF stage \in {"lock", "setScfg", "game"} THEN engine = Planted(load, game)
  ELSE engine = NoEngine

IInv == TypeOK /\ Told /\ SameCard /\ SameGame /\ Block /\ Registers /\ EngineIs

(* The settings the bootloader gets are settings.                          *)
LEMMA DefaultsType ==
  ASSUME NEW s \in Settings, NEW dsi \in BOOLEAN
  PROVE setup_defaults(s, dsi) \in Settings
<1>1. \A n \in Names : DefaultFor(n, dsi) \in -1..2
  BY DEF DefaultFor
<1>2. \A n \in Names : s[n] \in -1..2
  BY DEF Settings
<1>3. ASSUME NEW n \in Names
      PROVE (CASE n \in Twl /\ ~machine.dsi -> 0
       [] n \in Twl /\ machine.dsi /\ s[n] = Default -> DefaultFor(n, dsi)
       [] n = "redirectPowerButton" /\ is_3ds -> 0
       [] n = "cartridge_read_type" /\ ~is_on_debugger -> 0
       [] n = "cartridge_read_type" /\ is_on_debugger /\ s[n] = Default -> 2
       [] n = "remove_debugger_monitor" /\ ~is_on_debugger -> 1
       [] OTHER -> s[n]) \in -1..2
  BY <1>1, <1>2
<1> QED BY <1>3 DEF setup_defaults, Settings

LEMMA LoadTyped ==
  ASSUME NEW s \in Settings, NEW dsi \in BOOLEAN, machine \in Machine,
         is_3ds \in BOOLEAN
  PROVE LoadData(s, dsi) \in LoadType
<1> DEFINE d == setup_defaults(s, dsi)
<1>1. d \in Settings
  BY DefaultsType
<1>2. Chosen(d, dsi) \in Engines \cup {"none"}
  BY DEF Chosen, Engines
<1>3. machine.dsi \in BOOLEAN /\ machine.doubled \in BOOLEAN
  BY DEF Machine
<1>4. is_on_debugger \in BOOLEAN /\ Doubled \in BOOLEAN
  BY <1>3 DEF is_on_debugger, Doubled
<1> HIDE DEF d
<1> QED BY <1>1, <1>2, <1>3, <1>4 DEF LoadData, LoadType, d

LEMMA CheatsType ==
  ASSUME NEW e \in Engines
  PROVE cheatDataPos(e) \in Nat
<1>1. Origin[e] \in Nat /\ Origin[e] >= CHEAT_DATA_SIZE /\ CHEAT_DATA_SIZE \in Nat
  BY OriginAssumption
<1> DEFINE x == Origin[e] - CHEAT_DATA_SIZE
<1>2. x \in Nat
  BY <1>1
<1> HIDE DEF x
<1>3. x \div 32 \in Nat /\ (x \div 32) * 32 \in Nat
  BY <1>2
<1> QED BY <1>3 DEF cheatDataPos, x

LEMMA PlantedType ==
  ASSUME NEW p \in LoadType, NEW c \in Card
  PROVE Planted(p, c) \in [is: Engines \cup {"none"}, cheats: Nat]
<1>1. CASE runCardEngine(p, c)
  <2>1. p.chosen \in Engines
    BY <1>1 DEF runCardEngine, LoadType
  <2>2. cheatDataPos(p.chosen) \in Nat
    BY <2>1, CheatsType
  <2> QED BY <1>1, <2>1, <2>2 DEF Planted
<1>2. CASE ~runCardEngine(p, c)
  BY <1>2 DEF Planted, NoEngine
<1> QED BY <1>1, <1>2

(* Boolean facts that the steps on the registers rest on.                  *)
LEMMA DecisionTypes ==
  ASSUME NEW p \in LoadType, NEW c \in Card
  PROVE /\ p.dsiMode \in BOOLEAN /\ c.unit \in BOOLEAN /\ c.dsiTouch \in BOOLEAN
        /\ dsiModeConfirmed(p, c) \in BOOLEAN
        /\ extendedMemory(p, c) \in BOOLEAN
        /\ \A n \in Names : On(p, n) \in BOOLEAN
        /\ TouchMode(p) \in {"nds", "dsi"}
<1>1. p.dsiMode \in BOOLEAN /\ c.unit \in BOOLEAN /\ c.dsiTouch \in BOOLEAN
  BY DEF LoadType, Card
<1>2. dsiModeConfirmed(p, c) \in BOOLEAN
  BY <1>1 DEF dsiModeConfirmed, On
<1>3. extendedMemory(p, c) \in BOOLEAN
  BY <1>2 DEF extendedMemory
<1> QED BY <1>1, <1>2, <1>3
        DEF On, TouchMode, NDSTouchscreenMode, DSiTouchscreenMode

LEMMA TouchType ==
  ASSUME NEW h \in Hardware, NEW p \in LoadType, NEW c \in Card
  PROVE SetTouchAndSound(h, p, c) \in Hardware
<1> DEFINE keep == dsiModeConfirmed(p, c) /\ c.unit /\ c.dsiTouch
           touch == IF keep THEN h.touch ELSE TouchMode(p)
           sd == IF dsiModeConfirmed(p, c) THEN h.sd ELSE On(p, "sdaccess")
           sound == On(p, "soundFreq")
<1>1. touch \in {"launcher", "nds", "dsi"}
  BY DEF TouchMode, NDSTouchscreenMode, DSiTouchscreenMode, Hardware
<1>2. sd \in BOOLEAN /\ sound \in BOOLEAN
  BY DEF On, Hardware
<1>3. SetTouchAndSound(h, p, c) =
        IF ~p.dsiMode THEN h
        ELSE [h EXCEPT !.touch = touch, !.sd = sd, !.sound = sound]
  BY DEF SetTouchAndSound
<1> HIDE DEF touch, sd, sound
<1> QED BY <1>1, <1>2, <1>3, ZenonT(60) DEF Hardware

LEMMA PlantType ==
  ASSUME NEW h \in Hardware, NEW p \in LoadType, NEW c \in Card
  PROVE Plant(h, p, c) \in Hardware
BY DEF Plant, MapWramA, Hardware

LEMMA LockType ==
  ASSUME NEW h \in Hardware, NEW p \in LoadType, NEW c \in Card
  PROVE RemapAndLock(h, p, c) \in Hardware
<1> DEFINE mapped == IF c.sdk5 /\ c.unit /\ dsiModeConfirmed(p, c)
                     THEN [MapWramA(h, "game") EXCEPT !.sd = TRUE] ELSE h
           locked == p.dsiMode /\ ~On(p, "scfgUnlock") /\ ~dsiModeConfirmed(p, c)
<1>1. mapped \in Hardware
  BY ZenonT(60) DEF MapWramA, Hardware
<1>2. locked \in BOOLEAN
  BY DEF LoadType
<1>3. RemapAndLock(h, p, c) = [mapped EXCEPT !.locked7 = locked]
  BY DEF RemapAndLock
<1> HIDE DEF mapped, locked
<1> QED BY <1>1, <1>2, <1>3 DEF Hardware

LEMMA ScfgType ==
  ASSUME NEW h \in Hardware, NEW p \in LoadType, NEW c \in Card
  PROVE SetScfg9(h, p, c) \in Hardware
<1> DEFINE ram == IF extendedMemory(p, c) THEN h.ram ELSE 4
           vram == dsiModeConfirmed(p, c) \/ On(p, "twlvram")
           clk == On(p, "twlclk")
           locked == ~dsiModeConfirmed(p, c) /\ ~On(p, "scfgUnlock")
<1>1. ram \in {4, 8, 16, 32}
  BY DEF Hardware
<1>2. vram \in BOOLEAN /\ clk \in BOOLEAN /\ locked \in BOOLEAN
  BY DEF On
<1>3. SetScfg9(h, p, c) = IF ~p.dsiMode THEN h
                          ELSE [h EXCEPT !.ram = ram, !.vram = vram,
                                         !.clk = clk, !.locked9 = locked]
  BY DEF SetScfg9
<1> HIDE DEF ram, vram, clk, locked
<1> QED BY <1>1, <1>2, <1>3, ZenonT(60) DEF Hardware

-----------------------------------------------------------------------------
(* The invariant.                                                          *)

LEMMA CardsType == Cards \cup {NoCard} \subseteq Card
<1>1. NoCard \in Card
  BY DEF NoCard, Card
<1>2. Cards \subseteq Card
  BY CardsAssumption
<1> QED BY <1>1, <1>2

LEMMA InitIInv == Init => IInv
<1> SUFFICES ASSUME Init PROVE IInv
  OBVIOUS
<1>1. machine \in Machine /\ card \in Card /\ settings \in Settings
  BY MachinesAssumption, CardsType, SavedSettingsAssumption DEF Init
<1>2. load \in LoadType
  BY <1>1, LoadTyped DEF Init
<1>3. FirstHardware \in Hardware
  BY <1>1 DEF FirstHardware, Hardware, Doubled, Machine
<1>a. NoEngine \in [is: Engines \cup {"none"}, cheats: Nat]
  BY DEF NoEngine
<1>b. /\ is_3ds \in BOOLEAN /\ register \in {0, 16, 17} /\ game \in Card
      /\ hw = FirstHardware /\ engine = NoEngine /\ stage = "probe"
  BY CardsType DEF Init
<1>c. changes \in 0..MaxChanges /\ swaps \in 0..MaxSwaps
  BY BoundsAssumption DEF Init
<1>d. header \in [right: BOOLEAN, dsi: BOOLEAN]
  BY DEF Init, NoHeader
<1>4. TypeOK
  BY <1>a, <1>b, <1>c, <1>d, <1>1, <1>2, <1>3 DEF TypeOK, Stages
<1>5. stage = "probe" /\ hw = FirstHardware /\ engine = NoEngine
  BY DEF Init
<1>6. Told /\ SameCard /\ SameGame /\ Block
  BY <1>5 DEF Told, SameCard, SameGame, Block, After, Init, NoCard
<1>7. Registers /\ EngineIs
  BY <1>5 DEF Registers, EngineIs, Before
<1> QED BY <1>4, <1>6, <1>7 DEF IInv

(* The launcher's steps change nothing that the registers and the engine   *)
(* depend on.                                                              *)
LEMMA LauncherKeeps ==
  ASSUME IInv, stage \in Before, stage' \in Before,
         hw' = hw, engine' = engine, machine' = machine, game' = game
  PROVE Registers' /\ EngineIs' /\ Block' /\ SameGame'
<1>1. FirstHardware' = FirstHardware
  BY DEF FirstHardware, Doubled
<1>2. hw = FirstHardware /\ engine = NoEngine
  BY DEF IInv, Registers, EngineIs, Before
<1>3. ~game.there /\ ~game.sdk5
  BY DEF IInv, SameGame, Before, After
<1> QED BY <1>1, <1>2, <1>3
        DEF Registers, EngineIs, Block, SameGame, Before, After, NoEngine

LEMMA HeaderType ==
  ASSUME card \in Card, NEW good \in BOOLEAN, ReadHeader(good)
  PROVE /\ header' \in [right: BOOLEAN, dsi: BOOLEAN]
        /\ header'.right => header'.dsi = card.unit
BY DEF ReadHeader, NoHeader, Card

LEMMA NextIInv == IInv /\ [Next]_vars => IInv'
<1> SUFFICES ASSUME IInv, [Next]_vars PROVE IInv'
  OBVIOUS
<1> USE DEF IInv
<1>1. CASE Probe
  <2>1. is_3ds' \in BOOLEAN /\ is_3ds' = machine.is3ds
    BY <1>1 DEF Probe, TypeOK, Machine
  <2>2. TypeOK'
    BY <1>1, <2>1 DEF Probe, TypeOK, Stages
  <2>3. Told' /\ SameCard'
    BY <1>1, <2>1 DEF Probe, Told, SameCard, After
  <2>4. Registers' /\ EngineIs' /\ Block' /\ SameGame'
    BY <1>1, LauncherKeeps DEF Probe, Before
  <2> QED BY <2>2, <2>3, <2>4
<1>2. CASE FirstLook
  <2>1. PICK good \in BOOLEAN, autoboot \in BOOLEAN :
          /\ ReadHeader(good)
          /\ stage' = IF autoboot /\ header'.right THEN "launch" ELSE "menu"
    BY <1>2 DEF FirstLook
  <2>2. /\ header' \in [right: BOOLEAN, dsi: BOOLEAN]
        /\ header'.right => header'.dsi = card.unit
    BY <2>1, HeaderType DEF TypeOK
  <2>3. TypeOK'
    BY <1>2, <2>1, <2>2 DEF FirstLook, TypeOK, Stages
  <2>4. Told' /\ SameCard'
    BY <1>2, <2>1, <2>2 DEF FirstLook, Told, SameCard, After
  <2>5. Registers' /\ EngineIs' /\ Block' /\ SameGame'
    BY <1>2, <2>1, LauncherKeeps DEF FirstLook, Before
  <2> QED BY <2>3, <2>4, <2>5
<1>3. CASE SwapCard
  <2>1. card' \in Card
    BY <1>3, CardsType DEF SwapCard
  <2>2. TypeOK'
    BY <1>3, <2>1, BoundsAssumption DEF SwapCard, TypeOK
  <2>3. Told' /\ SameCard'
    BY <1>3 DEF SwapCard, Told, SameCard, After
  <2>4. Registers' /\ EngineIs' /\ Block' /\ SameGame'
    BY <1>3, LauncherKeeps DEF SwapCard, Before
  <2> QED BY <2>2, <2>3, <2>4
<1>4. CASE PressStart
  <2>1. PICK good \in BOOLEAN : ReadHeader(good)
    BY <1>4 DEF PressStart
  <2>2. /\ header' \in [right: BOOLEAN, dsi: BOOLEAN]
        /\ header'.right => header'.dsi = card.unit
    BY <2>1, HeaderType DEF TypeOK
  <2>3. TypeOK'
    BY <1>4, <2>2 DEF PressStart, TypeOK, Stages
  <2>4. Told' /\ SameCard'
    BY <1>4, <2>2 DEF PressStart, Told, SameCard, After
  <2>5. Registers' /\ EngineIs' /\ Block' /\ SameGame'
    BY <1>4, LauncherKeeps DEF PressStart, Before
  <2> QED BY <2>3, <2>4, <2>5
<1>5. CASE ChangeSetting
  <2>1. PICK n \in Offered : \E v \in Range(n) \ {settings[n]} :
          settings' = [settings EXCEPT ![n] = v]
    BY <1>5 DEF ChangeSetting
  <2>2. PICK v \in Range(n) : settings' = [settings EXCEPT ![n] = v]
    BY <2>1
  <2>3. v \in -1..2
    BY <2>2 DEF Range
  <2>4. settings' \in Settings
    BY <2>2, <2>3 DEF TypeOK, Settings
  <2>5. TypeOK'
    BY <1>5, <2>4, BoundsAssumption DEF ChangeSetting, TypeOK
  <2>6. Told' /\ SameCard'
    BY <1>5 DEF ChangeSetting, Told, SameCard, After
  <2>7. Registers' /\ EngineIs' /\ Block' /\ SameGame'
    BY <1>5, LauncherKeeps DEF ChangeSetting, Before
  <2> QED BY <2>5, <2>6, <2>7
<1>6. CASE runLaunchEngine
  <2>1. load' = LoadData(settings, header.dsi)
    BY <1>6 DEF runLaunchEngine
  <2>2. load' \in LoadType
    BY <2>1, LoadTyped DEF TypeOK
  <2>3. TypeOK'
    BY <1>6, <2>2 DEF runLaunchEngine, TypeOK, Stages
  <2>4. Told' /\ SameCard'
    BY <1>6 DEF runLaunchEngine, Told, SameCard, After
  <2>5. LoadData(settings, header.dsi)' = LoadData(settings, header.dsi)
    BY <1>6 DEF runLaunchEngine, LoadData, setup_defaults, is_on_debugger,
                Doubled, Chosen
  <2>6. Block'
    BY <2>1, <2>5 DEF Block
  <2>7. hw = FirstHardware /\ engine = NoEngine
    BY <1>6 DEF runLaunchEngine, Registers, EngineIs, Before
  <2>8. Registers' /\ EngineIs'
    BY <1>6, <2>7 DEF runLaunchEngine, Registers, EngineIs, Before,
                      FirstHardware, Doubled, NoEngine
  <2>9. SameGame'
    BY <1>6 DEF runLaunchEngine, SameGame, After
  <2> QED BY <2>3, <2>4, <2>6, <2>8, <2>9
<1>7. ASSUME LoadBinary \/ PlantEngine \/ LockScfg \/ SetScfg PROVE IInv'
  <2>0. /\ stage \in After /\ stage' \in After \ {"boot"}
        /\ UNCHANGED <<machine, register, is_3ds, card, header, settings,
                       load, changes, swaps>>
    BY <1>7 DEF LoadBinary, PlantEngine, LockScfg, SetScfg, After
  <2>1. FirstHardware' = FirstHardware
    BY <2>0 DEF FirstHardware, Doubled
  <2>2. Told' /\ SameCard'
    BY <2>0 DEF Told, SameCard, After
  <2>3. LoadData(settings, header.dsi)' = LoadData(settings, header.dsi)
    BY <2>0 DEF LoadData, setup_defaults, is_on_debugger, Doubled, Chosen
  <2>4. Block'
    BY <2>0, <2>3 DEF Block
  <2>5. game' \in Card /\ SameGame'
    BY <1>7, <2>0, MisreadAssumption
       DEF LoadBinary, PlantEngine, LockScfg, SetScfg, TypeOK, SameGame, After
  <2>6. hw' \in Hardware
    BY <1>7, <2>5, TouchType, PlantType, LockType, ScfgType
       DEF LoadBinary, PlantEngine, LockScfg, SetScfg, TypeOK
  <2>7. engine' \in [is: Engines \cup {"none"}, cheats: Nat]
    BY <1>7, PlantedType DEF LoadBinary, PlantEngine, LockScfg, SetScfg, TypeOK
  <2>8. stage' \in Stages
    BY <2>0 DEF After, Stages
  <2>9. TypeOK'
    BY <2>0, <2>5, <2>6, <2>7, <2>8 DEF TypeOK
  <2>10. CASE LoadBinary
    <3>1. hw = FirstHardware /\ engine = NoEngine
      BY <2>10 DEF LoadBinary, Registers, EngineIs
    <3>2. hw' = Hw1'
      BY <2>0, <2>1, <2>10, <3>1 DEF LoadBinary, Hw1
    <3>3. Registers' /\ EngineIs'
      BY <2>10, <3>1, <3>2
         DEF LoadBinary, Registers, EngineIs, Before, NoEngine
    <3> QED BY <2>2, <2>4, <2>5, <2>9, <3>3
  <2>11. ASSUME PlantEngine \/ LockScfg \/ SetScfg PROVE IInv'
    <3>1. game' = game
      BY <2>11 DEF PlantEngine, LockScfg, SetScfg
    <3>2. Hw1' = Hw1 /\ Hw2' = Hw2 /\ Hw3' = Hw3 /\ Hw4' = Hw4
      BY <2>0, <2>1, <3>1 DEF Hw1, Hw2, Hw3, Hw4
    <3>3. Planted(load, game)' = Planted(load, game)
      BY <2>0, <3>1
    <3>4. Registers'
      BY <2>11, <2>1, <3>2
         DEF Registers, Before, Hw1, Hw2, Hw3, Hw4, PlantEngine, LockScfg,
             SetScfg
    <3>5. EngineIs'
      BY <2>11, <3>3 DEF EngineIs, PlantEngine, LockScfg, SetScfg, NoEngine
    <3> QED BY <2>2, <2>4, <2>5, <2>9, <3>4, <3>5
  <2> QED BY <1>7, <2>10, <2>11
<1>8. CASE UNCHANGED vars
  BY <1>8 DEF vars, TypeOK, Told, SameCard, SameGame, Block, After,
              Registers, EngineIs, Hw1, Hw2, Hw3, Hw4, FirstHardware,
              Doubled, LoadData, setup_defaults, is_on_debugger, Chosen
<1> QED BY <1>1, <1>2, <1>3, <1>4, <1>5, <1>6, <1>7, <1>8 DEF Next

(* The registers, the block and the engine are always as said above.       *)
THEOREM Invariance == Spec => []IInv
<1> QED BY InitIInv, NextIInv, PTL DEF Spec

(* The variables have their types.                                         *)
THEOREM Typing == Spec => []TypeOK
<1>1. IInv => TypeOK
  BY DEF IInv
<1> QED BY <1>1, Invariance, PTL

(* What the bootloader is told of the console is so (arm7/main.c:36).      *)
THEOREM Seen == Spec => []MachineSeen
<1>1. IInv => MachineSeen
  <2> SUFFICES ASSUME IInv, stage \notin Before PROVE
        /\ load.is3DS = machine.is3ds
        /\ load.isOnDebugger = machine.doubled
        /\ load.dsiMode = machine.dsi
    BY DEF MachineSeen, Before
  <2>1. load = LoadData(settings, header.dsi) /\ is_3ds = machine.is3ds
    BY DEF IInv, Block, Told, TypeOK, Stages, Before, After
  <2>2. load.is3DS = is_3ds /\ load.isOnDebugger = is_on_debugger
        /\ load.dsiMode = machine.dsi
    BY <2>1 DEF LoadData
  <2>3. is_on_debugger = machine.doubled
    BY <2>1 DEF is_on_debugger, Doubled, Machine, IInv, TypeOK
  <2> QED BY <2>1, <2>2, <2>3
<1> QED BY <1>1, Invariance, PTL

(* Rounding down to 32 bytes leaves room for the second mark.              *)
LEMMA MarkBelow ==
  ASSUME NEW o \in Nat, NEW size \in Nat, size % 32 = 0, o >= size,
         o % 32 >= 4
  PROVE ((o - size) \div 32) * 32 + size + 3 < o
<1> DEFINE q == size \div 32
           r == o \div 32
<1>1. size = 32 * q /\ q \in Nat
  OBVIOUS
<1>2. o = 32 * r + (o % 32) /\ r \in Nat
  OBVIOUS
<1>3. (o - size) \div 32 = r - q
  BY <1>1, <1>2
<1>4. ((o - size) \div 32) * 32 = (32 * r) - (32 * q)
  BY <1>1, <1>2, <1>3
<1> QED BY <1>1, <1>2, <1>4

(* The marks around the cheats are not in the engine (main.arm7.c:1234).   *)
THEOREM Intact == Spec => []EngineIntact
<1>1. IInv => EngineIntact
  <2> SUFFICES ASSUME IInv, engine.is # "none"
               PROVE engine.cheats + CHEAT_DATA_SIZE + 3 < Origin[engine.is]
    BY DEF EngineIntact
  <2>1. engine = Planted(load, game) /\ runCardEngine(load, game)
    BY DEF IInv, EngineIs, Planted, NoEngine
  <2>2. load.chosen \in Engines
    BY <2>1 DEF runCardEngine, IInv, TypeOK, LoadType
  <2>3. engine.is = load.chosen /\ engine.cheats = cheatDataPos(load.chosen)
    BY <2>1 DEF Planted
  <2>4. /\ Origin[load.chosen] \in Nat /\ CHEAT_DATA_SIZE \in Nat
        /\ CHEAT_DATA_SIZE % 32 = 0 /\ Origin[load.chosen] >= CHEAT_DATA_SIZE
        /\ Origin[load.chosen] % 32 >= 4
    BY <2>2, OriginAssumption
  <2> QED BY <2>3, <2>4, MarkBelow DEF cheatDataPos
<1> QED BY <1>1, Invariance, PTL

LEMMA StepTypes ==
  ASSUME load \in LoadType, game \in Card, machine \in Machine
  PROVE /\ FirstHardware \in Hardware /\ Hw1 \in Hardware
        /\ Hw2 \in Hardware /\ Hw3 \in Hardware
<1>1. FirstHardware \in Hardware
  BY DEF FirstHardware, Hardware, Doubled, Machine
<1>2. Hw1 \in Hardware
  BY <1>1, TouchType DEF Hw1
<1>3. Hw2 \in Hardware
  BY <1>2, PlantType DEF Hw2
<1>4. Hw3 \in Hardware
  BY <1>3, LockType DEF Hw3
<1> QED BY <1>1, <1>2, <1>3, <1>4

(* At the end each register is as the block and the game have it.          *)
LEMMA AtTheGame ==
  ASSUME IInv, stage = "game"
  PROVE /\ load = LoadData(settings, card.unit)
        /\ load \in LoadType /\ game \in Card /\ machine \in Machine
        /\ IF game.there THEN game = card ELSE ~game.sdk5
        /\ load.dsiMode = machine.dsi /\ load.hasDoubleRAM = machine.doubled
        /\ load.set = setup_defaults(settings, card.unit)
        /\ load.chosen = Chosen(load.set, card.unit)
        /\ hw = Hw4 /\ engine = Planted(load, game)
<1>1. load = LoadData(settings, card.unit)
  BY DEF IInv, Block, SameCard, After
<1>2. /\ load \in LoadType /\ game \in Card /\ machine \in Machine
      /\ IF game.there THEN game = card ELSE ~game.sdk5
  BY DEF IInv, TypeOK, SameGame
<1>3. /\ load.dsiMode = machine.dsi /\ load.hasDoubleRAM = machine.doubled
      /\ load.set = setup_defaults(settings, card.unit)
      /\ load.chosen = Chosen(load.set, card.unit)
  BY <1>1 DEF LoadData, Doubled
<1>4. hw = Hw4 /\ engine = Planted(load, game)
  BY DEF IInv, Registers, EngineIs
<1> QED BY <1>1, <1>2, <1>3, <1>4

(* The fields of the registers after the four steps.                       *)
LEMMA Fields ==
  ASSUME NEW p \in LoadType, NEW c \in Card, machine \in Machine,
         p = load, c = game
  PROVE /\ Hw1 = SetTouchAndSound(FirstHardware, p, c)
        /\ ~Hw2.locked7 /\ ~Hw1.locked7
        /\ Hw2.wramA = IF runCardEngine(p, c) /\ InWramA(Origin[p.chosen])
                       THEN "engine" ELSE "low"
        /\ Hw2.ram = FirstHardware.ram
        /\ Hw2.touch = Hw1.touch /\ Hw2.sd = Hw1.sd /\ Hw2.sound = Hw1.sound
        /\ Hw3.ram = Hw2.ram /\ Hw3.touch = Hw2.touch /\ Hw3.sound = Hw2.sound
        /\ ~(c.sdk5 /\ c.unit /\ dsiModeConfirmed(p, c)) =>
              Hw3.wramA = Hw2.wramA /\ Hw3.sd = Hw2.sd
        /\ Hw3.sd \in {Hw2.sd, TRUE}
        /\ Hw3.locked7 = (/\ p.dsiMode /\ ~On(p, "scfgUnlock")
                          /\ ~dsiModeConfirmed(p, c))
<1>1. FirstHardware \in Hardware /\ ~FirstHardware.locked7
      /\ FirstHardware.wramA = "low"
  BY DEF FirstHardware, Hardware, Doubled, Machine
<1>2. Hw1 = SetTouchAndSound(FirstHardware, p, c)
  BY DEF Hw1
<1>3. Hw1 \in Hardware
  BY <1>1, <1>2, TouchType
<1>4. ~Hw1.locked7 /\ Hw1.wramA = "low" /\ Hw1.ram = FirstHardware.ram
  BY <1>1, <1>2 DEF SetTouchAndSound, Hardware
<1>5. Hw2 = IF runCardEngine(p, c) /\ InWramA(Origin[p.chosen])
            THEN [Hw1 EXCEPT !.wramA = "engine"] ELSE Hw1
  BY <1>4 DEF Hw2, Plant, MapWramA
<1>6. Hw2 \in Hardware
  BY <1>3, <1>5, PlantType DEF Hw2
<1>7. /\ ~Hw2.locked7 /\ Hw2.ram = FirstHardware.ram
      /\ Hw2.touch = Hw1.touch /\ Hw2.sd = Hw1.sd /\ Hw2.sound = Hw1.sound
      /\ Hw2.wramA = IF runCardEngine(p, c) /\ InWramA(Origin[p.chosen])
                     THEN "engine" ELSE "low"
  BY <1>3, <1>4, <1>5 DEF Hardware
<1> DEFINE locked == /\ p.dsiMode /\ ~On(p, "scfgUnlock")
                     /\ ~dsiModeConfirmed(p, c)
           again == c.sdk5 /\ c.unit /\ dsiModeConfirmed(p, c)
<1>8. Hw3 = IF again
            THEN [Hw2 EXCEPT !.wramA = "game", !.sd = TRUE, !.locked7 = locked]
            ELSE [Hw2 EXCEPT !.locked7 = locked]
  BY <1>6, <1>7 DEF Hw3, RemapAndLock, MapWramA, Hardware
<1>9. again <=> c.sdk5 /\ c.unit /\ dsiModeConfirmed(p, c)
  OBVIOUS
<1> HIDE DEF again, locked
<1>10. /\ Hw3.ram = Hw2.ram /\ Hw3.touch = Hw2.touch /\ Hw3.sound = Hw2.sound
       /\ ~again => Hw3.wramA = Hw2.wramA /\ Hw3.sd = Hw2.sd
       /\ Hw3.sd \in {Hw2.sd, TRUE}
       /\ Hw3.locked7 = locked
  BY <1>6, <1>8 DEF Hardware
<1> QED BY <1>2, <1>4, <1>7, <1>9, <1>10 DEF locked

(* The engine has its memory (launch_engine.c:50, main.arm7.c:1205).       *)
THEOREM EngineHasMemory == Spec => []EngineMapped
<1>1. IInv => EngineMapped
  <2> SUFFICES ASSUME IInv, stage = "game", engine.is # "none"
               PROVE Mapped(engine.is)
    BY DEF EngineMapped, Mapped
  <2> DEFINE p == load
             c == game
             conf == dsiModeConfirmed(p, c)
  <2>1. /\ p \in LoadType /\ c \in Card /\ machine \in Machine
        /\ p.dsiMode = machine.dsi /\ p.hasDoubleRAM = machine.doubled
        /\ p.chosen = Chosen(p.set, card.unit)
        /\ IF c.there THEN c.unit = card.unit ELSE ~c.sdk5
        /\ hw = Hw4 /\ engine = Planted(p, c)
    BY AtTheGame
  <2>2. runCardEngine(p, c) /\ engine.is = p.chosen /\ p.chosen \in Engines
    BY <2>1 DEF Planted, NoEngine, runCardEngine, LoadType
  <2>3. /\ hw.wramA = Hw3.wramA
        /\ hw.ram = IF p.dsiMode /\ ~extendedMemory(p, c) THEN 4 ELSE Hw3.ram
    <3>1. Hw3 \in Hardware
      BY <2>1, StepTypes
    <3> QED BY <2>1, <3>1 DEF Hw4, SetScfg9, Hardware
  <2>4. Hw3.ram = FirstHardware.ram
    BY <2>1, Fields
  <2>5. CASE p.chosen = "base"
    <3>1. machine.dsi /\ ~(machine.doubled /\ card.unit /\ On(p, "twlmode"))
      BY <2>1, <2>5 DEF Chosen, Doubled, On, Machine
    <3>2. c.there => ~(conf /\ c.unit)
      <4>1. conf => On(p, "twlmode")
        BY DEF dsiModeConfirmed, On
      <4> QED BY <4>1, <3>1, <2>1, <2>2 DEF runCardEngine
    <3>3. InWramA(Origin[p.chosen])
      BY <2>5, WramAAssumption DEF InWramA, Engines
    <3>4. Hw3.wramA = "engine"
      BY <2>1, <2>2, <3>2, <3>3, Fields
    <3> QED BY <2>2, <2>3, <2>5, <3>2, <3>4 DEF Mapped
  <2>6. CASE p.chosen = "isne"
    <3>1. ~machine.dsi /\ machine.doubled
      BY <2>1, <2>6 DEF Chosen, Doubled, Machine
    <3>2. FirstHardware.ram = 8
      BY <3>1 DEF FirstHardware, Doubled
    <3> QED BY <2>1, <2>2, <2>3, <2>4, <2>6, <3>1, <3>2 DEF Mapped
  <2>7. CASE p.chosen = "expRam"
    <3>1. machine.dsi /\ machine.doubled /\ card.unit /\ On(p, "twlmode")
      BY <2>1, <2>7 DEF Chosen, Doubled, On, Machine
    <3>2. c.there => extendedMemory(p, c)
      BY <2>1, <3>1 DEF extendedMemory, dsiModeConfirmed
    <3>3. FirstHardware.ram = 32
      BY <3>1 DEF FirstHardware, Doubled
    <3> QED BY <2>1, <2>2, <2>3, <2>4, <2>7, <3>1, <3>2, <3>3 DEF Mapped
  <2> QED BY <2>2, <2>5, <2>6, <2>7 DEF Engines
<1> QED BY <1>1, Invariance, PTL

(* On a DSi the block has the player's choice, or what suits the card.     *)
LEMMA AsWanted ==
  ASSUME machine.dsi, settings \in Settings, NEW n \in Twl,
         NEW p, p.set = setup_defaults(settings, card.unit)
  PROVE On(p, n) = Wanted(n)
<1>1. n \in Names
  BY DEF Twl, Names
<1>2. p.set[n] = IF settings[n] = Default THEN DefaultFor(n, card.unit)
                 ELSE settings[n]
  BY <1>1 DEF setup_defaults, Twl
<1> QED BY <1>2 DEF On, Wanted

(* What the game finds on a DSi is what was chosen (main.arm7.c:1145).     *)
THEOREM AsChosen == Spec => []HardwareAsChosen
<1>1. IInv => HardwareAsChosen
  <2> DEFINE p == load
             c == game
             conf == dsiModeConfirmed(p, c)
             mode == c.there => c = card /\ (conf <=> DsiModeWanted)
             registers ==
               IF conf
               THEN /\ ~hw.locked7 /\ ~hw.locked9 /\ hw.sd /\ hw.ram >= 16
                    /\ Wanted("twlmode")
                    /\ hw.clk = Wanted("twlclk")
                    /\ hw.sound = Wanted("soundFreq")
                    /\ hw.touch # (IF Wanted("twltouch") THEN "nds" ELSE "dsi")
               ELSE /\ hw.touch = (IF Wanted("twltouch") THEN "dsi" ELSE "nds")
                    /\ hw.sd = Wanted("sdaccess") /\ hw.clk = Wanted("twlclk")
                    /\ hw.vram = Wanted("twlvram")
                    /\ hw.sound = Wanted("soundFreq")
                    /\ hw.locked7 = ~Wanted("scfgUnlock")
                    /\ hw.locked9 = hw.locked7
  <2> SUFFICES ASSUME IInv, stage = "game", machine.dsi PROVE mode /\ registers
    BY DEF HardwareAsChosen
  <2> HIDE DEF mode, registers
  <2>1. /\ p \in LoadType /\ c \in Card /\ machine \in Machine
        /\ p.dsiMode = machine.dsi /\ hw = Hw4
        /\ p.set = setup_defaults(settings, card.unit)
        /\ c.there => c = card
    BY AtTheGame
  <2>2. settings \in Settings /\ card \in Card
    BY DEF IInv, TypeOK
  <2>3. \A n \in Twl : On(p, n) = Wanted(n)
    BY <2>1, <2>2, AsWanted
  <2>4. /\ FirstHardware \in Hardware /\ Hw1 \in Hardware
        /\ Hw2 \in Hardware /\ Hw3 \in Hardware
    BY <2>1, StepTypes
  <2>5. /\ hw.touch = Hw3.touch /\ hw.sound = Hw3.sound /\ hw.sd = Hw3.sd
        /\ hw.locked7 = Hw3.locked7 /\ hw.clk = On(p, "twlclk")
        /\ hw.vram = (conf \/ On(p, "twlvram"))
        /\ hw.locked9 = (~conf /\ ~On(p, "scfgUnlock"))
        /\ hw.ram = IF extendedMemory(p, c) THEN Hw3.ram ELSE 4
    BY <2>1, <2>4 DEF Hw4, SetScfg9, Hardware
  <2>6. /\ Hw3.touch = Hw1.touch /\ Hw3.sound = Hw1.sound
        /\ Hw3.ram = FirstHardware.ram
        /\ ~conf => Hw3.sd = Hw1.sd
        /\ Hw3.sd \in {Hw1.sd, TRUE}
        /\ Hw3.locked7 = (/\ p.dsiMode /\ ~On(p, "scfgUnlock") /\ ~conf)
        /\ Hw1 = SetTouchAndSound(FirstHardware, p, c)
    BY <2>1, Fields
  <2>7. /\ Hw1.touch = IF conf /\ c.unit /\ c.dsiTouch THEN "launcher"
                       ELSE TouchMode(p)
        /\ Hw1.sd = IF conf THEN TRUE ELSE On(p, "sdaccess")
        /\ Hw1.sound = On(p, "soundFreq")
    BY <2>1, <2>4, <2>6 DEF SetTouchAndSound, Hardware, FirstHardware
  <2>8. FirstHardware.ram >= 16
    BY <2>1 DEF FirstHardware, Doubled
  <2>9. conf => On(p, "twlmode") /\ extendedMemory(p, c)
    BY DEF dsiModeConfirmed, extendedMemory, On
  <2>10. /\ On(p, "twlmode") = Wanted("twlmode")
         /\ On(p, "twlclk") = Wanted("twlclk")
         /\ On(p, "twlvram") = Wanted("twlvram")
         /\ On(p, "twltouch") = Wanted("twltouch")
         /\ On(p, "soundFreq") = Wanted("soundFreq")
         /\ On(p, "sdaccess") = Wanted("sdaccess")
         /\ On(p, "scfgUnlock") = Wanted("scfgUnlock")
    BY <2>3 DEF Twl
  <2>11. mode
    <3> SUFFICES ASSUME c.there PROVE c = card /\ (conf <=> DsiModeWanted)
      BY DEF mode
    <3>1. c = card /\ p.dsiMode
      BY <2>1
    <3>2. conf <=> \/ p.set["twlmode"] = 2
                   \/ Wanted("twlmode") /\ card.unit
      BY <2>10, <3>1 DEF dsiModeConfirmed
    <3>3. p.set["twlmode"] = IF settings["twlmode"] = Default
                             THEN DefaultFor("twlmode", card.unit)
                             ELSE settings["twlmode"]
      BY <2>1 DEF setup_defaults, Names, Twl
    <3>4. p.set["twlmode"] = 2 <=> settings["twlmode"] = 2
      BY <3>3 DEF DefaultFor, Default
    <3>5. settings["twlmode"] = 2 => Wanted("twlmode")
      BY DEF Wanted, Default
    <3> QED BY <3>1, <3>2, <3>4, <3>5 DEF DsiModeWanted
  <2> HIDE DEF conf
  <2>12. CASE conf
    <3>1. hw.ram >= 16 /\ ~hw.locked7 /\ ~hw.locked9 /\ hw.sd
      BY <2>5, <2>6, <2>7, <2>8, <2>9, <2>12
    <3>2. hw.touch # (IF Wanted("twltouch") THEN "nds" ELSE "dsi")
      BY <2>5, <2>6, <2>7, <2>10
      DEF TouchMode, NDSTouchscreenMode, DSiTouchscreenMode
    <3> QED BY <2>5, <2>6, <2>7, <2>9, <2>10, <2>11, <2>12, <3>1,
           <3>2 DEF registers
  <2>13. CASE ~conf
    <3>1. hw.touch = (IF Wanted("twltouch") THEN "dsi" ELSE "nds")
      BY <2>5, <2>6, <2>7, <2>10, <2>13
      DEF TouchMode, NDSTouchscreenMode, DSiTouchscreenMode
    <3>2. hw.sd = Wanted("sdaccess") /\ hw.sound = Wanted("soundFreq")
      BY <2>5, <2>6, <2>7, <2>10, <2>13
    <3>3. hw.vram = Wanted("twlvram") /\ hw.clk = Wanted("twlclk")
      <4>1. On(p, "twlvram") \in BOOLEAN
        BY DEF On
      <4>2. hw.vram = On(p, "twlvram")
        BY <2>5, <2>13, <4>1
      <4> QED BY <2>5, <2>10, <4>2
    <3>4. hw.locked7 = ~Wanted("scfgUnlock") /\ hw.locked9 = hw.locked7
      <4>1. p.dsiMode
        BY <2>1
      <4> HIDE DEF p
      <4> QED BY <2>5, <2>6, <2>10, <2>13, <4>1
    <3> QED BY <2>11, <2>13, <3>1, <3>2, <3>3, <3>4 DEF registers
  <2> QED BY <2>12, <2>13
<1> QED BY <1>1, Invariance, PTL

(* Settings that are not shown: by console, and what becomes of them.      *)
LEMMA NotShown ==
  ASSUME machine \in Machine, is_3ds = machine.is3ds,
         NEW n \in Names, n \notin Offered, n # "remove_debugger_monitor"
  PROVE \/ n \in Twl /\ ~machine.dsi
        \/ n = "redirectPowerButton" /\ is_3ds
        \/ n = "cartridge_read_type" /\ ~is_on_debugger
        \/ n = "redirectPowerButton" /\ ~machine.dsi
        \/ n = "runCardEngine" /\ ~machine.dsi /\ ~Doubled
<1> DEFINE row(name, on, dbg) == [name |-> name, on |-> on, debugger |-> dbg]
<1>1. \A x \in settings_list :
         Kind \in x.on /\ (x.debugger => is_on_debugger) => x.name \in Offered
  BY DEF Offered
<1>2. ASSUME n \in Twl \cup {"runCardEngine"} PROVE Kind = "ds"
  <2>1. row(n, {"dsi", "3ds"}, FALSE) \in settings_list
    BY <1>2 DEF settings_list
  <2>2. Kind \notin {"dsi", "3ds"}
    BY <2>1, <1>1
  <2> QED BY <2>2 DEF Kind
<1>3. n \notin {"language", "sleepMode"}
  <2> SUFFICES ASSUME n \in {"language", "sleepMode"} PROVE FALSE
    OBVIOUS
  <2>1. row(n, {"ds", "dsi", "3ds"}, FALSE) \in settings_list
    BY DEF settings_list
  <2>2. Kind \notin {"ds", "dsi", "3ds"}
    BY <2>1, <1>1
  <2> QED BY <2>2 DEF Kind
<1>4. ASSUME n = "redirectPowerButton" PROVE Kind # "dsi"
  <2>1. row(n, {"dsi"}, FALSE) \in settings_list
    BY <1>4 DEF settings_list
  <2> QED BY <2>1, <1>1
<1>5. ASSUME n = "runCardEngine" PROVE Kind # "ds" \/ ~is_on_debugger
  <2>1. row(n, {"ds"}, TRUE) \in settings_list
    BY <1>5 DEF settings_list
  <2> QED BY <2>1, <1>1
<1>6. ASSUME n = "cartridge_read_type"
      PROVE Kind \notin {"ds", "dsi"} \/ ~is_on_debugger
  <2>1. row(n, {"ds", "dsi"}, TRUE) \in settings_list
    BY <1>6 DEF settings_list
  <2> QED BY <2>1, <1>1
<1>7. Kind = "ds" <=> ~machine.dsi
  BY DEF Kind
<1>8. Kind = "3ds" <=> machine.dsi /\ is_3ds
  BY DEF Kind
<1>9. Kind \in {"ds", "dsi", "3ds"} /\ (is_3ds => machine.dsi /\ ~machine.doubled)
  BY DEF Kind, Machine
<1>10. n \in Twl \/ n \in {"redirectPowerButton", "cartridge_read_type",
                          "runCardEngine"}
  BY <1>3 DEF Names, Twl
<1>11. CASE n \in Twl
  BY <1>2, <1>7, <1>11
<1>12. CASE n = "redirectPowerButton"
  BY <1>4, <1>7, <1>8, <1>9, <1>12
<1>13. CASE n = "cartridge_read_type"
  BY <1>6, <1>8, <1>9, <1>13 DEF is_on_debugger, Doubled
<1>14. CASE n = "runCardEngine"
  BY <1>2, <1>5, <1>7, <1>14 DEF is_on_debugger, Doubled
<1> QED BY <1>10, <1>11, <1>12, <1>13, <1>14

(* On a DS nothing but the engine's presence depends on the settings.      *)
LEMMA OnADs ==
  ASSUME ~machine.dsi, machine \in Machine, NEW s \in Settings, NEW t \in Settings,
         NEW g,
         \A m \in Names : m \notin {"redirectPowerButton", "runCardEngine"} =>
                             s[m] = t[m],
         Doubled => s["runCardEngine"] = t["runCardEngine"]
  PROVE Outcome(s, g) = Outcome(t, g)
<1> DEFINE p == LoadData(s, header.dsi)
           q == LoadData(t, header.dsi)
<1>1. /\ p.dsiMode = FALSE /\ q.dsiMode = FALSE
      /\ p.hasDoubleRAM = Doubled /\ q.hasDoubleRAM = Doubled
      /\ p.chosen = q.chosen /\ (p.chosen # "none" <=> Doubled)
      /\ p.chosen \in {"isne", "none"}
      /\ p.set = setup_defaults(s, header.dsi)
      /\ q.set = setup_defaults(t, header.dsi)
  BY DEF LoadData, Chosen, Doubled, Machine
<1>2. \A m \in Names : m \notin {"redirectPowerButton", "runCardEngine"} =>
         p.set[m] = q.set[m]
  BY <1>1 DEF setup_defaults
<1>3. Doubled => p.set["runCardEngine"] = q.set["runCardEngine"]
  BY <1>1 DEF setup_defaults, Names, Twl
<1> HIDE DEF p, q
<1>4. runCardEngine(p, g) <=> runCardEngine(q, g)
  BY <1>1, <1>3 DEF runCardEngine, On, dsiModeConfirmed
<1>5. dsiModeConfirmed(p, g) = FALSE /\ dsiModeConfirmed(q, g) = FALSE
  BY <1>1 DEF dsiModeConfirmed
<1>6. Planted(p, g) = Planted(q, g)
      /\ Planted(p, g).is \in {"isne", "none"}
  BY <1>1, <1>4 DEF Planted, NoEngine
<1>7. \A h : SetTouchAndSound(h, p, g) = h /\ SetTouchAndSound(h, q, g) = h
  BY <1>1 DEF SetTouchAndSound
<1>8. \A h : Plant(h, p, g) = Plant(h, q, g)
  BY <1>1, <1>4 DEF Plant
<1>9. \A h : RemapAndLock(h, p, g) = RemapAndLock(h, q, g)
  BY <1>1, <1>5 DEF RemapAndLock
<1>10. \A h : SetScfg9(h, p, g) = h /\ SetScfg9(h, q, g) = h
  BY <1>1 DEF SetScfg9
<1>11. /\ p.set["cartridge_read_type"] = q.set["cartridge_read_type"]
       /\ p.set["language"] = q.set["language"]
       /\ On(p, "sleepMode") = On(q, "sleepMode")
  BY <1>2 DEF Names, On
<1> DEFINE h1 == SetTouchAndSound(hw, p, g)
           h2 == Plant(h1, p, g)
           h3 == RemapAndLock(h2, p, g)
           k1 == SetTouchAndSound(hw, q, g)
           k2 == Plant(k1, q, g)
           k3 == RemapAndLock(k2, q, g)
<1>12. SetScfg9(h3, p, g) = SetScfg9(k3, q, g)
  <2>1. h1 = k1
    BY <1>7
  <2> HIDE DEF h1, k1
  <2>2. h2 = k2
    BY <2>1, <1>8
  <2> HIDE DEF h2, k2
  <2>3. h3 = k3
    BY <2>2, <1>9
  <2> HIDE DEF h3, k3
  <2> QED BY <2>3, <1>10
<1> HIDE DEF h3, k3
<1>13. (Planted(p, g).is \in {"base", "expRam"}) = FALSE
       /\ (Planted(q, g).is \in {"base", "expRam"}) = FALSE
  BY <1>6
<1>14. Outcome(s, g) =
         [hw |-> SetScfg9(h3, p, g), engine |-> Planted(p, g).is,
          mode |-> dsiModeConfirmed(p, g),
          reads |-> p.set["cartridge_read_type"],
          power |-> Planted(p, g).is \in {"base", "expRam"}
                      /\ On(p, "redirectPowerButton"),
          language |-> p.set["language"], sleep |-> On(p, "sleepMode")]
  BY DEF Outcome, p, h1, h2, h3
<1>15. Outcome(t, g) =
         [hw |-> SetScfg9(k3, q, g), engine |-> Planted(q, g).is,
          mode |-> dsiModeConfirmed(q, g),
          reads |-> q.set["cartridge_read_type"],
          power |-> Planted(q, g).is \in {"base", "expRam"}
                      /\ On(q, "redirectPowerButton"),
          language |-> q.set["language"], sleep |-> On(q, "sleepMode")]
  BY DEF Outcome, q, k1, k2, k3
<1>16. /\ (Planted(p, g).is \in {"base", "expRam"}
             /\ On(p, "redirectPowerButton")) = FALSE
       /\ (Planted(q, g).is \in {"base", "expRam"}
             /\ On(q, "redirectPowerButton")) = FALSE
  BY <1>13, Zenon
<1> QED BY <1>5, <1>6, <1>11, <1>12, <1>14, <1>15, <1>16, Zenon

(* No menu hides a setting that matters (main.cpp:439, main.cpp:384).      *)
THEOREM HiddenIsInert == Spec => []OffersWhatMatters
<1>1. IInv => OffersWhatMatters
  <2> SUFFICES ASSUME IInv, stage = "launch",
                      NEW g \in {card} \cup Misread,
                      NEW n \in Names, n \notin Offered,
                      n # "remove_debugger_monitor", NEW v \in Range(n)
               PROVE Outcome([settings EXCEPT ![n] = v], g)
                       = Outcome(settings, g)
    BY DEF OffersWhatMatters
  <2> DEFINE t == [settings EXCEPT ![n] = v]
  <2>1. machine \in Machine /\ is_3ds = machine.is3ds /\ settings \in Settings
    BY DEF IInv, TypeOK, Told
  <2>2. v \in -1..2
    BY DEF Range
  <2>3. t \in Settings /\ \A m \in Names : m # n => t[m] = settings[m]
    BY <2>1, <2>2 DEF Settings
  <2> HIDE DEF t
  <2>4. CASE \/ n \in Twl /\ ~machine.dsi
             \/ n = "redirectPowerButton" /\ is_3ds
             \/ n = "cartridge_read_type" /\ ~is_on_debugger
    <3>1. setup_defaults(t, header.dsi) = setup_defaults(settings, header.dsi)
      <4>1. \A m \in Names : setup_defaults(t, header.dsi)[m]
                               = setup_defaults(settings, header.dsi)[m]
        BY <2>3, <2>4 DEF setup_defaults, Twl
      <4> QED BY <4>1 DEF setup_defaults
    <3>2. LoadData(t, header.dsi) = LoadData(settings, header.dsi)
      BY <3>1 DEF LoadData
    <3>3. Outcome(t, g) = Outcome(settings, g)
      BY <3>2 DEF Outcome
    <3> QED BY <3>3 DEF t
  <2>5. CASE \/ n = "redirectPowerButton" /\ ~machine.dsi
             \/ n = "runCardEngine" /\ ~machine.dsi /\ ~Doubled
    <3>1. Outcome(t, g) = Outcome(settings, g)
      BY <2>1, <2>3, <2>5, OnADs DEF Names
    <3> QED BY <3>1 DEF t
  <2> QED BY <2>1, <2>4, <2>5, NotShown
<1> QED BY <1>1, Invariance, PTL
=============================================================================
