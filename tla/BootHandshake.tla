--------------------------- MODULE BootHandshake ---------------------------
(***************************************************************************)
(* The two CPUs of the console from the moment the launcher leaves until   *)
(* both run the game.  The ARM7 executes the bootloader's main.arm7.c, the *)
(* ARM9 its main.arm9.c; they share one word of main RAM, arm9_stateFlag,  *)
(* a few variables beside it (the mailbox) and the console's registers.    *)
(*                                                                         *)
(* Each CPU is a program counter, one location per access to something the *)
(* other CPU can see; every volatile load or store is a step of its own.   *)
(* Work that only one CPU can see is part of the step it follows.          *)
(***************************************************************************)
EXTENDS Naturals, Sequences

CONSTANTS
  BootConfigs,  (* the parameter blocks the launcher may leave              *)
  Carts,        (* what reading the cartridge may yield                     *)
  ClearSteps,   (* ARM9 steps in the 32K clear between START and MEMCLR     *)
  MaxLag        (* of those, the most that fit between two polls by the ARM7 *)

(* bootloader_main_data_t: the fields that decide what the CPUs tell each  *)
(* other.  debugger: on a debugger whose monitor is kept.  debugPrints is  *)
(* the build switch DO_BOOTLOADER_DEBUG_PRINTS.  baseEngine: a card engine *)
(* is wanted, is not empty, and its place is in WRAM-A.                    *)
BootConfig ==
  [dsiMode: BOOLEAN, twlMode: 0..2, scfgUnlock: BOOLEAN, sdAccess: BOOLEAN,
   twlClock: BOOLEAN, boostVram: BOOLEAN, debugger: BOOLEAN,
   debugPrints: BOOLEAN, baseEngine: BOOLEAN, hasDoubleRAM: BOOLEAN]

(* What the loaded cartridge turns out to be.  After a failed read the     *)
(* header bytes are arbitrary, and moduleParams stays NULL, which isSdk5   *)
(* answers with false.  hookable: the title is not the one left alone, and *)
(* there is a table to hook the engine into.                               *)
Cart == {c \in [loadError: BOOLEAN, unitCode: BOOLEAN, sdk5: BOOLEAN,
                dsBrowser: BOOLEAN, hookable: BOOLEAN] : c.loadError => ~c.sdk5}

ASSUME BootConfigsAssumption == BootConfigs \subseteq BootConfig
ASSUME CartsAssumption == Carts \subseteq Cart
(* The ARM7 polls a handful of cycles apart; the clear is 12288 stores.    *)
ASSUME WindowAssumption ==
  /\ ClearSteps \in Nat
  /\ MaxLag \in Nat
  /\ MaxLag < ClearSteps

Commands == {"DISPERR", "SETMBK", "SETSCFG", "PRINT_MEM", "BOOTBIN"}
FlagValues == Commands \union {"BOOT", "START", "SETMBK_START", "MEMCLR", "READY"}

(* The variables of main.arm9.c that the ARM7 writes and the ARM9 reads.   *)
Mailbox ==
  [dsimode: BOOLEAN, confirmed: BOOLEAN, extendedMemory: BOOLEAN,
   boostVram: BOOLEAN, twlClock: BOOLEAN, scfgUnlock: BOOLEAN,
   isSdk5: BOOLEAN, header: BOOLEAN, address: {"none", "arm9", "arm7"}]

ClearedMailbox ==
  [dsimode |-> FALSE, confirmed |-> FALSE, extendedMemory |-> FALSE,
   boostVram |-> FALSE, twlClock |-> FALSE, scfgUnlock |-> FALSE,
   isSdk5 |-> FALSE, header |-> FALSE, address |-> "none"]

(* Main RAM keeps what the previous program left there.                    *)
StaleMailbox ==
  [dsimode |-> TRUE, confirmed |-> TRUE, extendedMemory |-> TRUE,
   boostVram |-> TRUE, twlClock |-> TRUE, scfgUnlock |-> TRUE,
   isSdk5 |-> TRUE, header |-> FALSE, address |-> "none"]

VARIABLES
  pc7, pc9,    (* where each CPU is                                        *)
  call7,       (* the ARM7's request under way: command, argument, return  *)
  flag,        (* arm9_stateFlag                                           *)
  mb,          (* the mailbox; mb.header says that ndsHeader is set        *)
  vector,      (* the word at 0x02FFFE24 the ARM9's passme loop jumps to   *)
  image,       (* the ARM9 code is in main RAM at 0x023DA000               *)
  clearLeft,   (* what is left of the ARM9's 32K clear                     *)
  lag,         (* ARM9 steps in that clear since the ARM7 last polled      *)
  boot, cart,  (* the parameter block, and the cartridge once it is read   *)
  banks,       (* the memory bank registers                                *)
  scfg7, scfg9,(* the SCFG registers of each CPU                           *)
  served       (* history: the requests the ARM9 has performed             *)

code   == <<pc7, pc9, call7>>
link   == <<flag, mb, served>>
entry  == <<vector, image>>
window == <<clearLeft, lag>>
inputs == <<boot, cart>>
hw     == <<banks, scfg7, scfg9>>
vars   == <<code, link, entry, window, inputs, hw>>

NoCall == [cmd |-> "none", arg |-> "none", ret |-> "none"]
NoCart == [loadError |-> TRUE, unitCode |-> FALSE, sdk5 |-> FALSE,
           dsBrowser |-> FALSE, hookable |-> FALSE]

Init ==
  /\ pc9 = "vector" /\ pc7 = "off" /\ call7 = NoCall
  /\ flag \in FlagValues
  /\ mb = StaleMailbox
  /\ vector = "stale" /\ image = FALSE
  /\ clearLeft = 0 /\ lag = 0
  /\ boot \in BootConfigs /\ cart = NoCart
  /\ banks = [slots |-> "launcher", windows |-> "launcher",
              protect |-> "launcher", wram |-> "launcher"]
  /\ scfg7 = [ext |-> "launcher", clk |-> "launcher", locked |-> FALSE]
  /\ scfg9 = [ext |-> "launcher", boost |-> FALSE, clk |-> "launcher",
              locked |-> FALSE]
  /\ served = << >>

Go7(from, to) == pc7 = from /\ pc7' = to
Go9(from, to) == pc9 = from /\ pc9' = to

-----------------------------------------------------------------------------
(* Predicates of the code.                                                 *)

(* dsiModeConfirmed, lines 1068-1074: twlMode 2 forces DSi mode even for a *)
(* cartridge that does not support it.                                     *)
DsiModeConfirmed(b, c) ==
  b.dsiMode /\ (b.twlMode = 2 \/ (b.twlMode # 0 /\ c.unitCode))

(* Lines 1135-1143.                                                        *)
ExtendedMemory(b, c) ==
  \/ DsiModeConfirmed(b, c)
  \/ b.dsiMode /\ (c.dsBrowser \/ b.debugger)

(* An engine is planted in WRAM-A: lines 1201-1217 and 1226.               *)
EnginePlanted(b, c) ==
  /\ b.baseEngine /\ c.hookable
  /\ b.hasDoubleRAM \/ (b.dsiMode /\ ~(DsiModeConfirmed(b, c) /\ c.unitCode))

(* Mutant: the ARM7 does not ask whether the game uses SDK 5.              *)
Arm7WantsGameBanks_AnySdk == cart.unitCode /\ mb.confirmed

(* The ARM7's condition for the game's own memory banks, line 1256.        *)
Arm7WantsGameBanks == cart.sdk5 /\ cart.unitCode /\ mb.confirmed

(* The ARM9's condition, from the mailbox and through ndsHeader: lines 383 *)
(* and 422.                                                                *)
Arm9WantsGameBanks ==
  mb.dsimode /\ mb.confirmed /\ mb.isSdk5 /\ mb.header /\ cart.unitCode

-----------------------------------------------------------------------------
(* The ARM9 in the launcher: runLaunchEngine's last lines.                 *)

(* Mutant: the loop is entered with whatever the vector held.              *)
SetLoopVector_Forgotten ==
  /\ Go9("vector", "resetArm7")
  /\ UNCHANGED <<pc7, call7, link, entry, window, inputs, hw>>

SetLoopVector ==
  /\ Go9("vector", "resetArm7")
  /\ vector' = "loop"
  /\ UNCHANGED <<pc7, call7, link, image, window, inputs, hw>>

ResetArm7 ==
  /\ Go9("resetArm7", "softReset")
  /\ pc7' = "crt0"
  /\ UNCHANGED <<call7, link, entry, window, inputs, hw>>

(* swiSoftReset jumps to the loop instruction, which jumps through the     *)
(* vector until the ARM7 points it at the bootloader's ARM9 code.          *)
FetchEntry ==
  /\ pc9 \in {"softReset", "passme"}
  /\ pc9' = IF vector = "loop" THEN "passme"
            ELSE IF vector = "start" /\ image THEN "crt0" ELSE "lost"
  /\ UNCHANGED <<pc7, call7, link, entry, window, inputs, hw>>

-----------------------------------------------------------------------------
(* The ARM7: launch_ds_crt0.s and arm7_main up to the memory reset.        *)

(* CopyMem brings the ARM9's code and its zeroed variables to main RAM.    *)
CopyArm9Image ==
  /\ Go7("crt0", "release")
  /\ image' = TRUE
  /\ flag' = "BOOT"
  /\ mb' = ClearedMailbox
  /\ UNCHANGED <<pc9, call7, served, vector, window, inputs, hw>>

ReleaseArm9 ==
  /\ Go7("release", "initMbk")
  /\ vector' = "start"
  /\ UNCHANGED <<pc9, call7, link, image, window, inputs, hw>>

InitMbk ==
  /\ Go7("initMbk", "waitArm9")
  /\ banks' = [banks EXCEPT !.windows = "default", !.protect = "open"]
  /\ UNCHANGED <<pc9, call7, link, entry, window, inputs, scfg7, scfg9>>

(* while (arm9_stateFlag < ARM9_START);                                    *)
SeeArm9Start ==
  /\ Go7("waitArm9", "dsimode")
  /\ flag # "BOOT"
  /\ UNCHANGED <<pc9, call7, link, entry, window, inputs, hw>>

SetArm9DsiMode ==
  /\ Go7("dsimode", "mbkStart")
  /\ mb' = [mb EXCEPT !.dsimode = boot.dsiMode]
  /\ UNCHANGED <<pc9, call7, flag, served, entry, window, inputs, hw>>

AskMbkStart ==
  /\ Go7("mbkStart", "waitStart")
  /\ flag' = "SETMBK_START"
  /\ UNCHANGED <<pc9, call7, mb, served, entry, window, inputs, hw>>

(* while (arm9_stateFlag != ARM9_START); one iteration.                    *)
PollStart ==
  /\ pc7 = "waitStart"
  /\ pc7' = IF flag = "START" THEN "protect" ELSE "waitStart"
  /\ lag' = 0
  /\ UNCHANGED <<pc9, call7, link, entry, clearLeft, inputs, hw>>

ProtectBanks ==
  /\ Go7("protect", "reset")
  /\ banks' = [banks EXCEPT !.protect = "arm7"]
  /\ UNCHANGED <<pc9, call7, link, entry, window, inputs, scfg7, scfg9>>

(* arm7_resetMemory clears main RAM but for the page of the ARM9's code,   *)
(* and with it the word the passme loop reads.                             *)
ResetMemory ==
  /\ Go7("reset", "load")
  /\ vector' = "cleared"
  /\ UNCHANGED <<pc9, call7, link, image, window, inputs, hw>>

-----------------------------------------------------------------------------
(* A request: wait for READY, set the argument, overwrite the flag, wait   *)
(* for READY again (debugOutput, showAddress, and arm7_main's own two).    *)

Call(cmd, arg, ret) ==
  /\ call7' = [cmd |-> cmd, arg |-> arg, ret |-> ret]
  /\ pc7' = "callWait"

(* Mutant: a request is posted without waiting for READY.                  *)
CallWait_NoWait ==
  /\ pc7 = "callWait"
  /\ pc7' = IF call7.cmd = "PRINT_MEM" THEN "callArg" ELSE "callPost"
  /\ UNCHANGED <<pc9, call7, link, entry, window, inputs, hw>>

CallWait ==
  /\ pc7 = "callWait" /\ flag = "READY"
  /\ pc7' = IF call7.cmd = "PRINT_MEM" THEN "callArg" ELSE "callPost"
  /\ UNCHANGED <<pc9, call7, link, entry, window, inputs, hw>>

CallArgument ==
  /\ Go7("callArg", "callPost")
  /\ mb' = [mb EXCEPT !.address = call7.arg]
  /\ UNCHANGED <<pc9, call7, flag, served, entry, window, inputs, hw>>

CallPost ==
  /\ Go7("callPost", "callAwait")
  /\ flag' = call7.cmd
  /\ UNCHANGED <<pc9, call7, mb, served, entry, window, inputs, hw>>

CallReturn ==
  /\ pc7 = "callAwait" /\ flag = "READY"
  /\ pc7' = call7.ret
  /\ call7' = NoCall
  /\ UNCHANGED <<pc9, link, entry, window, inputs, hw>>

-----------------------------------------------------------------------------
(* The rest of arm7_main.                                                  *)

(* A failed load is reported to the ARM9 and the boot goes on.             *)
LoadBinary ==
  /\ pc7 = "load"
  /\ \E c \in Carts :
       /\ cart' = c
       /\ IF c.loadError THEN Call("DISPERR", "none", "confirm")
          ELSE pc7' = "confirm" /\ UNCHANGED call7
  /\ UNCHANGED <<pc9, link, entry, window, boot, hw>>

ConfirmDsiMode ==
  /\ Go7("confirm", "header")
  /\ mb' = [mb EXCEPT !.confirmed = DsiModeConfirmed(boot, cart)]
  /\ UNCHANGED <<pc9, call7, flag, served, entry, window, inputs, hw>>

LoadHeader ==
  /\ Go7("header", "extMem")
  /\ mb' = [mb EXCEPT !.header = TRUE]
  /\ UNCHANGED <<pc9, call7, flag, served, entry, window, inputs, hw>>

SetExtendedMemory ==
  /\ Go7("extMem", "scfg")
  /\ mb' = [mb EXCEPT !.extendedMemory = ExtendedMemory(boot, cart)]
  /\ UNCHANGED <<pc9, call7, flag, served, entry, window, inputs, hw>>

(* A write to an SCFG register does nothing once bit 31 of EXT is clear.   *)
Write7(new) == IF scfg7.locked THEN scfg7 ELSE new
Write9(new) == IF scfg9.locked THEN scfg9 ELSE new

(* NTR mode: the SD controller is closed unless the options keep it.       *)
SetScfg7 ==
  /\ Go7("scfg", "plant")
  /\ scfg7' = IF ~boot.dsiMode \/ mb.confirmed THEN scfg7
              ELSE IF boot.sdAccess
                   THEN Write7([scfg7 EXCEPT !.clk = "ntrSd"])
                   ELSE Write7([scfg7 EXCEPT !.clk = "ntr", !.ext = "ntr"])
  /\ UNCHANGED <<pc9, call7, link, entry, window, inputs, banks, scfg9>>

(* REG_MBK6: an engine in WRAM-A gets it mapped at 0x037C0000, before it   *)
(* is copied there.  MBK9 has no say in it.                                *)
PlantEngine ==
  /\ Go7("plant", "params")
  /\ banks' = IF EnginePlanted(boot, cart) /\ ~scfg7.locked
              THEN [banks EXCEPT !.windows = "engine"] ELSE banks
  /\ UNCHANGED <<pc9, call7, link, entry, window, inputs, scfg7, scfg9>>

(* Mutant: arm9_scfgUnlock is left as the start-up code cleared it.        *)
PublishOptions_NoUnlock ==
  /\ pc7 = "params"
  /\ mb' = [mb EXCEPT !.boostVram = boot.boostVram,
                      !.twlClock = boot.twlClock,
                      !.isSdk5 = cart.sdk5]
  /\ pc7' = IF Arm7WantsGameBanks THEN "mapGame" ELSE "lock"
  /\ UNCHANGED <<pc9, call7, flag, served, entry, window, inputs, hw>>

PublishOptions ==
  /\ pc7 = "params"
  /\ mb' = [mb EXCEPT !.boostVram = boot.boostVram,
                      !.scfgUnlock = boot.scfgUnlock,
                      !.twlClock = boot.twlClock,
                      !.isSdk5 = cart.sdk5]
  /\ pc7' = IF Arm7WantsGameBanks THEN "mapGame" ELSE "lock"
  /\ UNCHANGED <<pc9, call7, flag, served, entry, window, inputs, hw>>

(* initMBK_dsiMode has no effect with the ARM7's SCFG locked.              *)
MapGameBanks ==
  /\ pc7 = "mapGame"
  /\ banks' = IF scfg7.locked THEN banks
              ELSE [banks EXCEPT !.windows = "game", !.protect = "open"]
  /\ scfg7' = Write7([scfg7 EXCEPT !.ext = "twl", !.clk = "twl"])
  /\ Call("SETMBK", "none", "protectGame")
  /\ UNCHANGED <<pc9, link, entry, window, inputs, scfg9>>

ProtectGameBanks ==
  /\ Go7("protectGame", "lock")
  /\ banks' = IF scfg7.locked THEN banks ELSE [banks EXCEPT !.protect = "game"]
  /\ UNCHANGED <<pc9, call7, link, entry, window, inputs, scfg7, scfg9>>

LockScfg7 ==
  /\ pc7 = "lock"
  /\ scfg7' = IF ~boot.scfgUnlock /\ ~mb.confirmed /\ boot.dsiMode
              THEN Write7([scfg7 EXCEPT !.locked = TRUE]) ELSE scfg7
  /\ Call("SETSCFG", "none", "memory")
  /\ UNCHANGED <<pc9, link, entry, window, inputs, banks, scfg9>>

SetMemoryAddress ==
  /\ Go7("memory", IF boot.debugPrints THEN "show9" ELSE "start")
  /\ UNCHANGED <<pc9, call7, link, entry, window, inputs, hw>>

ShowAddress(from, address, ret) ==
  /\ pc7 = from
  /\ Call("PRINT_MEM", address, ret)
  /\ UNCHANGED <<pc9, link, entry, window, inputs, hw>>

(* arm7_startBinary does not wait for READY before it asks for the boot.   *)
StartBinary ==
  /\ Go7("start", "awaitBoot")
  /\ flag' = "BOOTBIN"
  /\ UNCHANGED <<pc9, call7, mb, served, entry, window, inputs, hw>>

(* Mutant: the ARM7 starts the game as soon as it has asked for the boot.  *)
SeeBootServed_NoWait ==
  /\ Go7("awaitBoot", "vblank")
  /\ UNCHANGED <<pc9, call7, link, entry, window, inputs, hw>>

SeeBootServed ==
  /\ Go7("awaitBoot", "vblank")
  /\ flag = "READY"
  /\ UNCHANGED <<pc9, call7, link, entry, window, inputs, hw>>

JumpArm7 ==
  /\ Go7("vblank", "jumped")
  /\ UNCHANGED <<pc9, call7, link, entry, window, inputs, hw>>

Arm7 ==
  \/ CopyArm9Image \/ ReleaseArm9 \/ InitMbk \/ SeeArm9Start
  \/ SetArm9DsiMode \/ AskMbkStart \/ PollStart \/ ProtectBanks
  \/ ResetMemory \/ LoadBinary \/ ConfirmDsiMode \/ LoadHeader
  \/ SetExtendedMemory \/ SetScfg7 \/ PlantEngine \/ PublishOptions
  \/ MapGameBanks \/ ProtectGameBanks \/ LockScfg7 \/ SetMemoryAddress
  \/ ShowAddress("show9", "arm9", "show7")
  \/ ShowAddress("show7", "arm7", "start")
  \/ CallWait \/ CallArgument \/ CallPost \/ CallReturn
  \/ StartBinary \/ SeeBootServed \/ JumpArm7

-----------------------------------------------------------------------------
(* The ARM9: crt0.arm9.s and arm9_main up to its service loop.             *)

(* Its own start-up code clears the variables a second time.               *)
ClearArm9Bss ==
  /\ Go9("crt0", "start")
  /\ flag' = "BOOT"
  /\ mb' = ClearedMailbox
  /\ UNCHANGED <<pc7, call7, served, entry, window, inputs, hw>>

(* Mutant: START is announced with the WRAM still the ARM9's.              *)
HandOverWram_Forgotten ==
  /\ Go9("start", "announce")
  /\ UNCHANGED <<pc7, call7, link, entry, window, inputs, hw>>

(* The shared WRAM goes to the ARM7, then the flag says so.                *)
HandOverWram ==
  /\ Go9("start", "announce")
  /\ banks' = [banks EXCEPT !.wram = "arm7"]
  /\ UNCHANGED <<pc7, call7, link, entry, window, inputs, scfg7, scfg9>>

AnnounceStart ==
  /\ Go9("announce", "waitMbk")
  /\ flag' = "START"
  /\ UNCHANGED <<pc7, call7, mb, served, entry, window, inputs, hw>>

SeeMbkStart ==
  /\ Go9("waitMbk", "mbk")
  /\ flag = "SETMBK_START"
  /\ UNCHANGED <<pc7, call7, link, entry, window, inputs, hw>>

(* The slot registers take a write only while the ARM7's MBK9 leaves them  *)
(* open.                                                                   *)
WriteSlots(value) ==
  banks' = IF banks.protect = "open" THEN [banks EXCEPT !.slots = value]
           ELSE banks

InitMbkArm9 ==
  /\ Go9("mbk", "ackMbkStart")
  /\ WriteSlots("default")
  /\ UNCHANGED <<pc7, call7, link, entry, window, inputs, scfg7, scfg9>>

(* Mutant: the clear is done before the second START, not behind it.       *)
AckMbkStart_ClearedBefore ==
  /\ Go9("ackMbkStart", "clear")
  /\ flag' = "START"
  /\ clearLeft' = 0
  /\ lag' = 0
  /\ UNCHANGED <<pc7, call7, mb, served, entry, inputs, hw>>

(* Mutant: the second START is not written.                                *)
AckMbkStart_Silent ==
  /\ Go9("ackMbkStart", "clear")
  /\ clearLeft' = ClearSteps
  /\ lag' = 0
  /\ UNCHANGED <<pc7, call7, link, entry, inputs, hw>>

(* The second START: it is over once the clear ends.                       *)
AckMbkStart ==
  /\ Go9("ackMbkStart", "clear")
  /\ flag' = "START"
  /\ clearLeft' = ClearSteps
  /\ lag' = 0
  /\ UNCHANGED <<pc7, call7, mb, served, entry, inputs, hw>>

(* Mutant: the loop bound is off by one.                                   *)
ClearTcm_OneTooMany ==
  /\ pc9 = "clear" /\ clearLeft >= 0
  /\ pc7 = "waitStart" => lag < MaxLag
  /\ clearLeft' = clearLeft - 1
  /\ lag' = IF pc7 = "waitStart" THEN lag + 1 ELSE lag
  /\ UNCHANGED <<code, link, entry, inputs, hw>>

(* A stretch of the ARM9's 32K clear.  MaxLag bounds how much of it can    *)
(* pass between two polls of the ARM7.                                     *)
ClearTcm ==
  /\ pc9 = "clear" /\ clearLeft > 0
  /\ pc7 = "waitStart" => lag < MaxLag
  /\ clearLeft' = clearLeft - 1
  /\ lag' = IF pc7 = "waitStart" THEN lag + 1 ELSE lag
  /\ UNCHANGED <<code, link, entry, inputs, hw>>

AnnounceMemClear ==
  /\ Go9("clear", "video")
  /\ clearLeft = 0
  /\ flag' = "MEMCLR"
  /\ UNCHANGED <<pc7, call7, mb, served, entry, window, inputs, hw>>

AnnounceReady ==
  /\ Go9("video", "loop")
  /\ flag' = "READY"
  /\ UNCHANGED <<pc7, call7, mb, served, entry, window, inputs, hw>>

-----------------------------------------------------------------------------
(* The service loop: four tests of the flag in a row, each a load of its   *)
(* own, so that one iteration may serve more than one request.             *)

(* Test(at, cmd, yes, no): one `if (arm9_stateFlag == cmd)'.               *)
Test(at, cmd, yes, no) ==
  /\ pc9 = at
  /\ pc9' = IF flag = cmd THEN yes ELSE no
  /\ UNCHANGED <<pc7, call7, link, entry, window, inputs, hw>>

Log(cmd) ==
  served' = Append(served, [cmd |-> cmd,
                            arg |-> IF cmd = "PRINT_MEM" THEN mb.address
                                    ELSE "none"])

(* Mutant: a branch that leaves the request in the flag.                   *)
Acknowledge_Forgotten(at, to) ==
  /\ Go9(at, to)
  /\ UNCHANGED <<pc7, call7, link, entry, window, inputs, hw>>

(* arm9_stateFlag = ARM9_READY at the end of a branch.                     *)
Acknowledge(at, to) ==
  /\ Go9(at, to)
  /\ flag' = "READY"
  /\ UNCHANGED <<pc7, call7, mb, served, entry, window, inputs, hw>>

(* arm9_errorOutput is commented out: the branch only acknowledges.        *)
DisplayError ==
  /\ Go9("error", "ackError")
  /\ Log("DISPERR")
  /\ UNCHANGED <<pc7, call7, flag, mb, entry, window, inputs, hw>>

SetMbk ==
  /\ Go9("setMbk", "ackSetMbk")
  /\ IF Arm9WantsGameBanks THEN WriteSlots("game") ELSE UNCHANGED banks
  /\ Log("SETMBK")
  /\ UNCHANGED <<pc7, call7, flag, mb, entry, window, inputs, scfg7, scfg9>>

(* Mutant: the lock is set together with the EXT register.                 *)
SetScfgExt_LockFirst ==
  /\ pc9 = "scfgExt"
  /\ pc9' = IF mb.dsimode THEN "scfgBoost" ELSE "scfgLast"
  /\ scfg9' = IF ~mb.dsimode THEN scfg9
              ELSE Write9([scfg9 EXCEPT !.boost = FALSE, !.ext =
                     IF mb.confirmed THEN "twl"
                     ELSE IF mb.extendedMemory THEN "ntrExtended" ELSE "ntr",
                     !.locked = ~mb.confirmed /\ ~mb.scfgUnlock])
  /\ UNCHANGED <<pc7, call7, link, entry, window, inputs, banks, scfg7>>

(* SETSCFG in four steps: the EXT register, the VRAM bit, the clock, and   *)
(* the lock (NTR) or the reset bit (TWL).                                  *)
SetScfgExt ==
  /\ pc9 = "scfgExt"
  /\ pc9' = IF mb.dsimode THEN "scfgBoost" ELSE "scfgLast"
  /\ scfg9' = IF ~mb.dsimode THEN scfg9
              ELSE Write9([scfg9 EXCEPT !.boost = FALSE, !.ext =
                     IF mb.confirmed THEN "twl"
                     ELSE IF mb.extendedMemory THEN "ntrExtended" ELSE "ntr"])
  /\ UNCHANGED <<pc7, call7, link, entry, window, inputs, banks, scfg7>>

SetScfgBoost ==
  /\ Go9("scfgBoost", "scfgClk")
  /\ scfg9' = IF mb.confirmed \/ ~mb.boostVram THEN scfg9
              ELSE Write9([scfg9 EXCEPT !.boost = TRUE])
  /\ UNCHANGED <<pc7, call7, link, entry, window, inputs, banks, scfg7>>

SetScfgClk ==
  /\ Go9("scfgClk", "scfgLast")
  /\ scfg9' = Write9([scfg9 EXCEPT !.clk = IF mb.twlClock THEN "133" ELSE "67"])
  /\ UNCHANGED <<pc7, call7, link, entry, window, inputs, banks, scfg7>>

SetScfgLast ==
  /\ Go9("scfgLast", "ackScfg")
  /\ scfg9' = IF mb.dsimode /\ ~mb.confirmed /\ ~mb.scfgUnlock
              THEN Write9([scfg9 EXCEPT !.locked = TRUE]) ELSE scfg9
  /\ Log("SETSCFG")
  /\ UNCHANGED <<pc7, call7, flag, mb, entry, window, inputs, banks, scfg7>>

(* memory_view_to_screen reads the address and waits for a key.            *)
PrintMemory ==
  /\ Go9("print", "ackPrint")
  /\ Log("PRINT_MEM")
  /\ UNCHANGED <<pc7, call7, flag, mb, entry, window, inputs, hw>>

(* Behind the loop: the game's WRAM setting, READY, vblank, jump.          *)
LeaveLoop ==
  /\ Go9("leave", "ackBoot")
  /\ banks' = IF Arm9WantsGameBanks THEN [banks EXCEPT !.wram = "game"]
              ELSE banks
  /\ Log("BOOTBIN")
  /\ UNCHANGED <<pc7, call7, flag, mb, entry, window, inputs, scfg7, scfg9>>

JumpArm9 ==
  /\ pc9 = "vblank"
  /\ pc9' = IF mb.header THEN "jumped" ELSE "lost"
  /\ UNCHANGED <<pc7, call7, link, entry, window, inputs, hw>>

Serve ==
  \/ Test("loop", "BOOTBIN", "leave", "ifError")
  \/ Test("ifError", "DISPERR", "error", "ifMbk")
  \/ DisplayError \/ Acknowledge("ackError", "ifMbk")
  \/ Test("ifMbk", "SETMBK", "setMbk", "ifScfg")
  \/ SetMbk \/ Acknowledge("ackSetMbk", "ifScfg")
  \/ Test("ifScfg", "SETSCFG", "scfgExt", "ifPrint")
  \/ SetScfgExt \/ SetScfgBoost \/ SetScfgClk \/ SetScfgLast
  \/ Acknowledge("ackScfg", "ifPrint")
  \/ Test("ifPrint", "PRINT_MEM", "print", "loop")
  \/ PrintMemory \/ Acknowledge("ackPrint", "loop")
  \/ LeaveLoop \/ Acknowledge("ackBoot", "vblank")

Arm9 ==
  \/ SetLoopVector \/ ResetArm7 \/ FetchEntry
  \/ ClearArm9Bss \/ HandOverWram \/ AnnounceStart \/ SeeMbkStart \/ InitMbkArm9
  \/ AckMbkStart \/ ClearTcm \/ AnnounceMemClear \/ AnnounceReady
  \/ Serve \/ JumpArm9

(* Both CPUs run the game: the bootloader has ended.                       *)
Ended ==
  /\ pc7 = "jumped" /\ pc9 = "jumped"
  /\ UNCHANGED vars

Next == Arm7 \/ Arm9 \/ Ended

Spec == Init /\ [][Next]_vars

(* Two CPUs with their own clocks and no interrupts: each keeps going.     *)
FairSpec == Spec /\ WF_vars(Arm7) /\ WF_vars(Arm9)

-----------------------------------------------------------------------------
(* Properties.                                                             *)

Locations7 ==
  {"off", "crt0", "release", "initMbk", "waitArm9", "dsimode", "mbkStart",
   "waitStart", "protect", "reset", "load", "confirm", "header", "extMem",
   "scfg", "plant", "params", "mapGame", "protectGame", "lock", "memory",
   "show9", "show7", "callWait", "callArg", "callPost", "callAwait", "start",
   "awaitBoot", "vblank", "jumped"}

(* Before the service loop, in it, and behind it.                          *)
Entering == {"vector", "resetArm7", "softReset", "passme", "lost"}
Starting == {"crt0", "start", "announce", "waitMbk", "mbk", "ackMbkStart",
             "clear", "video"}
Testing == {"loop", "ifError", "ifMbk", "ifScfg", "ifPrint"}
Serving == {"error", "setMbk", "scfgExt", "scfgBoost", "scfgClk", "scfgLast",
            "print", "leave"}
Acking == {"ackError", "ackSetMbk", "ackScfg", "ackPrint", "ackBoot"}
Leaving == {"vblank", "jumped"}
Locations9 == Entering \union Starting \union Testing \union Serving
              \union Acking \union Leaving

Request == [cmd: Commands, arg: {"none", "arm9", "arm7"}]

Call7 == [cmd: Commands \union {"none"}, arg: {"none", "arm9", "arm7"},
          ret: Locations7 \union {"none"}]
Banks == [slots: {"launcher", "default", "game"},
          windows: {"launcher", "default", "engine", "game"},
          protect: {"launcher", "open", "arm7", "game"},
          wram: {"launcher", "arm7", "game"}]
Scfg7 == [ext: {"launcher", "ntr", "twl"},
          clk: {"launcher", "ntr", "ntrSd", "twl"}, locked: BOOLEAN]
Scfg9 == [ext: {"launcher", "ntr", "ntrExtended", "twl"}, boost: BOOLEAN,
          clk: {"launcher", "67", "133"}, locked: BOOLEAN]

ControlOK ==
  /\ pc7 \in Locations7
  /\ pc9 \in Locations9
  /\ call7 \in Call7
  /\ flag \in FlagValues
  /\ vector \in {"stale", "loop", "start", "cleared"}
  /\ image \in BOOLEAN

WindowOK == clearLeft \in 0..ClearSteps /\ lag \in 0..ClearSteps

DataOK ==
  /\ mb \in Mailbox
  /\ boot \in BootConfig
  /\ cart \in Cart
  /\ served \in Seq(Request)

RegistersOK == banks \in Banks /\ scfg7 \in Scfg7 /\ scfg9 \in Scfg9

TypeOK == ControlOK /\ WindowOK /\ DataOK /\ RegistersOK

(* The ARM9 never runs code that is not there: it leaves the passme loop   *)
(* before the ARM7 clears the vector, not before its code is copied, and   *)
(* jumps to the game only through a header that is loaded.                 *)
NeverLost == pc9 # "lost"

(* While the ARM7 waits for the second START, the ARM9 has not gone past   *)
(* it: the value lasts only as long as the 32K clear (main.arm9.c 288-305) *)
(* and a missed one would leave both CPUs waiting for ever.                *)
StartNotMissed ==
  pc7 = "waitStart" => pc9 \in {"waitMbk", "mbk", "ackMbkStart", "clear"}

(* The ARM7 clears memory (main.arm7.c 1043) only when the ARM9 has given  *)
(* it the shared WRAM, has left the passme loop and has set the WRAM slots *)
(* that the ARM7 has just closed to it.                                    *)
ClearsOnlyItsOwn ==
  pc7 = "reset" => /\ pc9 \notin Entering
                   /\ banks.wram = "arm7"
                   /\ banks.slots = "default"

(* What the ARM9 reads while it serves is what the ARM7 decided: nothing   *)
(* was lost to the two clears of the ARM9's variables, and nothing is      *)
(* written after the request that makes the ARM9 read it.                  *)
MailboxDelivered ==
  /\ pc9 \in {"setMbk", "scfgExt", "scfgBoost", "scfgClk", "scfgLast", "leave"}
     => /\ mb.dsimode = boot.dsiMode
        /\ mb.confirmed = DsiModeConfirmed(boot, cart)
        /\ mb.extendedMemory = ExtendedMemory(boot, cart)
        /\ mb.boostVram = boot.boostVram
        /\ mb.twlClock = boot.twlClock
        /\ mb.scfgUnlock = boot.scfgUnlock
        /\ mb.isSdk5 = cart.sdk5
        /\ mb.header
  /\ pc9 = "print" => mb.address = call7.arg

GameBanks == DsiModeConfirmed(boot, cart) /\ cart.sdk5 /\ cart.unitCode

(* The requests of a boot, in order: up to the end of arm7_loadBinary, of  *)
(* the memory banks, of the SCFG registers, of the debugging prints, and   *)
(* all of them.                                                            *)
Asking(cmd) == [cmd |-> cmd, arg |-> "none"]
Printing(address) == [cmd |-> "PRINT_MEM", arg |-> address]

ForLoad == IF cart.loadError THEN <<Asking("DISPERR")>> ELSE << >>
ForBanks == ForLoad \o (IF GameBanks THEN <<Asking("SETMBK")>> ELSE << >>)
ForScfg == ForBanks \o <<Asking("SETSCFG")>>
ForPrint9 == ForScfg \o <<Printing("arm9")>>
ForPrints == IF boot.debugPrints THEN ForPrint9 \o <<Printing("arm7")>> ELSE ForScfg
AllRequests == ForPrints \o <<Asking("BOOTBIN")>>

(* Every request is performed once, in the order asked and with its own    *)
(* argument, although one word carries requests and answers both ways and  *)
(* the ARM9 tests it five times per iteration.                             *)
ServedAsAsked ==
  /\ pc9 \in Testing \union Serving \union Acking /\ served # << >>
     => served = SubSeq(AllRequests, 1, Len(served))
  /\ pc9 \in Leaving => served = AllRequests

(* Neither CPU starts the game while the other still has work to do for    *)
(* the boot.                                                               *)
JumpTogether ==
  /\ pc9 \in Leaving => pc7 \in {"awaitBoot", "vblank", "jumped"}
  /\ pc7 \in {"vblank", "jumped"} => pc9 \in Leaving

(* Neither CPU gets ahead of the other anywhere between the passme loop    *)
(* and the game: the four parts above (main.arm7.c, main.arm9.c).          *)
InStep == NeverLost /\ StartNotMissed /\ ClearsOnlyItsOwn /\ JumpTogether

(* Where the ARM7 has its windows without the game's own map.              *)
Windows == IF EnginePlanted(boot, cart) THEN "engine" ELSE "default"

(* The two CPUs decide separately (main.arm7.c 1256, main.arm9.c 383, 422) *)
(* whether the game gets its own memory banks: they agree, and the writes  *)
(* each makes reach registers the other has opened.  A game that gets none *)
(* has the default map, but for WRAM-A, which is where the engine planted  *)
(* in it wants it (main.arm7.c 1226) and nowhere else without one.         *)
BanksAgree ==
  pc9 \in Leaving =>
    banks = IF GameBanks
            THEN [slots |-> "game", windows |-> "game", protect |-> "game",
                  wram |-> "game"]
            ELSE [slots |-> "default", windows |-> Windows,
                  protect |-> "arm7", wram |-> "arm7"]

(* The game starts with the SCFG registers the options ask for: both CPUs  *)
(* locked or neither, and every write made before the lock that would have *)
(* swallowed it.                                                           *)
BootedAsConfigured ==
  LET confirmed == DsiModeConfirmed(boot, cart)
      sealed == boot.dsiMode /\ ~confirmed /\ ~boot.scfgUnlock
  IN pc9 \in Leaving =>
       /\ scfg7.locked = sealed /\ scfg9.locked = sealed
       /\ boot.dsiMode =>
            /\ scfg9.clk = IF boot.twlClock THEN "133" ELSE "67"
            /\ confirmed => scfg9.ext = "twl"
            /\ ~confirmed =>
                 /\ scfg9.boost = boot.boostVram
                 /\ scfg9.ext = IF ExtendedMemory(boot, cart)
                                THEN "ntrExtended" ELSE "ntr"
                 /\ scfg7.clk = IF boot.sdAccess THEN "ntrSd" ELSE "ntr"
       /\ ~boot.dsiMode => scfg9.ext = "launcher" /\ scfg7.ext = "launcher"

(* The handshake implements the mailbox of CommandMailbox.                 *)
Outstanding ==
  IF pc9 \in Testing \union Serving \union Acking /\ flag \in Commands
  THEN [cmd |-> flag, arg |-> IF flag = "PRINT_MEM" THEN mb.address ELSE "none"]
  ELSE NoCall

ServicePhase ==
  CASE pc9 \in Leaving -> "over"
    [] pc9 \in Acking -> "served"
    [] pc9 \in Testing \union Serving ->
         IF flag \in Commands THEN "posted" ELSE "idle"
    [] OTHER -> "closed"

Service ==
  INSTANCE CommandMailbox WITH
    Requests <- Request, NoRequest <- NoCall,
    LastRequests <- {r \in Request : r.cmd = "BOOTBIN"},
    phase <- ServicePhase, request <- Outstanding, log <- served

(* Every request the ARM7 posts is served exactly once and acknowledged    *)
(* before the next one.                                                    *)
ImplementsMailbox == Service!Spec

(* Both CPUs reach the game: no wait on the flag lasts for ever.           *)
BothBoot == <>(pc7 = "jumped" /\ pc9 = "jumped")

-----------------------------------------------------------------------------
(* The inductive invariant behind the safety properties.                   *)

Calling == {"callWait", "callArg", "callPost", "callAwait"}

(* A request returns to the one place its caller wants it to.              *)
CallOK ==
  /\ pc7 \notin Calling => call7 = NoCall
  /\ pc7 \in Calling =>
       \/ call7 = [cmd |-> "DISPERR", arg |-> "none", ret |-> "confirm"]
       \/ call7 = [cmd |-> "SETMBK", arg |-> "none", ret |-> "protectGame"]
       \/ call7 = [cmd |-> "SETSCFG", arg |-> "none", ret |-> "memory"]
       \/ call7 = [cmd |-> "PRINT_MEM", arg |-> "arm9", ret |-> "show7"]
       \/ call7 = [cmd |-> "PRINT_MEM", arg |-> "arm7", ret |-> "start"]
  /\ pc7 = "callArg" => call7.cmd = "PRINT_MEM"

(* The request a location of the ARM9 belongs to.                          *)
ServesCmd(l) ==
  CASE l \in {"error", "ackError"} -> "DISPERR"
    [] l \in {"setMbk", "ackSetMbk"} -> "SETMBK"
    [] l \in {"scfgExt", "scfgBoost", "scfgClk", "scfgLast", "ackScfg"} -> "SETSCFG"
    [] l \in {"print", "ackPrint"} -> "PRINT_MEM"
    [] OTHER -> "BOOTBIN"

(* While the ARM7 works on its own, the flag says where the ARM9 is.       *)
Working7 == {"protect", "reset", "load", "confirm", "header", "extMem", "scfg",
             "plant", "params", "mapGame", "lock", "callWait"}
(* The ARM7 has seen READY and has not written the flag since.             *)
SawReady7 == {"callArg", "callPost", "protectGame", "memory", "show9", "show7",
              "start"}

(* Where the ARM9 can be, and what the flag says, for each part of the     *)
(* ARM7's path.                                                            *)
Sync ==
  /\ pc7 = "off" => \/ pc9 = "vector"
                    \/ pc9 = "resetArm7" /\ vector = "loop"
  /\ pc7 \in {"crt0", "release"} =>
       /\ pc9 \in {"softReset", "passme"} /\ vector = "loop"
       /\ pc7 = "release" => flag = "BOOT" /\ image
  /\ pc7 \in {"initMbk", "waitArm9"} =>
       \/ /\ pc9 \in {"softReset", "passme"} /\ flag = "BOOT"
          /\ vector = "start" /\ image
       \/ pc9 \in {"crt0", "start", "announce"} /\ flag = "BOOT"
       \/ pc9 = "waitMbk" /\ flag = "START"
  /\ pc7 \in {"dsimode", "mbkStart"} => pc9 = "waitMbk" /\ flag = "START"
  /\ pc7 = "waitStart" =>
       \/ pc9 \in {"waitMbk", "mbk", "ackMbkStart"} /\ flag = "SETMBK_START"
       \/ /\ pc9 = "clear" /\ flag = "START"
          /\ clearLeft + lag = ClearSteps /\ lag <= MaxLag
  /\ pc7 \in Working7 =>
       \/ pc9 = "clear" /\ flag = "START"
       \/ pc9 = "video" /\ flag = "MEMCLR"
       \/ pc9 \in Testing /\ flag = "READY"
  /\ pc7 \in SawReady7 => pc9 \in Testing /\ flag = "READY"
  /\ pc7 = "callAwait" =>
       \/ pc9 \in Testing /\ flag \in {call7.cmd, "READY"}
       \/ /\ pc9 \in (Serving \union Acking) \ {"leave", "ackBoot"}
          /\ flag = call7.cmd /\ flag = ServesCmd(pc9)
  /\ pc7 = "awaitBoot" =>
       \/ pc9 \in Testing \union {"leave", "ackBoot"} /\ flag = "BOOTBIN"
       \/ pc9 \in Leaving /\ flag = "READY"
  /\ pc7 \in {"vblank", "jumped"} => pc9 \in Leaving /\ flag = "READY"

(* Where the ARM7 is on its path, a request counted as its return.         *)
Stage7 == IF pc7 \in Calling THEN call7.ret ELSE pc7

FromBoot == {"awaitBoot", "vblank", "jumped"}
FromMemory == {"memory", "show9", "show7", "start"} \union FromBoot
FromLock == {"lock"} \union FromMemory
FromMap == {"mapGame", "protectGame"} \union FromLock
FromPlant == {"plant", "params"} \union FromMap
FromHeader == {"header", "extMem", "scfg"} \union FromPlant
FromProtect == {"protect", "reset", "load", "confirm"} \union FromHeader

(* The mailbox holds everything the ARM7 has decided so far.               *)
MailboxInv ==
  /\ Stage7 \in {"release", "initMbk", "waitArm9"} => mb = ClearedMailbox
  /\ Stage7 \in {"mbkStart", "waitStart"} \union FromProtect
       => mb.dsimode = boot.dsiMode
  /\ Stage7 \in FromHeader => mb.confirmed = DsiModeConfirmed(boot, cart)
  /\ Stage7 \in FromHeader \ {"header"} => mb.header
  /\ Stage7 \in {"scfg"} \union FromPlant
       => mb.extendedMemory = ExtendedMemory(boot, cart)
  /\ Stage7 \in FromMap => /\ mb.boostVram = boot.boostVram
                           /\ mb.scfgUnlock = boot.scfgUnlock
                           /\ mb.twlClock = boot.twlClock
                           /\ mb.isSdk5 = cart.sdk5
  /\ pc7 \in {"callPost", "callAwait"} /\ call7.cmd = "PRINT_MEM"
       => mb.address = call7.arg

HandshakeInv == TypeOK /\ CallOK /\ Sync /\ MailboxInv

(* The ARM9 has not done what the ARM7 is asking for.                      *)
Pending(ret, ack) ==
  /\ pc7 \in Calling /\ call7.ret = ret
  /\ pc7 = "callAwait" => flag # "READY" /\ pc9 # ack

Sealed == boot.dsiMode /\ ~DsiModeConfirmed(boot, cart) /\ ~boot.scfgUnlock

NtrExt == IF ExtendedMemory(boot, cart) THEN "ntrExtended" ELSE "ntr"

(* What the ARM9 has performed follows from where the ARM7 is.             *)
ServedInv ==
  /\ Stage7 \notin {"confirm"} \union FromHeader => served = << >>
  /\ Stage7 = "confirm" =>
       IF Pending("confirm", "ackError")
       THEN cart.loadError /\ served = << >> ELSE served = ForLoad
  /\ Stage7 \in {"header", "extMem", "scfg", "plant", "params", "mapGame"}
       => served = ForLoad
  /\ Stage7 \in {"mapGame", "protectGame"} => GameBanks
  /\ Stage7 = "protectGame" =>
       served = IF Pending("protectGame", "ackSetMbk") THEN ForLoad ELSE ForBanks
  /\ Stage7 = "lock" => served = ForBanks
  /\ Stage7 = "memory" =>
       served = IF Pending("memory", "ackScfg") THEN ForBanks ELSE ForScfg
  /\ Stage7 = "show9" => served = ForScfg
  /\ Stage7 \in {"show9", "show7"} \/ (Stage7 = "start" /\ pc7 # "start")
       => boot.debugPrints
  /\ Stage7 = "show7" =>
       served = IF Pending("show7", "ackPrint") THEN ForScfg ELSE ForPrint9
  /\ Stage7 = "start" =>
       served = IF Pending("start", "ackPrint") THEN ForPrint9 ELSE ForPrints
  /\ Stage7 = "awaitBoot" =>
       served = IF pc9 \in Testing \union {"leave"} THEN ForPrints ELSE AllRequests
  /\ Stage7 \in {"vblank", "jumped"} => served = AllRequests

(* The bank registers hold what the path walked so far has written.        *)
BanksInv ==
  /\ pc9 \in (Starting \ {"crt0", "start"}) \union Testing \union Serving
            \union (Acking \ {"ackBoot"}) => banks.wram = "arm7"
  /\ pc9 \in {"ackBoot"} \union Leaving
       => banks.wram = IF GameBanks THEN "game" ELSE "arm7"
  /\ pc9 \in {"ackMbkStart", "clear", "video"} /\ Stage7 \notin FromMap
       => banks.slots = "default"
  /\ Stage7 \in {"waitArm9", "dsimode", "mbkStart", "waitStart", "protect"}
       => banks.protect = "open" /\ banks.windows = "default"
  /\ Stage7 \in {"protect"} => banks.slots = "default"
  /\ Stage7 \in (FromProtect \ ({"protect", "protectGame"} \union FromLock))
       => /\ banks.protect = "arm7" /\ banks.slots = "default"
          /\ banks.windows = IF Stage7 \in {"params", "mapGame"}
                             THEN Windows ELSE "default"
  /\ Stage7 \in {"mapGame", "protectGame"} => GameBanks
  /\ Stage7 = "protectGame"
       => /\ banks.protect = "open" /\ banks.windows = "game"
          /\ banks.slots = IF Pending("protectGame", "ackSetMbk")
                           THEN "default" ELSE "game"
  /\ Stage7 \in FromLock
       => IF GameBanks
          THEN banks.slots = "game" /\ banks.windows = "game"
               /\ banks.protect = "game"
          ELSE banks.slots = "default" /\ banks.windows = Windows
               /\ banks.protect = "arm7"

(* The ARM7's SCFG registers: written, then locked.                        *)
Scfg7Inv ==
  /\ Stage7 \notin FromMemory => ~scfg7.locked
  /\ Stage7 \in FromMemory => scfg7.locked = Sealed
  /\ Stage7 \in FromPlant /\ boot.dsiMode
     /\ ~DsiModeConfirmed(boot, cart)
       => scfg7.clk = IF boot.sdAccess THEN "ntrSd" ELSE "ntr"
  /\ ~boot.dsiMode => scfg7.ext = "launcher"

(* The ARM9's SCFG registers: untouched until SETSCFG, complete behind it. *)
Scfg9Inv ==
  /\ Stage7 \notin FromMemory \/ Pending("memory", "ackScfg")
       => /\ scfg9.locked = FALSE
          /\ ~boot.dsiMode \/ pc9 \notin {"scfgBoost", "scfgClk", "scfgLast"}
               => scfg9.ext = "launcher"
  /\ pc9 \in {"scfgBoost", "scfgClk"} => boot.dsiMode
  /\ pc9 \in {"scfgBoost", "scfgClk", "scfgLast"} /\ boot.dsiMode
       => scfg9.ext = IF DsiModeConfirmed(boot, cart) THEN "twl" ELSE NtrExt
  /\ pc9 = "scfgBoost" => scfg9.boost = FALSE
  /\ pc9 \in {"scfgClk", "scfgLast"} /\ boot.dsiMode
     /\ ~DsiModeConfirmed(boot, cart) => scfg9.boost = boot.boostVram
  /\ pc9 = "scfgLast" /\ boot.dsiMode
       => scfg9.clk = IF boot.twlClock THEN "133" ELSE "67"
  /\ Stage7 \in FromMemory /\ ~Pending("memory", "ackScfg")
       => /\ scfg9.locked = Sealed
          /\ ~boot.dsiMode => scfg9.ext = "launcher"
          /\ boot.dsiMode =>
               /\ scfg9.clk = IF boot.twlClock THEN "133" ELSE "67"
               /\ scfg9.ext = IF DsiModeConfirmed(boot, cart) THEN "twl"
                              ELSE NtrExt
               /\ ~DsiModeConfirmed(boot, cart)
                    => scfg9.boost = boot.boostVram

RegistersInv == BanksInv /\ Scfg7Inv /\ Scfg9Inv

=============================================================================
