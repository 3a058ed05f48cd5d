----------------------------- MODULE CardEngine -----------------------------
(***************************************************************************)
(* The way back from a game in DSi mode: the card engine, which the        *)
(* bootloader hooks into the game's VBlank interrupt and which reads the   *)
(* power button and the reset combination (cardEngine.c), the parameters   *)
(* it leaves in main memory for the next boot (reset_to_loader.c), and     *)
(* what the bootloader prepares for both (setMemoryAddress).               *)
(*                                                                         *)
(* The power management chip is the other side: behind an I2C bus whose    *)
(* transfers give up after eight tries, unnoticed by the callers, it       *)
(* collects presses and releases of the button and, unless told to leave   *)
(* them to the IRQ, acts on them itself.                                   *)
(*                                                                         *)
(* Left out: the language byte, the RTC interrupt and the cheats that the  *)
(* handler also takes care of; none of it touches the state below.         *)
(***************************************************************************)
EXTENDS Naturals

CONSTANTS
  PowerOffFrames,  (* VBlanks the button is held to power off: 60           *)
  MaxFailures      (* bound: transfers on the I2C bus that fail             *)

ASSUME CardEngineAssumption ==
  PowerOffFrames \in Nat \ {0} /\ MaxFailures \in Nat

VARIABLES
  pc,
  setup,       (* engine: hooked; redirect: read_power_button; path: of the *)
               (* launcher, kept or not; own: gameSoftReset; at: where the  *)
               (* game's lowest binary lies                                 *)
  boot_type,
  reset_data,  (* in the engine                                             *)
  ram,         (* what the next boot looks at                               *)
  chip,        (* mmcpwr: it leaves the button alone; its other registers   *)
  button,      (* down; pressed, released: collected by the chip            *)
  combo,       (* L, R, START and SELECT are down                           *)
  wants, powerOffTimer, muted,
  machine,     (* on; off; reset by the engine; tapped: reset by the chip   *)
  failures,
  frames,      (* history: reads in a row that found the button down        *)
  letGo,       (* history: it was released since the last read              *)
  why,         (* history: what this frame has to power off or reset        *)
  unheard      (* history: the chip did not get the order to reset          *)

handler == <<wants, powerOffTimer, muted>>
history == <<frames, letGo, why, unheard>>
vars == <<pc, setup, boot_type, reset_data, ram, chip, button, combo, handler,
          machine, failures, history>>

(* Below 0x400, below 0xC00, above: CARDENGINE_BOOT_TYPE_SD fills both.     *)
LowParams == 0
LowUnlaunch == 1
Above == 2

BootTypes == {"none", "dsiware", "sd"}
Supported == {"dsiware", "sd"}

Init ==
  /\ pc = "prepare"
  /\ boot_type \in BootTypes
  /\ setup \in {s \in [engine: BOOLEAN, redirect: BOOLEAN, path: BOOLEAN,
                       own: BOOLEAN, at: LowParams..Above] :
                  boot_type = "sd" => s.path}
  /\ reset_data = "zero"
  /\ ram = [unlaunch |-> FALSE, params |-> "game", load |-> "game",
            valid |-> FALSE]
  /\ chip \in [mmcpwr: BOOLEAN, warm: {FALSE}, twl: {FALSE}]
  /\ button = [down |-> FALSE, pressed |-> FALSE, released |-> FALSE]
  /\ combo = FALSE /\ wants = FALSE /\ powerOffTimer = 0 /\ muted = FALSE
  /\ machine = "on" /\ failures = 0
  /\ frames = 0 /\ letGo = FALSE /\ why = {} /\ unheard = FALSE

-----------------------------------------------------------------------------
(* i2cReadRegister and i2cWriteRegister: eight tries, then 0xFF or 0.       *)

Transfer(ok) ==
  /\ ok \/ failures < MaxFailures
  /\ failures' = failures + (IF ok THEN 0 ELSE 1)

WriteRegister(register, value) ==
  \E ok \in BOOLEAN :
    /\ Transfer(ok)
    /\ chip' = IF ok THEN [chip EXCEPT ![register] = value] ELSE chip

-----------------------------------------------------------------------------
(* reset_to_loader.c.                                                      *)

(* A launcher whose path is not known cannot be found again.               *)
RebootType == IF boot_type = "sd" /\ ~setup.path THEN "none" ELSE boot_type

(* unlaunchSetFilename, for the boot type after the first lines.           *)
WithUnlaunch(r) == [r EXCEPT !.unlaunch = @ \/ RebootType = "sd"]

(* The whole area is cleared, the flags and their CRC written.             *)
WithParams(r) ==
  [r EXCEPT !.params = "flags", !.load = "zero", !.valid = FALSE]

WithLoad(r, data) ==
  [r EXCEPT !.load = CASE RebootType = "sd" -> "launcher"
                       [] RebootType = "dsiware" -> data
                       [] RebootType = "none" -> @]

(* Mutant: the CRC is right whatever the data.                             *)
WithSeal_Always(r) == [r EXCEPT !.valid = TRUE]

(* The CRC, made invalid if there is nothing to go back to.                *)
WithSeal(r) == [r EXCEPT !.valid = RebootType \in Supported]

-----------------------------------------------------------------------------
(* The bootloader: setMemoryAddress, after hookNdsRetail.                  *)

Instantiated == IF boot_type = "sd" THEN "launcher" ELSE "self"

(* Mutant: the area of the Unlaunch parameters is forgotten.               *)
AfterArea_Params == LowUnlaunch

AfterArea == IF boot_type = "sd" THEN Above ELSE LowUnlaunch

(* Without an engine the parameters are written now, but only below the    *)
(* game.                                                                   *)
PrepareReboot ==
  /\ pc = "prepare" /\ pc' = "mmcpwr"
  /\ IF setup.engine
     THEN reset_data' = Instantiated /\ UNCHANGED <<ram, boot_type>>
     ELSE /\ UNCHANGED reset_data
          /\ IF setup.redirect /\ setup.at >= AfterArea
             THEN /\ boot_type' = RebootType
                  /\ ram' = WithSeal(WithLoad(WithParams(WithUnlaunch(ram)),
                                              Instantiated))
             ELSE UNCHANGED <<ram, boot_type>>
  /\ UNCHANGED <<setup, chip, button, combo, handler, machine, failures,
                 history>>

SetPowerMode ==
  /\ pc = "mmcpwr" /\ pc' = "bootflag"
  /\ WriteRegister("mmcpwr", setup.engine /\ setup.redirect)
  /\ UNCHANGED <<setup, boot_type, reset_data, ram, button, combo, handler,
                 machine, history>>

SetBootFlag ==
  /\ pc = "bootflag" /\ pc' = "game"
  /\ WriteRegister("warm", TRUE)
  /\ UNCHANGED <<setup, boot_type, reset_data, ram, button, combo, handler,
                 machine, history>>

-----------------------------------------------------------------------------
(* myIrqHandlerVBlank.                                                     *)

(* Mutant: games with a soft reset of their own are not left alone.        *)
VBlank_EveryGame ==
  /\ pc = "game" /\ setup.engine
  /\ pc' = "power"
  /\ wants' = combo
  /\ why' = IF combo /\ ~setup.own THEN {"combo"} ELSE {}
  /\ UNCHANGED <<setup, boot_type, reset_data, ram, chip, button, combo,
                 powerOffTimer, muted, machine, failures, frames, letGo,
                 unheard>>

VBlank ==
  /\ pc = "game" /\ setup.engine
  /\ pc' = "power"
  /\ wants' = (combo /\ ~setup.own)
  /\ why' = IF combo /\ ~setup.own THEN {"combo"} ELSE {}
  /\ UNCHANGED <<setup, boot_type, reset_data, ram, chip, button, combo,
                 powerOffTimer, muted, machine, failures, frames, letGo,
                 unheard>>

(* Only counted as far as it is compared.                                  *)
OneMore(n) == IF n < PowerOffFrames THEN n + 1 ELSE n

(* Mutant: a release does not stop the count.                              *)
Timer_KeepsCounting(start, released) ==
  IF start \/ powerOffTimer > 0 THEN OneMore(powerOffTimer) ELSE powerOffTimer

(* Mutant: only the press itself is counted.                               *)
Timer_OnlyPress(start, released) ==
  IF released THEN 0
  ELSE IF start THEN OneMore(powerOffTimer) ELSE powerOffTimer

Timer(start, released) ==
  IF released THEN 0
  ELSE IF start \/ powerOffTimer > 0 THEN OneMore(powerOffTimer)
  ELSE powerOffTimer

(* Mutant: both reasons have to come together.                             *)
Wants_Both(released) == wants /\ released

Wants(released) == wants \/ released

(* A successful read empties what the chip has collected.                  *)
Collected(ok) ==
  IF setup.redirect
  THEN [start |-> ok => button.pressed, released |-> ok => button.released]
  ELSE [start |-> FALSE, released |-> FALSE]

(* What the user sees of it: how long the button has been down.            *)
Observed(ok) ==
  IF ~setup.redirect THEN UNCHANGED history
  ELSE IF ~ok THEN /\ why' = why \cup {"misread"}
                   /\ UNCHANGED <<frames, letGo, unheard>>
  ELSE /\ letGo' = FALSE /\ UNCHANGED unheard
       /\ frames' = CASE ~button.down -> 0
                      [] button.down /\ letGo -> 1
                      [] OTHER -> OneMore(frames)
       /\ why' = why \cup (IF letGo THEN {"released"} ELSE {})
                     \cup (IF frames' = PowerOffFrames THEN {"held"} ELSE {})

ReadPower ==
  /\ pc = "power"
  /\ \E ok \in BOOLEAN :
       /\ IF setup.redirect THEN Transfer(ok) ELSE ok /\ UNCHANGED failures
       /\ LET got == Collected(ok)
          IN /\ powerOffTimer' = Timer(got.start, got.released)
             /\ wants' = Wants(got.released)
       /\ button' = IF ok /\ setup.redirect
                    THEN [button EXCEPT !.pressed = FALSE, !.released = FALSE]
                    ELSE button
       /\ Observed(ok)
  /\ pc' = IF powerOffTimer' >= PowerOffFrames THEN "shutdown" ELSE "decide"
  /\ UNCHANGED <<setup, boot_type, reset_data, ram, chip, combo, muted,
                 machine>>

(* systemShutDown; if it fails, a reset is tried.                          *)
ShutDown ==
  /\ pc = "shutdown"
  /\ \E ok \in BOOLEAN :
       /\ Transfer(ok)
       /\ IF ok THEN machine' = "off" /\ UNCHANGED <<pc, wants>>
          ELSE pc' = "decide" /\ wants' = TRUE /\ UNCHANGED machine
  /\ UNCHANGED <<setup, boot_type, reset_data, ram, chip, button, combo,
                 powerOffTimer, muted, history>>

(* Mutant: a reset is only tried once.                                     *)
Decide_Once ==
  /\ pc = "decide"
  /\ IF wants /\ ~muted THEN pc' = "unlaunch" /\ muted' = TRUE
     ELSE pc' = "game" /\ UNCHANGED muted
  /\ UNCHANGED <<setup, boot_type, reset_data, ram, chip, button, combo, wants,
                 powerOffTimer, machine, failures, history>>

Decide ==
  /\ pc = "decide"
  /\ IF wants THEN pc' = "unlaunch" /\ muted' = TRUE
     ELSE pc' = "game" /\ UNCHANGED muted
  /\ UNCHANGED <<setup, boot_type, reset_data, ram, chip, button, combo, wants,
                 powerOffTimer, machine, failures, history>>

(* setRebootParams on the engine's data, and the three registers.          *)
Fill(here, next, with) ==
  /\ pc = here /\ pc' = next
  /\ ram' = with
  /\ UNCHANGED <<setup, reset_data, chip, button, combo, handler, machine,
                 failures, history>>

FillUnlaunch ==
  /\ Fill("unlaunch", "params", WithUnlaunch(ram))
  /\ boot_type' = RebootType
FillParams == Fill("params", "load", WithParams(ram)) /\ UNCHANGED boot_type
FillLoad ==
  Fill("load", "seal", WithLoad(ram, reset_data)) /\ UNCHANGED boot_type
FillSeal == Fill("seal", "mode", WithSeal(ram)) /\ UNCHANGED boot_type

(* Read and write: whether the read fails makes no difference to bit 0.    *)
WriteMode ==
  /\ pc = "mode" /\ pc' = "flag"
  /\ WriteRegister("twl", TRUE)
  /\ UNCHANGED <<setup, boot_type, reset_data, ram, button, combo, handler,
                 machine, history>>

WriteFlag ==
  /\ pc = "flag" /\ pc' = "reboot"
  /\ WriteRegister("warm", TRUE)
  /\ UNCHANGED <<setup, boot_type, reset_data, ram, button, combo, handler,
                 machine, history>>

(* If the chip does not get it, the game goes on as it is.                 *)
WriteReboot ==
  /\ pc = "reboot"
  /\ \E ok \in BOOLEAN :
       /\ Transfer(ok)
       /\ IF ok THEN machine' = "reset" /\ UNCHANGED <<pc, unheard>>
          ELSE pc' = "game" /\ unheard' = TRUE /\ UNCHANGED machine
  /\ UNCHANGED <<setup, boot_type, reset_data, ram, chip, button, combo,
                 handler, frames, letGo, why>>

Arm7 ==
  /\ machine = "on"
  /\ \/ PrepareReboot \/ SetPowerMode \/ SetBootFlag
     \/ VBlank \/ ReadPower \/ ShutDown \/ Decide
     \/ FillUnlaunch \/ FillParams \/ FillLoad \/ FillSeal
     \/ WriteMode \/ WriteFlag \/ WriteReboot

-----------------------------------------------------------------------------
(* The user's hands, and the chip when the button is its own.              *)

PressPower ==
  /\ ~button.down
  /\ button' = [button EXCEPT !.down = TRUE, !.pressed = TRUE]
  /\ UNCHANGED <<letGo, machine, combo>>

ReleasePower ==
  /\ button.down
  /\ button' = [button EXCEPT !.down = FALSE, !.released = TRUE]
  /\ letGo' = TRUE
  /\ machine' = IF chip.mmcpwr THEN machine ELSE "tapped"
  /\ UNCHANGED combo

ChipPowersOff ==
  /\ button.down /\ ~chip.mmcpwr
  /\ machine' = "off"
  /\ UNCHANGED <<button, letGo, combo>>

ChangeCombo ==
  /\ combo' = ~combo
  /\ UNCHANGED <<button, letGo, machine>>

User ==
  /\ machine = "on"
  /\ PressPower \/ ReleasePower \/ ChipPowersOff \/ ChangeCombo
  /\ UNCHANGED <<pc, setup, boot_type, reset_data, ram, chip, handler,
                 failures, frames, why, unheard>>

Next == Arm7 \/ User

(* VBlanks keep coming, and the game keeps its interrupts enabled.         *)
Spec == Init /\ [][Next]_vars /\ WF_vars(Arm7)

-----------------------------------------------------------------------------
(* Properties.                                                             *)

Boots == {"prepare", "mmcpwr", "bootflag"}
Resets == {"unlaunch", "params", "load", "seal", "mode", "flag", "reboot"}

(* The power-off count never runs ahead of the reads that found the button *)
(* down: no missed, doubled or late event makes it do so.                  *)
TypeOK ==
  /\ pc \in Boots \cup Resets \cup {"game", "power", "shutdown", "decide"}
  /\ setup \in [engine: BOOLEAN, redirect: BOOLEAN, path: BOOLEAN,
                own: BOOLEAN, at: LowParams..Above]
  /\ boot_type \in BootTypes
  /\ reset_data \in {"zero", "launcher", "self"}
  /\ ram \in [unlaunch: BOOLEAN, params: {"game", "flags"},
              load: {"game", "zero", "launcher", "self"}, valid: BOOLEAN]
  /\ chip \in [mmcpwr: BOOLEAN, warm: BOOLEAN, twl: BOOLEAN]
  /\ button \in [down: BOOLEAN, pressed: BOOLEAN, released: BOOLEAN]
  /\ combo \in BOOLEAN /\ wants \in BOOLEAN /\ muted \in BOOLEAN
  /\ powerOffTimer \in 0..frames
  /\ machine \in {"on", "off", "reset", "tapped"}
  /\ failures \in 0..MaxFailures
  /\ frames \in 0..PowerOffFrames /\ letGo \in BOOLEAN
  /\ why \in SUBSET {"combo", "released", "held", "misread"}
  /\ unheard \in BOOLEAN

(* The engine powers off only after the button was found down, without     *)
(* having been let go, at that many reads in a row; and it resets only for *)
(* a release, a combination the game does not use itself, a power-off that *)
(* failed, or a read that failed.                                          *)
OnlyWhenAsked ==
  /\ pc = "shutdown" => "held" \in why
  /\ pc \in Resets => why # {}

Overwritten ==
  \/ setup.at = LowParams /\ ram.params # "game"
  \/ setup.at <= LowUnlaunch /\ ram.unlaunch

(* A game that goes on running has its memory and its sound, whichever     *)
(* reads and writes on the bus have failed, but for the one that nobody    *)
(* can make good: the order to reset itself, after which the handler goes  *)
(* back to a game over whose memory it has written (cardEngine.c:76).  The *)
(* bootloader leaves a low game alone, and the engine, which does not,     *)
(* otherwise never returns from a reset.                                   *)
GameIntact == pc \notin Resets /\ ~unheard => ~Overwritten /\ ~muted

(* The next boot is told the truth.  It never finds valid parameters for   *)
(* anything but the launcher; and after a reset by the engine, or by the   *)
(* chip where the bootloader could write below the game, it finds          *)
(* everything it needs for the launcher, if no transfer failed.            *)
Target == IF boot_type = "sd" THEN "launcher" ELSE "self"
BackToLauncher ==
  /\ ram.valid => /\ boot_type \in Supported /\ ram.load = Target
                  /\ ram.params = "flags"
                  /\ boot_type = "sd" => ram.unlaunch
  /\ (\/ machine = "reset"
      \/ /\ machine = "tapped" /\ pc = "game" /\ ~setup.engine
         /\ setup.redirect
         /\ setup.at = Above \/ (setup.at = LowUnlaunch /\ boot_type # "sd"))
     /\ failures = 0 /\ boot_type \in Supported
       => ram.valid /\ chip.warm /\ (machine = "reset" => chip.twl)

Stopped == machine # "on"
Redirected == setup.engine /\ setup.redirect

(* A tap is answered, however it falls between two reads or into the boot. *)
TapAnswered == Redirected /\ letGo ~> Stopped \/ failures > 0

(* A button held for good stops the machine.                               *)
HoldAnswered ==
  <>[](Redirected /\ button.down /\ failures = 0) => <>Stopped

(* The combination held for good resets the machine, whatever number of    *)
(* transfers has failed before.                                            *)
ComboAnswered == <>[](setup.engine /\ ~setup.own /\ combo) => <>Stopped

(* Whatever the user does long enough is answered: a tap, the button held  *)
(* and the combination (cardEngine.c, card_engine_header.s).               *)
PressAnswered == TapAnswered /\ HoldAnswered /\ ComboAnswered
=============================================================================
