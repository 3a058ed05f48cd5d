---------------------------- MODULE InGameProofs ----------------------------
(***************************************************************************)
(* Proofs about what stays in memory beside the game and works in its      *)
(* VBlank interrupt: CardEngine, for every number of frames and any bound  *)
(* on the transfers that fail, and CheatEngine, for all well-formed lists. *)
(***************************************************************************)
EXTENDS CardEngine, CheatEngine, SequenceTheorems, TLAPS

-----------------------------------------------------------------------------
(* The card engine.                                                        *)

(* The launcher's boot type, and who is at work.                           *)
SetupInv ==
  /\ boot_type = "sd" => setup.path
  /\ pc \notin Boots \cup {"game"} => setup.engine
  /\ pc # "prepare" /\ setup.engine => reset_data = Target
  /\ machine = "reset" => pc = "reboot"

(* What the chip has collected is what the user has done.                  *)
ButtonInv ==
  /\ button.released <=> letGo
  /\ ~button.down /\ ~letGo => ~button.pressed /\ powerOffTimer = 0
  /\ ~setup.redirect => powerOffTimer = 0

ReasonInv ==
  /\ pc \in {"power", "decide"} /\ wants => why # {}
  /\ pc = "shutdown" => "held" \in why
  /\ pc \in Resets => why # {}

(* Nothing is left behind but by an order to reset that was not heard, and *)
(* without a failure the flags are there.                                  *)
CleanInv ==
  /\ pc \notin Resets /\ ~unheard => ~Overwritten /\ ~muted
  /\ failures = 0 =>
       /\ pc \notin Boots => chip.warm
       /\ pc \in {"flag", "reboot"} => chip.twl

BelowGame ==
  setup.at = Above \/ (setup.at = LowUnlaunch /\ boot_type # "sd")

(* The parameters, filled in one after the other.                          *)
ParamsInv ==
  /\ pc = "prepare" => ram.params = "game" /\ ~ram.unlaunch
  /\ ram.valid => /\ boot_type \in Supported /\ ram.load = Target
                  /\ ram.params = "flags"
                  /\ boot_type = "sd" => ram.unlaunch
  /\ pc \in {"params", "load", "seal"} /\ boot_type = "sd" => ram.unlaunch
  /\ pc \in {"load", "seal"} => ram.params = "flags" /\ ~ram.valid
  /\ pc = "seal" /\ boot_type \in Supported => ram.load = Target
  /\ pc \in {"mode", "flag", "reboot"} /\ boot_type \in Supported => ram.valid
  /\ pc # "prepare" /\ ~setup.engine /\ setup.redirect =>
       (BelowGame /\ boot_type \in Supported => ram.valid)

IInv == TypeOK /\ SetupInv /\ ButtonInv /\ ReasonInv /\ CleanInv /\ ParamsInv

USE CardEngineAssumption DEF LowParams, LowUnlaunch, Above

LEMMA InitIInv == Init => IInv
<1> SUFFICES ASSUME Init PROVE IInv
  OBVIOUS
<1> USE DEF Init
<1>1. TypeOK
  <2>1. /\ button \in [down: BOOLEAN, pressed: BOOLEAN, released: BOOLEAN]
        /\ ram \in [unlaunch: BOOLEAN, params: {"game", "flags"},
                    load: {"game", "zero", "launcher", "self"}, valid: BOOLEAN]
        /\ chip \in [mmcpwr: BOOLEAN, warm: BOOLEAN, twl: BOOLEAN]
    OBVIOUS
  <2>2. /\ powerOffTimer \in 0..frames /\ frames \in 0..PowerOffFrames
        /\ failures \in 0..MaxFailures
    OBVIOUS
  <2>3. /\ combo \in BOOLEAN /\ wants \in BOOLEAN /\ muted \in BOOLEAN
        /\ letGo \in BOOLEAN
    OBVIOUS
  <2>4. QED
    BY <2>1, <2>2, <2>3 DEF TypeOK, Boots
<1>2. SetupInv
  BY DEF SetupInv, Boots
<1>3. ButtonInv /\ ReasonInv
  BY DEF ButtonInv, ReasonInv, Resets
<1>4. CleanInv
  BY DEF CleanInv, Boots, Resets, Overwritten
<1>5. ParamsInv
  BY DEF ParamsInv
<1>6. QED
  BY <1>1, <1>2, <1>3, <1>4, <1>5 DEF IInv

(* A transfer, as it counts.                                               *)
LEMMA TransferCounts ==
  ASSUME failures \in 0..MaxFailures, NEW ok \in BOOLEAN, Transfer(ok)
  PROVE  /\ failures' \in 0..MaxFailures
         /\ failures' = 0 => failures = 0 /\ ok
BY DEF Transfer

LEMMA Written ==
  ASSUME TypeOK, NEW register \in {"mmcpwr", "warm", "twl"},
         NEW value \in BOOLEAN, WriteRegister(register, value)
  PROVE  /\ failures' \in 0..MaxFailures
         /\ chip' \in [mmcpwr: BOOLEAN, warm: BOOLEAN, twl: BOOLEAN]
         /\ failures' = 0 => failures = 0 /\ chip'[register] = value
         /\ \A r \in {"mmcpwr", "warm", "twl"} \ {register} :
              chip'[r] = chip[r]
<1>1. PICK ok \in BOOLEAN :
        /\ Transfer(ok)
        /\ chip' = IF ok THEN [chip EXCEPT ![register] = value] ELSE chip
  BY DEF WriteRegister
<1>2. chip \in [mmcpwr: BOOLEAN, warm: BOOLEAN, twl: BOOLEAN]
  BY DEF TypeOK
<1>3. /\ failures' \in 0..MaxFailures
      /\ failures' = 0 => failures = 0 /\ ok
  BY <1>1, TransferCounts DEF TypeOK
<1>4. CASE ok
  <2>1. chip' = [chip EXCEPT ![register] = value]
    BY <1>1, <1>4
  <2>2. CASE register = "mmcpwr"
    BY <1>2, <1>3, <2>1, <2>2
  <2>3. CASE register = "warm"
    BY <1>2, <1>3, <2>1, <2>3
  <2>4. CASE register = "twl"
    BY <1>2, <1>3, <2>1, <2>4
  <2>5. QED
    BY <2>2, <2>3, <2>4
<1>5. CASE ~ok
  BY <1>1, <1>2, <1>3, <1>5
<1>6. QED
  BY <1>4, <1>5

(* The launcher that has a path is never forgotten.                        *)
LEMMA TypeKept ==
  ASSUME SetupInv
  PROVE  RebootType = boot_type
BY DEF SetupInv, RebootType

RamType ==
  [unlaunch: BOOLEAN, params: {"game", "flags"},
   load: {"game", "zero", "launcher", "self"}, valid: BOOLEAN]

(* What each part of setRebootParams does to the parameters.               *)
LEMMA UnlaunchFilled ==
  ASSUME NEW r \in RamType, RebootType = boot_type
  PROVE  /\ WithUnlaunch(r) \in RamType
         /\ WithUnlaunch(r).params = r.params
         /\ WithUnlaunch(r).load = r.load
         /\ WithUnlaunch(r).valid = r.valid
         /\ WithUnlaunch(r).unlaunch <=> r.unlaunch \/ boot_type = "sd"
<1>1. (r.unlaunch \/ RebootType = "sd") \in BOOLEAN
  OBVIOUS
<1>2. QED
  BY <1>1 DEF WithUnlaunch, RamType

LEMMA ParamsFilled ==
  ASSUME NEW r \in RamType
  PROVE  /\ WithParams(r) \in RamType
         /\ WithParams(r).unlaunch = r.unlaunch
         /\ WithParams(r).params = "flags" /\ WithParams(r).load = "zero"
         /\ WithParams(r).valid = FALSE
BY DEF WithParams, RamType

LEMMA LoadFilled ==
  ASSUME NEW r \in RamType, boot_type \in BootTypes, RebootType = boot_type,
         NEW launcher \in {"zero", "launcher", "self"}
  PROVE  /\ WithLoad(r, launcher) \in RamType
         /\ WithLoad(r, launcher).unlaunch = r.unlaunch
         /\ WithLoad(r, launcher).params = r.params
         /\ WithLoad(r, launcher).valid = r.valid
         /\ boot_type \in Supported /\ launcher = Target
              => WithLoad(r, launcher).load = Target
<1> DEFINE l == CASE RebootType = "sd" -> "launcher"
                  [] RebootType = "dsiware" -> launcher
                  [] RebootType = "none" -> r.load
<1>1. /\ l \in {"game", "zero", "launcher", "self"}
      /\ boot_type \in Supported /\ launcher = Target => l = Target
  BY DEF BootTypes, RamType, Supported, Target
<1>2. WithLoad(r, launcher) = [r EXCEPT !.load = l]
  BY DEF WithLoad
<1>3. QED
  BY <1>1, <1>2 DEF RamType

LEMMA SealFilled ==
  ASSUME NEW r \in RamType, RebootType = boot_type
  PROVE  /\ WithSeal(r) \in RamType
         /\ WithSeal(r).unlaunch = r.unlaunch
         /\ WithSeal(r).params = r.params /\ WithSeal(r).load = r.load
         /\ WithSeal(r).valid <=> boot_type \in Supported
<1>1. (RebootType \in Supported) \in BOOLEAN
  OBVIOUS
<1>2. QED
  BY <1>1 DEF WithSeal, RamType

LEMMA PrepareRebootInv ==
  ASSUME IInv, PrepareReboot
  PROVE  IInv'
<1>0. /\ boot_type \in BootTypes /\ RebootType = boot_type
      /\ ram \in RamType
      /\ setup.at \in 0..2 /\ ram.params = "game" /\ ~ram.unlaunch
  <2>1. RebootType = boot_type
    BY TypeKept DEF IInv
  <2>2. boot_type \in BootTypes /\ setup.at \in 0..2
    BY DEF IInv, TypeOK
  <2>3. ram \in RamType
    BY DEF IInv, TypeOK, RamType
  <2>4. ram.params = "game" /\ ~ram.unlaunch
    BY DEF IInv, ParamsInv, PrepareReboot
  <2>5. QED
    BY Zenon, <2>1, <2>2, <2>3, <2>4
<1>i. Instantiated \in {"launcher", "self"} /\ Instantiated = Target
  BY DEF Instantiated, Target
<1> DEFINE filled == WithSeal(WithLoad(WithParams(WithUnlaunch(ram)),
                                       Instantiated))
           fills == ~setup.engine /\ setup.redirect /\ setup.at >= AfterArea
<1>f. /\ filled \in RamType
      /\ filled.params = "flags" /\ (filled.unlaunch <=> boot_type = "sd")
      /\ filled.valid <=> boot_type \in Supported
      /\ boot_type \in Supported => filled.load = Target
  <2> DEFINE r1 == WithUnlaunch(ram)
             r2 == WithParams(r1)
             r3 == WithLoad(r2, Instantiated)
  <2>1. r1 \in RamType /\ (r1.unlaunch <=> boot_type = "sd")
    BY <1>0, UnlaunchFilled
  <2> HIDE DEF r1
  <2>2. r2 \in RamType /\ r2.unlaunch = r1.unlaunch /\ r2.params = "flags"
    BY <2>1, ParamsFilled
  <2> HIDE DEF r2
  <2>3. /\ r3 \in RamType /\ r3.unlaunch = r2.unlaunch /\ r3.params = "flags"
        /\ boot_type \in Supported => r3.load = Target
    BY <1>0, <1>i, <2>2, LoadFilled
  <2> HIDE DEF r3
  <2>4. /\ WithSeal(r3) \in RamType /\ WithSeal(r3).unlaunch = r3.unlaunch
        /\ WithSeal(r3).params = "flags" /\ WithSeal(r3).load = r3.load
        /\ WithSeal(r3).valid <=> boot_type \in Supported
    BY <1>0, <2>3, SealFilled
  <2>5. filled = WithSeal(r3)
    BY DEF r1, r2, r3
  <2>6. QED
    BY <2>1, <2>2, <2>3, <2>4, <2>5
<1> USE DEF PrepareReboot, handler, history
<1>k. /\ pc = "prepare" /\ pc' = "mmcpwr" /\ boot_type' = boot_type
      /\ IF fills THEN ram' = filled ELSE ram' = ram
      /\ IF setup.engine THEN reset_data' = Target
         ELSE reset_data' = reset_data
  BY <1>0, <1>i
<1>b. /\ fills => IF boot_type = "sd" THEN setup.at = Above
                   ELSE setup.at \in {LowUnlaunch, Above}
      /\ BelowGame /\ ~setup.engine /\ setup.redirect => fills
  BY <1>0 DEF AfterArea, BelowGame
<1> HIDE DEF filled, fills
<1>1. TypeOK'
  <2>1. ram' \in RamType
    BY <1>0, <1>f, <1>k
  <2>2. reset_data' \in {"zero", "launcher", "self"}
    BY <1>k DEF Target, IInv, TypeOK
  <2>3. boot_type' \in BootTypes /\ pc' \in Boots
    BY <1>0, <1>k DEF Boots
  <2>4. QED
    BY <2>1, <2>2, <2>3 DEF IInv, TypeOK, RamType
<1>2. SetupInv'
  BY <1>k DEF IInv, SetupInv, Boots, Target
<1>3. ButtonInv'
  BY DEF IInv, ButtonInv
<1>4. ReasonInv'
  BY DEF IInv, ReasonInv, Resets
<1>5. CleanInv'
  BY <1>0, <1>f, <1>k, <1>b DEF IInv, CleanInv, Boots, Resets, Overwritten
<1>6. ParamsInv'
  BY <1>0, <1>f, <1>k, <1>b DEF IInv, ParamsInv, Target, BelowGame, Supported
<1>7. QED
  BY <1>1, <1>2, <1>3, <1>4, <1>5, <1>6 DEF IInv

LEMMA SetPowerModeInv ==
  ASSUME IInv, SetPowerMode
  PROVE  IInv'
<1> USE DEF SetPowerMode, handler, history
<1>v. (setup.engine /\ setup.redirect) \in BOOLEAN
  BY DEF IInv, TypeOK
<1>w. /\ failures' \in 0..MaxFailures
      /\ chip' \in [mmcpwr: BOOLEAN, warm: BOOLEAN, twl: BOOLEAN]
      /\ failures' = 0 => failures = 0 /\ chip'["mmcpwr"] = (setup.engine /\ setup.redirect)
      /\ \A r \in {"mmcpwr", "warm", "twl"} \ {"mmcpwr"} : chip'[r] = chip[r]
  BY <1>v, Written DEF IInv
<1>1. TypeOK'
  BY <1>w DEF IInv, TypeOK, Boots, Resets
<1>2. SetupInv'
  BY DEF IInv, SetupInv, Boots, Resets, Target
<1>3. ButtonInv'
  BY DEF IInv, ButtonInv
<1>4. ReasonInv'
  BY DEF IInv, ReasonInv, Resets
<1>5. CleanInv'
  BY <1>w DEF IInv, CleanInv, Boots, Resets, Overwritten
<1>6. ParamsInv'
  BY DEF IInv, ParamsInv, Target, BelowGame, Supported
<1>7. QED
  BY <1>1, <1>2, <1>3, <1>4, <1>5, <1>6 DEF IInv

LEMMA SetBootFlagInv ==
  ASSUME IInv, SetBootFlag
  PROVE  IInv'
<1> USE DEF SetBootFlag, handler, history
<1>v. (TRUE) \in BOOLEAN
  BY DEF IInv, TypeOK
<1>w. /\ failures' \in 0..MaxFailures
      /\ chip' \in [mmcpwr: BOOLEAN, warm: BOOLEAN, twl: BOOLEAN]
      /\ failures' = 0 => failures = 0 /\ chip'["warm"] = (TRUE)
      /\ \A r \in {"mmcpwr", "warm", "twl"} \ {"warm"} : chip'[r] = chip[r]
  BY <1>v, Written DEF IInv
<1>1. TypeOK'
  BY <1>w DEF IInv, TypeOK, Boots, Resets
<1>2. SetupInv'
  BY DEF IInv, SetupInv, Boots, Resets, Target
<1>3. ButtonInv'
  BY DEF IInv, ButtonInv
<1>4. ReasonInv'
  BY DEF IInv, ReasonInv, Resets
<1>5. CleanInv'
  BY <1>w DEF IInv, CleanInv, Boots, Resets, Overwritten
<1>6. ParamsInv'
  BY DEF IInv, ParamsInv, Target, BelowGame, Supported
<1>7. QED
  BY <1>1, <1>2, <1>3, <1>4, <1>5, <1>6 DEF IInv

LEMMA WriteModeInv ==
  ASSUME IInv, WriteMode
  PROVE  IInv'
<1> USE DEF WriteMode, handler, history
<1>v. (TRUE) \in BOOLEAN
  BY DEF IInv, TypeOK
<1>w. /\ failures' \in 0..MaxFailures
      /\ chip' \in [mmcpwr: BOOLEAN, warm: BOOLEAN, twl: BOOLEAN]
      /\ failures' = 0 => failures = 0 /\ chip'["twl"] = (TRUE)
      /\ \A r \in {"mmcpwr", "warm", "twl"} \ {"twl"} : chip'[r] = chip[r]
  BY <1>v, Written DEF IInv
<1>1. TypeOK'
  BY <1>w DEF IInv, TypeOK, Boots, Resets
<1>2. SetupInv'
  BY DEF IInv, SetupInv, Boots, Resets, Target
<1>3. ButtonInv'
  BY DEF IInv, ButtonInv
<1>4. ReasonInv'
  BY DEF IInv, ReasonInv, Resets
<1>5. CleanInv'
  BY <1>w DEF IInv, CleanInv, Boots, Resets, Overwritten
<1>6. ParamsInv'
  BY DEF IInv, ParamsInv, Target, BelowGame, Supported
<1>7. QED
  BY <1>1, <1>2, <1>3, <1>4, <1>5, <1>6 DEF IInv

LEMMA WriteFlagInv ==
  ASSUME IInv, WriteFlag
  PROVE  IInv'
<1> USE DEF WriteFlag, handler, history
<1>v. (TRUE) \in BOOLEAN
  BY DEF IInv, TypeOK
<1>w. /\ failures' \in 0..MaxFailures
      /\ chip' \in [mmcpwr: BOOLEAN, warm: BOOLEAN, twl: BOOLEAN]
      /\ failures' = 0 => failures = 0 /\ chip'["warm"] = (TRUE)
      /\ \A r \in {"mmcpwr", "warm", "twl"} \ {"warm"} : chip'[r] = chip[r]
  BY <1>v, Written DEF IInv
<1>1. TypeOK'
  BY <1>w DEF IInv, TypeOK, Boots, Resets
<1>2. SetupInv'
  BY DEF IInv, SetupInv, Boots, Resets, Target
<1>3. ButtonInv'
  BY DEF IInv, ButtonInv
<1>4. ReasonInv'
  BY DEF IInv, ReasonInv, Resets
<1>5. CleanInv'
  BY <1>w DEF IInv, CleanInv, Boots, Resets, Overwritten
<1>6. ParamsInv'
  BY DEF IInv, ParamsInv, Target, BelowGame, Supported
<1>7. QED
  BY <1>1, <1>2, <1>3, <1>4, <1>5, <1>6 DEF IInv

LEMMA VBlankInv ==
  ASSUME IInv, VBlank
  PROVE  IInv'
<1> USE DEF VBlank, history
<1>1. TypeOK'
  <2>1. wants' \in BOOLEAN
    BY DEF IInv, TypeOK
  <2>2. QED
    BY <2>1 DEF IInv, TypeOK
<1>2. SetupInv'
  BY DEF IInv, SetupInv, Boots, Resets, Target
<1>3. ButtonInv'
  BY DEF IInv, ButtonInv
<1>4. ReasonInv'
  BY DEF IInv, ReasonInv, Resets
<1>5. CleanInv'
  BY DEF IInv, CleanInv, Boots, Resets, Overwritten
<1>6. ParamsInv'
  BY DEF IInv, ParamsInv, Target, BelowGame, Supported
<1>7. QED
  BY <1>1, <1>2, <1>3, <1>4, <1>5, <1>6 DEF IInv

(* The read of the power button, by its outcome.                           *)
LEMMA ReadPowerInv ==
  ASSUME IInv, ReadPower
  PROVE  IInv'
<1>1. PICK ok \in BOOLEAN :
        /\ IF setup.redirect THEN Transfer(ok) ELSE ok /\ UNCHANGED failures
        /\ LET got == Collected(ok)
           IN /\ powerOffTimer' = Timer(got.start, got.released)
              /\ wants' = Wants(got.released)
        /\ button' = IF ok /\ setup.redirect
                     THEN [button EXCEPT !.pressed = FALSE, !.released = FALSE]
                     ELSE button
        /\ Observed(ok)
  BY DEF ReadPower
<1>2. /\ pc = "power"
      /\ pc' = IF powerOffTimer' >= PowerOffFrames THEN "shutdown" ELSE "decide"
      /\ setup' = setup /\ boot_type' = boot_type /\ reset_data' = reset_data
      /\ ram' = ram /\ chip' = chip /\ combo' = combo /\ muted' = muted
      /\ machine' = machine
  BY DEF ReadPower
<1>3. /\ powerOffTimer \in 0..frames /\ frames \in 0..PowerOffFrames
      /\ button \in [down: BOOLEAN, pressed: BOOLEAN, released: BOOLEAN]
      /\ letGo \in BOOLEAN /\ wants \in BOOLEAN
      /\ why \in SUBSET {"combo", "released", "held", "misread"}
      /\ failures \in 0..MaxFailures
  BY DEF IInv, TypeOK
<1>4. /\ button.released <=> letGo
      /\ ~button.down /\ ~letGo => ~button.pressed /\ powerOffTimer = 0
      /\ ~setup.redirect => powerOffTimer = 0
      /\ wants => why # {}
  BY <1>2 DEF IInv, ButtonInv, ReasonInv
<1>5. /\ failures' \in 0..MaxFailures /\ (failures' = 0 => failures = 0)
  BY <1>1, <1>3, TransferCounts
<1> DEFINE Good == /\ powerOffTimer' \in 0..frames'
                   /\ frames' \in 0..PowerOffFrames
                   /\ letGo' \in BOOLEAN /\ wants' \in BOOLEAN
                   /\ why' \in SUBSET {"combo", "released", "held", "misread"}
                   /\ button' \in [down: BOOLEAN, pressed: BOOLEAN,
                                   released: BOOLEAN]
                   /\ powerOffTimer' >= PowerOffFrames => "held" \in why'
                   /\ wants' => why' # {}
                   /\ ButtonInv'
<1>6. ASSUME ~setup.redirect PROVE Good
  <2>1. powerOffTimer' = 0 /\ wants' = wants /\ button' = button
    BY <1>1, <1>3, <1>4, <1>6 DEF Collected, Timer, Wants
  <2>2. UNCHANGED history
    BY <1>1, <1>6 DEF Observed
  <2>3. QED
    BY <1>2, <1>3, <1>4, <2>1, <2>2 DEF history, ButtonInv
<1>7. ASSUME setup.redirect, ~ok PROVE Good
  <2>1. powerOffTimer' = 0 /\ wants' = TRUE /\ button' = button
    BY <1>1, <1>3, <1>7 DEF Collected, Timer, Wants
  <2>2. /\ frames' = frames /\ letGo' = letGo
        /\ why' = why \cup {"misread"}
    BY <1>1, <1>7 DEF Observed
  <2>3. QED
    BY <1>2, <1>3, <1>4, <2>1, <2>2 DEF ButtonInv
<1>8. ASSUME setup.redirect, ok PROVE Good
  <2>1. /\ powerOffTimer' = Timer(button.pressed, button.released)
        /\ wants' = (wants \/ button.released)
    BY <1>1, <1>3, <1>8 DEF Collected, Wants
  <2>2. /\ button' \in [down: BOOLEAN, pressed: BOOLEAN, released: BOOLEAN]
        /\ button'.down = button.down /\ ~button'.pressed /\ ~button'.released
    BY <1>1, <1>3, <1>8
  <2>3. /\ letGo' = FALSE
        /\ frames' = CASE ~button.down -> 0
                       [] button.down /\ letGo -> 1
                       [] OTHER -> OneMore(frames)
        /\ why' = why \cup (IF letGo THEN {"released"} ELSE {})
                      \cup (IF frames' = PowerOffFrames THEN {"held"} ELSE {})
    BY <1>1, <1>8 DEF Observed
  <2>4. wants' => why' # {}
    BY <1>4, <2>1, <2>3
  <2>5. why' \in SUBSET {"combo", "released", "held", "misread"}
    BY <1>3, <2>3
  <2>6. /\ frames' \in 0..PowerOffFrames /\ powerOffTimer' \in 0..frames'
        /\ ~button.down => powerOffTimer' = 0
    <3>1. CASE letGo
      <4>1. powerOffTimer' = 0
        BY <1>4, <2>1, <3>1 DEF Timer
      <4>2. frames' \in 0..1
        BY <1>3, <2>3, <3>1
      <4>3. QED
        BY <4>1, <4>2
    <3>2. CASE ~letGo /\ button.down
      <4>1. frames' = OneMore(frames)
        BY <1>3, <2>3, <3>2
      <4>2. powerOffTimer' \in {OneMore(powerOffTimer), powerOffTimer}
        BY <1>4, <2>1, <3>2 DEF Timer
      <4>3. QED
        BY <1>3, <3>2, <4>1, <4>2 DEF OneMore
    <3>3. CASE ~letGo /\ ~button.down
      <4>1. frames' = 0
        BY <1>3, <2>3, <3>3
      <4>2. powerOffTimer' = 0
        BY <1>4, <2>1, <3>3 DEF Timer
      <4>3. QED
        BY <4>1, <4>2
    <3>4. QED
      BY <3>1, <3>2, <3>3
  <2>7. powerOffTimer' >= PowerOffFrames => "held" \in why'
    BY <2>3, <2>6
  <2>8. wants' \in BOOLEAN
    BY <1>3, <2>1
  <2>9. ButtonInv'
    BY <1>2, <1>8, <2>2, <2>3, <2>6 DEF ButtonInv
  <2>10. QED
    BY <2>2, <2>3, <2>4, <2>5, <2>6, <2>7, <2>8, <2>9
<1>9. Good
  BY <1>6, <1>7, <1>8
<1>10. unheard' = unheard
  BY <1>1 DEF Observed, history
<1>11. TypeOK'
  BY <1>2, <1>5, <1>9, <1>10 DEF IInv, TypeOK
<1>12. SetupInv'
  BY <1>2 DEF IInv, SetupInv, Boots, Target
<1>13. ReasonInv'
  BY <1>2, <1>9 DEF ReasonInv, Resets
<1>14. CleanInv'
  BY <1>2, <1>5, <1>10 DEF IInv, CleanInv, Boots, Resets, Overwritten
<1>15. ParamsInv'
  BY <1>2 DEF IInv, ParamsInv, Target, BelowGame, Supported
<1>16. QED
  BY <1>9, <1>11, <1>12, <1>13, <1>14, <1>15 DEF IInv

LEMMA ShutDownInv ==
  ASSUME IInv, ShutDown
  PROVE  IInv'
<1>1. PICK ok \in BOOLEAN :
        /\ Transfer(ok)
        /\ IF ok THEN machine' = "off" /\ UNCHANGED <<pc, wants>>
           ELSE pc' = "decide" /\ wants' = TRUE /\ UNCHANGED machine
  BY DEF ShutDown
<1>2. /\ pc = "shutdown" /\ pc' \in {"shutdown", "decide"}
      /\ machine' \in {"off", machine} /\ wants' \in {TRUE, wants}
      /\ setup' = setup /\ boot_type' = boot_type /\ reset_data' = reset_data
      /\ ram' = ram /\ chip' = chip /\ button' = button /\ combo' = combo
      /\ powerOffTimer' = powerOffTimer /\ muted' = muted
      /\ UNCHANGED history
  BY <1>1 DEF ShutDown
<1>3. failures' \in 0..MaxFailures /\ (failures' = 0 => failures = 0)
  BY <1>1, TransferCounts DEF IInv, TypeOK
<1> USE DEF history
<1>4. TypeOK'
  <2>1. wants' \in BOOLEAN
    <3>1. wants \in BOOLEAN
      BY DEF IInv, TypeOK
    <3>2. QED
      BY Zenon, <1>1, <3>1
  <2>2. QED
    BY <1>2, <1>3, <2>1 DEF IInv, TypeOK
<1>5. SetupInv'
  BY <1>2 DEF IInv, SetupInv, Boots, Target
<1>6. ButtonInv'
  BY <1>2 DEF IInv, ButtonInv
<1>7. ReasonInv'
  BY <1>2 DEF IInv, ReasonInv, Resets
<1>8. CleanInv'
  BY <1>2, <1>3 DEF IInv, CleanInv, Boots, Resets, Overwritten
<1>9. ParamsInv'
  BY <1>2 DEF IInv, ParamsInv, Target, BelowGame, Supported
<1>10. QED
  BY <1>4, <1>5, <1>6, <1>7, <1>8, <1>9 DEF IInv

LEMMA DecideInv ==
  ASSUME IInv, Decide
  PROVE  IInv'
<1> USE DEF Decide, history
<1>1. TypeOK'
  <2>1. muted' \in BOOLEAN
    <3>1. muted \in BOOLEAN
      BY DEF IInv, TypeOK
    <3>2. QED
      BY Zenon, <3>1
  <2>2. pc' \in {"unlaunch", "game"}
    OBVIOUS
  <2>3. QED
    BY <2>1, <2>2 DEF IInv, TypeOK, Resets
<1>2. SetupInv'
  BY DEF IInv, SetupInv, Boots, Resets, Target
<1>3. ButtonInv'
  BY DEF IInv, ButtonInv
<1>4. ReasonInv'
  BY DEF IInv, ReasonInv, Resets
<1>5. CleanInv'
  BY DEF IInv, CleanInv, Boots, Resets, Overwritten
<1>6. ParamsInv'
  BY DEF IInv, ParamsInv, Target, BelowGame, Supported
<1>7. QED
  BY <1>1, <1>2, <1>3, <1>4, <1>5, <1>6 DEF IInv

LEMMA FillUnlaunchInv ==
  ASSUME IInv, FillUnlaunch
  PROVE  IInv'
<1> USE DEF FillUnlaunch, Fill, handler, history
<1>a. ram \in RamType /\ RebootType = boot_type /\ boot_type \in BootTypes
  BY TypeKept DEF IInv, TypeOK, RamType
<1>b. /\ ram' \in RamType /\ boot_type' = boot_type
      /\ ram'.params = ram.params /\ ram'.load = ram.load
      /\ ram'.valid = ram.valid
      /\ ram'.unlaunch <=> ram.unlaunch \/ boot_type = "sd"
  BY <1>a, UnlaunchFilled
<1>1. TypeOK'
  BY <1>b DEF IInv, TypeOK, RamType, Boots, Resets
<1>2. SetupInv'
  BY <1>b DEF IInv, SetupInv, Boots, Target
<1>3. ButtonInv'
  BY DEF IInv, ButtonInv
<1>4. ReasonInv'
  BY DEF IInv, ReasonInv, Resets
<1>5. CleanInv'
  BY <1>b DEF IInv, CleanInv, Boots, Resets, Overwritten
<1>6. ParamsInv'
  BY <1>a, <1>b DEF IInv, ParamsInv, SetupInv, Boots, Target, BelowGame, Supported
<1>7. QED
  BY <1>1, <1>2, <1>3, <1>4, <1>5, <1>6 DEF IInv

LEMMA FillParamsInv ==
  ASSUME IInv, FillParams
  PROVE  IInv'
<1> USE DEF FillParams, Fill, handler, history
<1>a. ram \in RamType /\ RebootType = boot_type /\ boot_type \in BootTypes
  BY TypeKept DEF IInv, TypeOK, RamType
<1>b. /\ ram' \in RamType /\ boot_type' = boot_type
      /\ ram'.unlaunch = ram.unlaunch
      /\ ram'.params = "flags" /\ ram'.load = "zero" /\ ram'.valid = FALSE
  BY <1>a, ParamsFilled
<1>1. TypeOK'
  BY <1>b DEF IInv, TypeOK, RamType, Boots, Resets
<1>2. SetupInv'
  BY <1>b DEF IInv, SetupInv, Boots, Target
<1>3. ButtonInv'
  BY DEF IInv, ButtonInv
<1>4. ReasonInv'
  BY DEF IInv, ReasonInv, Resets
<1>5. CleanInv'
  BY <1>b DEF IInv, CleanInv, Boots, Resets, Overwritten
<1>6. ParamsInv'
  BY <1>a, <1>b DEF IInv, ParamsInv, SetupInv, Boots, Target, BelowGame, Supported
<1>7. QED
  BY <1>1, <1>2, <1>3, <1>4, <1>5, <1>6 DEF IInv

LEMMA FillLoadInv ==
  ASSUME IInv, FillLoad
  PROVE  IInv'
<1> USE DEF FillLoad, Fill, handler, history
<1>a. ram \in RamType /\ RebootType = boot_type /\ boot_type \in BootTypes
  BY TypeKept DEF IInv, TypeOK, RamType
<1>c. reset_data \in {"zero", "launcher", "self"} /\ reset_data = Target
  BY DEF IInv, TypeOK, SetupInv, Boots
<1>b. /\ ram' \in RamType /\ boot_type' = boot_type
      /\ ram'.unlaunch = ram.unlaunch /\ ram'.params = ram.params
      /\ ram'.valid = ram.valid
      /\ boot_type \in Supported => ram'.load = Target
  BY <1>a, <1>c, LoadFilled
<1>1. TypeOK'
  BY <1>b DEF IInv, TypeOK, RamType, Boots, Resets
<1>2. SetupInv'
  BY <1>b DEF IInv, SetupInv, Boots, Target
<1>3. ButtonInv'
  BY DEF IInv, ButtonInv
<1>4. ReasonInv'
  BY DEF IInv, ReasonInv, Resets
<1>5. CleanInv'
  BY <1>b DEF IInv, CleanInv, Boots, Resets, Overwritten
<1>6. ParamsInv'
  BY <1>a, <1>b DEF IInv, ParamsInv, SetupInv, Boots, Target, BelowGame, Supported
<1>7. QED
  BY <1>1, <1>2, <1>3, <1>4, <1>5, <1>6 DEF IInv

LEMMA FillSealInv ==
  ASSUME IInv, FillSeal
  PROVE  IInv'
<1> USE DEF FillSeal, Fill, handler, history
<1>a. ram \in RamType /\ RebootType = boot_type /\ boot_type \in BootTypes
  BY TypeKept DEF IInv, TypeOK, RamType
<1>b. /\ ram' \in RamType /\ boot_type' = boot_type
      /\ ram'.unlaunch = ram.unlaunch /\ ram'.params = ram.params
      /\ ram'.load = ram.load
      /\ ram'.valid <=> boot_type \in Supported
  BY <1>a, SealFilled
<1>1. TypeOK'
  BY <1>b DEF IInv, TypeOK, RamType, Boots, Resets
<1>2. SetupInv'
  BY <1>b DEF IInv, SetupInv, Boots, Target
<1>3. ButtonInv'
  BY DEF IInv, ButtonInv
<1>4. ReasonInv'
  BY DEF IInv, ReasonInv, Resets
<1>5. CleanInv'
  BY <1>b DEF IInv, CleanInv, Boots, Resets, Overwritten
<1>6. ParamsInv'
  BY <1>a, <1>b DEF IInv, ParamsInv, SetupInv, Boots, Target, BelowGame, Supported
<1>7. QED
  BY <1>1, <1>2, <1>3, <1>4, <1>5, <1>6 DEF IInv

LEMMA WriteRebootInv ==
  ASSUME IInv, WriteReboot, machine = "on"
  PROVE  IInv'
<1>1. PICK ok \in BOOLEAN :
        /\ Transfer(ok)
        /\ IF ok THEN machine' = "reset" /\ UNCHANGED <<pc, unheard>>
           ELSE pc' = "game" /\ unheard' = TRUE /\ UNCHANGED machine
  BY DEF WriteReboot
<1>2. /\ pc = "reboot" /\ pc' \in {"reboot", "game"}
      /\ machine' \in {"reset", machine} /\ (pc' = "game" => ~ok)
      /\ ~ok => machine' = machine /\ pc' = "game"
      /\ ok => pc' = "reboot"
      /\ setup' = setup /\ boot_type' = boot_type /\ reset_data' = reset_data
      /\ ram' = ram /\ chip' = chip /\ button' = button /\ combo' = combo
      /\ wants' = wants /\ powerOffTimer' = powerOffTimer /\ muted' = muted
      /\ frames' = frames /\ letGo' = letGo /\ why' = why
      /\ unheard' \in BOOLEAN /\ (pc' = "game" => unheard')
  <2>1. unheard \in BOOLEAN
    BY DEF IInv, TypeOK
  <2>2. unheard' \in BOOLEAN
    BY <1>1, <2>1
  <2>3. QED
    BY <1>1, <2>2 DEF WriteReboot, handler
<1>3. failures' \in 0..MaxFailures /\ (failures' = 0 => failures = 0 /\ ok)
  BY <1>1, TransferCounts DEF IInv, TypeOK
<1>4. TypeOK'
  BY <1>2, <1>3 DEF IInv, TypeOK, Resets
<1>5. SetupInv'
  BY <1>2 DEF IInv, SetupInv, Boots, Target
<1>6. ButtonInv'
  BY <1>2 DEF IInv, ButtonInv
<1>7. ReasonInv'
  BY <1>2 DEF IInv, ReasonInv, Resets
<1>8. CleanInv'
  BY <1>2, <1>3 DEF IInv, CleanInv, Boots, Resets, Overwritten
<1>9. ParamsInv'
  BY <1>2 DEF IInv, ParamsInv, Target, BelowGame, Supported
<1>10. QED
  BY <1>4, <1>5, <1>6, <1>7, <1>8, <1>9 DEF IInv

LEMMA UserInv ==
  ASSUME IInv, User
  PROVE  IInv'
<1>1. /\ pc' = pc /\ setup' = setup /\ boot_type' = boot_type
      /\ reset_data' = reset_data /\ ram' = ram /\ chip' = chip
      /\ wants' = wants /\ powerOffTimer' = powerOffTimer /\ muted' = muted
      /\ failures' = failures /\ frames' = frames /\ why' = why
      /\ unheard' = unheard
  BY DEF User, handler
<1>2. button \in [down: BOOLEAN, pressed: BOOLEAN, released: BOOLEAN]
  BY DEF IInv, TypeOK
<1>3. /\ button' \in [down: BOOLEAN, pressed: BOOLEAN, released: BOOLEAN]
      /\ letGo' \in BOOLEAN /\ combo' \in BOOLEAN
      /\ machine' \in {"on", "off", "tapped"}
      /\ ButtonInv'
  <2>1. CASE PressPower
    BY <1>1, <1>2, <2>1 DEF User, PressPower, IInv, TypeOK, ButtonInv
  <2>2. CASE ReleasePower
    BY <1>1, <1>2, <2>2 DEF User, ReleasePower, IInv, TypeOK, ButtonInv
  <2>3. CASE ChipPowersOff
    BY <1>1, <1>2, <2>3 DEF ChipPowersOff, IInv, TypeOK, ButtonInv
  <2>4. CASE ChangeCombo
    BY <1>1, <1>2, <2>4 DEF User, ChangeCombo, IInv, TypeOK, ButtonInv
  <2>5. QED
    BY <2>1, <2>2, <2>3, <2>4 DEF User
<1>4. TypeOK'
  BY <1>1, <1>3 DEF IInv, TypeOK
<1>5. SetupInv'
  BY <1>1, <1>3 DEF IInv, SetupInv, Target
<1>6. ReasonInv'
  BY <1>1 DEF IInv, ReasonInv
<1>7. CleanInv'
  BY <1>1 DEF IInv, CleanInv, Overwritten
<1>8. ParamsInv'
  BY <1>1 DEF IInv, ParamsInv, Target, BelowGame
<1>9. QED
  BY <1>3, <1>4, <1>5, <1>6, <1>7, <1>8 DEF IInv

-----------------------------------------------------------------------------
(* The theorems.                                                           *)

(* The invariant holds throughout.                                         *)
THEOREM Invariance == Spec => []IInv
<1>1. ASSUME IInv, [Next]_vars PROVE IInv'
  <2>1. CASE Arm7
    BY <1>1, <2>1, PrepareRebootInv, SetPowerModeInv, SetBootFlagInv,
       VBlankInv, ReadPowerInv, ShutDownInv, DecideInv, FillUnlaunchInv,
       FillParamsInv, FillLoadInv, FillSealInv, WriteModeInv, WriteFlagInv,
       WriteRebootInv DEF Arm7
  <2>2. CASE User
    BY <1>1, <2>2, UserInv
  <2>3. CASE UNCHANGED vars
    <3> USE <2>3 DEF vars, handler, history
    <3>1. TypeOK' /\ SetupInv' /\ ButtonInv'
      BY <1>1 DEF IInv, TypeOK, SetupInv, ButtonInv, Target
    <3>2. ReasonInv' /\ CleanInv'
      BY <1>1 DEF IInv, ReasonInv, CleanInv, Overwritten
    <3>3. ParamsInv'
      BY <1>1 DEF IInv, ParamsInv, Target, BelowGame
    <3>4. QED
      BY <3>1, <3>2, <3>3 DEF IInv
  <2>4. QED
    BY <1>1, <2>1, <2>2, <2>3 DEF Next
<1>2. QED
  BY <1>1, InitIInv, PTL DEF Spec

(* Types; the power-off count never runs ahead of the reads.               *)
THEOREM TypeCorrect == Spec => []TypeOK
<1>1. IInv => TypeOK
  BY DEF IInv
<1>2. QED
  BY <1>1, Invariance, PTL

(* Neither power-off nor reset without a reason.                           *)
THEOREM NeverUnasked == Spec => []OnlyWhenAsked
<1>1. IInv => OnlyWhenAsked
  BY DEF IInv, ReasonInv, OnlyWhenAsked
<1>2. QED
  BY <1>1, Invariance, PTL

(* A game that goes on running is intact unless a transfer has failed.     *)
THEOREM GameUntouched == Spec => []GameIntact
<1>1. IInv => GameIntact
  BY DEF IInv, CleanInv, GameIntact
<1>2. QED
  BY <1>1, Invariance, PTL

(* The next boot finds the launcher or nothing.                            *)
THEOREM FindsLauncher == Spec => []BackToLauncher
<1>1. ASSUME IInv PROVE BackToLauncher
  <2>1. ram.valid => /\ boot_type \in Supported /\ ram.load = Target
                     /\ ram.params = "flags"
                     /\ boot_type = "sd" => ram.unlaunch
    BY <1>1 DEF IInv, ParamsInv
  <2>2. ASSUME machine = "reset", failures = 0, boot_type \in Supported
        PROVE  ram.valid /\ chip.warm /\ chip.twl
    BY <1>1, <2>2 DEF IInv, SetupInv, ParamsInv, CleanInv, Boots
  <2>3. ASSUME machine = "tapped", pc = "game", ~setup.engine, setup.redirect,
               BelowGame, failures = 0, boot_type \in Supported
        PROVE  ram.valid /\ chip.warm
    BY <1>1, <2>3 DEF IInv, ParamsInv, CleanInv, Boots
  <2>4. QED
    BY <2>1, <2>2, <2>3 DEF BackToLauncher, BelowGame
<1>2. QED
  BY <1>1, Invariance, PTL

-----------------------------------------------------------------------------
(* The cheat engine.                                                       *)

AllHold(c) == \A i \in 1..Len(c) : c[i]

(* A place in the list where a code stands.                                *)
CodeAt(i) == i \in 1..Len(list) /\ list[i].op # "data"

PlaceInv ==
  /\ list \in Lists
  /\ CodeAt(next)
  /\ loopStart <= next
  /\ repeats > 0 => CodeAt(loopStart)

(* Only the innermost open condition may fail, and it is bit 0.            *)
StatusInv ==
  ~nested =>
    /\ status = 0 => AllHold(conds)
    /\ status = 1 => /\ Len(conds) > 0 /\ ~conds[Len(conds)]
                     /\ \A i \in 1..Len(conds) - 1 : conds[i]
    /\ AllHold(loopConds)

CheatIInv == CheatTypeOK /\ PlaceInv /\ StatusInv

-----------------------------------------------------------------------------

(* The code to be executed is a unit of a well-formed list.                *)
LEMMA CodeIsUnit ==
  ASSUME CheatIInv
  PROVE  WellFormed(list) /\ code \in Units
<1>1. list \in Seq(Units) /\ WellFormed(list)
  BY CheatEngineAssumption DEF CheatIInv, PlaceInv
<1>2. next \in 1..Len(list)
  BY DEF CheatIInv, CheatTypeOK
<1>3. code \in Units
  BY <1>1, <1>2, ElementOfSeq DEF code
<1> QED BY <1>1, <1>3

(* Sums of addresses and values are addresses and values.                  *)
LEMMA PlusIsWord ==
  ASSUME NEW a \in Words, NEW b \in Words
  PROVE  Plus(a, b) \in Words
BY CheatEngineAssumption DEF Plus, Words

(* The number of bytes a code carries is a number; only the carriers carry *)
(* any.                                                                    *)
LEMMA CarriesNat ==
  ASSUME NEW c \in Units
  PROVE  /\ Carries(c) \in Nat
         /\ c.op \notin Carriers => Carries(c) = 0
BY DEF Carries, Units, Carriers

(* Behind a code and its data there is a code again.                       *)
LEMMA Onward ==
  ASSUME CheatIInv, code.op # "end"
  PROVE  /\ CodeAt(AfterData) /\ AfterData > next
         /\ code.op \notin Carriers => AfterData = Successor
<1>1. WellFormed(list) /\ code \in Units
  BY CodeIsUnit
<1>2. next \in 1..Len(list) /\ code.op # "data"
  BY DEF CheatIInv, CheatTypeOK, PlaceInv, CodeAt, code
<1>3. /\ Carries(code) \in Nat
      /\ code.op \notin Carriers => Carries(code) = 0
  BY <1>1, CarriesNat
<1>4. Len(list) \in Nat
  BY LenProperties DEF CheatIInv, CheatTypeOK
<1>5. AfterData = next + 1 + (Carries(code) + 7) \div 8
  BY DEF AfterData, Align
<1>6. (Carries(code) + 7) \div 8 \in Nat
  BY <1>3
<1>7. AfterData \in Nat /\ AfterData > next
  BY <1>2, <1>4, <1>5, <1>6
<1>8. AfterData <= Len(list) /\ list[AfterData].op # "data"
  BY <1>1, <1>2, <1>5 DEF WellFormed, code
<1>9. CodeAt(AfterData)
  BY <1>2, <1>4, <1>7, <1>8 DEF CodeAt
<1>10. ASSUME code.op \notin Carriers PROVE AfterData = Successor
  <2>1. Carries(code) = 0
    BY <1>3, <1>10
  <2>2. (0 + 7) \div 8 = 0
    OBVIOUS
  <2> QED BY <1>2, <1>5, <2>1, <2>2 DEF Successor
<1> QED BY <1>7, <1>9, <1>10

(* A step on in the list that starts no loop keeps the place right.        *)
LEMMA StepOn ==
  ASSUME CheatIInv, code.op # "end", Go(AfterData), UNCHANGED loop
  PROVE  /\ PlaceInv'
         /\ list' \in Seq(Units) /\ running' \in BOOLEAN
         /\ next' \in 1..Len(list') /\ counter' \in Words
         /\ loopStatus' = 0 /\ loopStart' \in 0..Len(list')
         /\ repeats' \in Nat
         /\ loopStart' = loopStart /\ repeats' = repeats /\ next' > next
<1>1. CodeAt(AfterData) /\ AfterData > next
  BY Onward
<1>2. /\ next' = AfterData
      /\ list' = list /\ running' = running /\ counter' = counter
      /\ loopStatus' = loopStatus /\ loopStart' = loopStart
      /\ repeats' = repeats
  BY DEF Go, loop
<1>3. /\ list \in Seq(Units) /\ running \in BOOLEAN /\ counter \in Words
      /\ next \in 1..Len(list) /\ loopStatus = 0
      /\ loopStart \in 0..Len(list) /\ repeats \in Nat
  BY DEF CheatIInv, CheatTypeOK
<1>4. list \in Lists /\ loopStart <= next /\ (repeats > 0 => CodeAt(loopStart))
  BY DEF CheatIInv, PlaceInv
<1>5. Len(list) \in Nat
  BY <1>3, LenProperties
<1>6. AfterData \in 1..Len(list)
  BY <1>1 DEF CodeAt
<1>7. CodeAt(next)' /\ (repeats' > 0 => CodeAt(loopStart)')
  BY <1>1, <1>2, <1>4 DEF CodeAt
<1>8. loopStart' <= next'
  BY <1>1, <1>2, <1>3, <1>4, <1>5, <1>6
<1>9. PlaceInv'
  BY <1>2, <1>4, <1>7, <1>8 DEF PlaceInv
<1>10. next' \in 1..Len(list') /\ loopStart' \in 0..Len(list') /\ next' > next
  BY <1>1, <1>2, <1>3, <1>6
<1> QED BY <1>2, <1>3, <1>9, <1>10

(* A code that carries no data goes on to the next unit.                   *)
LEMMA NextUnit ==
  ASSUME CheatIInv, code.op \notin Carriers \cup {"end"}, Go(Successor)
  PROVE  Go(AfterData)
BY Onward DEF Go

(* What is executed although it looks at the status is executed with none. *)
LEMMA ExecutedAtZero ==
  ASSUME CheatIInv, NEW ops \in SUBSET (Gated \cup Carriers \cup {"loop"}),
         Executes(ops)
  PROVE  status = 0
<1>1. status \in 0..1
  BY DEF CheatIInv, CheatTypeOK
<1>2. Executing
  BY DEF Executes, Skipped
<1> QED BY <1>1, <1>2 DEF Executing

(* Nothing of the conditions changes.                                      *)
LEMMA SameStatus ==
  ASSUME CheatIInv, UNCHANGED <<status, cheatHistory>>
  PROVE  /\ StatusInv'
         /\ status' \in 0..1 /\ conds' \in Seq(BOOLEAN)
         /\ loopConds' \in Seq(BOOLEAN) /\ nested' \in BOOLEAN
<1>1. /\ status' = status /\ conds' = conds /\ loopConds' = loopConds
      /\ nested' = nested
  BY DEF cheatHistory
<1> QED BY <1>1 DEF CheatIInv, CheatTypeOK, StatusInv, AllHold

LEMMA InitCheatIInv ==
  ASSUME CheatInit
  PROVE  CheatIInv
<1> USE DEF CheatInit
<1>1. list \in Seq(Units) /\ WellFormed(list)
  BY CheatEngineAssumption
<1>2. Len(list) \in Nat /\ Len(list) # 0
  BY <1>1, LenProperties, EmptySeq DEF WellFormed
<1>3. PlaceInv
  BY <1>1, <1>2 DEF PlaceInv, CodeAt, WellFormed
<1>4. StatusInv
  BY DEF StatusInv, AllHold
<1>5. 0 \in Words
  BY CheatEngineAssumption DEF Words
<1>6. << >> \in Seq(BOOLEAN)
  OBVIOUS
<1>7. CheatTypeOK
  BY <1>1, <1>2, <1>5, <1>6 DEF CheatTypeOK
<1> QED BY <1>3, <1>4, <1>7 DEF CheatIInv

-----------------------------------------------------------------------------
(* One lemma per action: the invariant, and that the step goes on.         *)

Onwards ==
  \/ ~running'
  \/ loopStart' > loopStart
  \/ loopStart' = loopStart /\ repeats' < repeats
  \/ loopStart' = loopStart /\ repeats' = repeats /\ next' > next

LEMMA SkipStep ==
  ASSUME CheatIInv, Skip
  PROVE  CheatIInv' /\ Onwards
<1>1. Skipped /\ Go(AfterData) /\ UNCHANGED <<status, loop, offset, data, mem>>
  BY DEF Skip
<1>2. code.op # "end"
  BY <1>1 DEF Skipped, Gated, Writes, Conditions, Carriers
<1>3. /\ PlaceInv'
      /\ list' \in Seq(Units) /\ running' \in BOOLEAN
      /\ next' \in 1..Len(list') /\ counter' \in Words
      /\ loopStatus' = 0 /\ loopStart' \in 0..Len(list')
      /\ repeats' \in Nat
      /\ loopStart' = loopStart /\ repeats' = repeats /\ next' > next
  BY <1>1, <1>2, StepOn
<1>4. /\ status' = status /\ status \in 0..1 /\ conds \in Seq(BOOLEAN)
      /\ loopConds \in Seq(BOOLEAN) /\ nested \in BOOLEAN
      /\ offset' \in Words /\ data' \in Words /\ mem' \in [Words -> Words]
  BY <1>1 DEF CheatIInv, CheatTypeOK
<1>5. Append(conds, FALSE) \in Seq(BOOLEAN)
  BY <1>4, AppendProperties
<1>6. conds' \in Seq(BOOLEAN)
  BY <1>4, <1>5 DEF Skip
<1>7. loopConds' \in Seq(BOOLEAN)
  BY <1>4 DEF Skip
<1>8. nested' \in BOOLEAN
  BY <1>4, Zenon DEF Skip
<1>9. CheatTypeOK'
  BY <1>3, <1>4, <1>6, <1>7, <1>8 DEF CheatTypeOK
<1>10. ASSUME ~nested'
       PROVE  ~nested /\ conds' = conds /\ loopConds' = loopConds
  BY <1>10 DEF Skip
<1>11. StatusInv'
  BY <1>4, <1>10 DEF CheatIInv, StatusInv, AllHold
<1> QED BY <1>3, <1>9, <1>11 DEF CheatIInv, Onwards

(* A step on that leaves loops and conditions alone.                       *)
LEMMA PlainStep ==
  ASSUME CheatIInv, code.op # "end", Go(AfterData),
         UNCHANGED <<status, loop, cheatHistory>>,
         offset' \in Words, data' \in Words, mem' \in [Words -> Words]
  PROVE  CheatIInv' /\ Onwards
<1>1. UNCHANGED loop /\ UNCHANGED <<status, cheatHistory>>
  OBVIOUS
<1>2. /\ PlaceInv'
      /\ list' \in Seq(Units) /\ running' \in BOOLEAN
      /\ next' \in 1..Len(list') /\ counter' \in Words
      /\ loopStatus' = 0 /\ loopStart' \in 0..Len(list')
      /\ repeats' \in Nat
      /\ loopStart' = loopStart /\ repeats' = repeats /\ next' > next
  BY <1>1, StepOn
<1>3. /\ StatusInv'
      /\ status' \in 0..1 /\ conds' \in Seq(BOOLEAN)
      /\ loopConds' \in Seq(BOOLEAN) /\ nested' \in BOOLEAN
  BY <1>1, SameStatus
<1>4. CheatTypeOK'
  BY <1>2, <1>3 DEF CheatTypeOK
<1> QED BY <1>2, <1>3, <1>4 DEF CheatIInv, Onwards

(* The values a code and the registers hold.                               *)
LEMMA Values ==
  ASSUME CheatIInv
  PROVE  /\ code.at \in Words /\ code.value \in Words /\ code.n \in Nat
         /\ offset \in Words /\ data \in Words /\ mem \in [Words -> Words]
<1>1. code \in Units
  BY CodeIsUnit
<1> QED BY <1>1 DEF Units, CheatIInv, CheatTypeOK

LEMMA WriteStep ==
  ASSUME CheatIInv, Write
  PROVE  CheatIInv' /\ Onwards
<1>1. /\ code.op \in {"write", "copy"} /\ Go(Successor)
      /\ UNCHANGED <<status, loop, cheatHistory>>
      /\ offset' = offset /\ data' = data
  BY DEF Write, Executes
<1>2. code.op \notin Carriers \cup {"end"}
  BY <1>1 DEF Carriers
<1>3. Go(AfterData)
  BY <1>1, <1>2, NextUnit
<1>4. /\ code.at \in Words /\ code.value \in Words
      /\ offset \in Words /\ data \in Words /\ mem \in [Words -> Words]
  BY Values
<1>5. mem' \in [Words -> Words]
  BY <1>4 DEF Write
<1> QED BY <1>1, <1>2, <1>3, <1>4, <1>5, PlainStep

LEMMA SetOffsetStep ==
  ASSUME CheatIInv, SetOffset
  PROVE  CheatIInv' /\ Onwards
<1>1. /\ code.op \in {"loadoffset", "codeoffset", "setoffset", "addoffset"}
      /\ Go(Successor) /\ UNCHANGED <<status, loop, cheatHistory>>
      /\ data' = data /\ mem' = mem
  BY DEF SetOffset, Executes
<1>2. code.op \notin Carriers \cup {"end"}
  BY <1>1 DEF Carriers
<1>3. Go(AfterData)
  BY <1>1, <1>2, NextUnit
<1>4. /\ code.at \in Words /\ code.value \in Words
      /\ offset \in Words /\ data \in Words /\ mem \in [Words -> Words]
  BY Values
<1>5. /\ mem[Plus(code.at, offset)] \in Words
      /\ Plus(offset, code.value) \in Words
  BY <1>4, PlusIsWord
<1>6. offset' \in Words
  BY <1>1, <1>4, <1>5 DEF SetOffset
<1> QED BY <1>1, <1>2, <1>3, <1>4, <1>6, PlainStep

LEMMA CallStep ==
  ASSUME CheatIInv, Call
  PROVE  CheatIInv' /\ Onwards
<1>1. /\ code.op \in {"remote", "custom"} /\ Go(AfterData)
      /\ UNCHANGED <<status, loop, cheatHistory>>
      /\ offset' = offset /\ data' = data
  BY DEF Call, Executes
<1>2. offset \in Words /\ data \in Words /\ mem \in [Words -> Words]
  BY Values
<1>3. mem' \in [Words -> Words]
  BY <1>2 DEF Call
<1> QED BY <1>1, <1>2, <1>3, PlainStep

LEMMA SetDataStep ==
  ASSUME CheatIInv, SetData
  PROVE  CheatIInv' /\ Onwards
<1>1. /\ code.op \in {"setdata", "dataop", "loaddata"}
      /\ Go(Successor) /\ UNCHANGED <<status, loop, cheatHistory>>
      /\ offset' = offset /\ mem' = mem
  BY DEF SetData, Executes
<1>2. code.op \notin Carriers \cup {"end"}
  BY <1>1 DEF Carriers
<1>3. Go(AfterData)
  BY <1>1, <1>2, NextUnit
<1>4. /\ code.value \in Words
      /\ offset \in Words /\ data \in Words /\ mem \in [Words -> Words]
  BY Values
<1>5. /\ mem[Plus(code.value, offset)] \in Words
      /\ Plus(data, code.value) \in Words
  BY <1>4, PlusIsWord
<1>6. data' \in Words
  BY <1>1, <1>4, <1>5 DEF SetData
<1> QED BY <1>1, <1>2, <1>3, <1>4, <1>6, PlainStep

LEMMA StoreStep ==
  ASSUME CheatIInv, Store
  PROVE  CheatIInv' /\ Onwards
<1>1. /\ code.op \in {"storedata", "saveoffset"}
      /\ Go(Successor) /\ UNCHANGED <<status, loop, cheatHistory>>
      /\ data' = data
  BY DEF Store, Executes
<1>2. code.op \notin Carriers \cup {"end"}
  BY <1>1 DEF Carriers
<1>3. Go(AfterData)
  BY <1>1, <1>2, NextUnit
<1>4. /\ offset \in Words /\ data \in Words /\ mem \in [Words -> Words]
  BY Values
<1>5. Plus(offset, 1) \in Words
  BY <1>4, CheatEngineAssumption DEF Plus, Words
<1>6. offset' \in Words
  BY <1>4, <1>5 DEF Store
<1>7. mem' \in [Words -> Words]
  BY <1>4 DEF Store
<1> QED BY <1>1, <1>2, <1>3, <1>4, <1>6, <1>7, PlainStep

LEMMA PatchStep ==
  ASSUME CheatIInv, Patch
  PROVE  CheatIInv' /\ Onwards
<1>1. /\ code.op = "patch" /\ Go(AfterData)
      /\ UNCHANGED <<status, loop, cheatHistory>>
      /\ offset' = offset /\ data' = data
  BY DEF Patch, Executes
<1>2. /\ code.value \in Words
      /\ offset \in Words /\ data \in Words /\ mem \in [Words -> Words]
  BY Values
<1>3. mem' \in [Words -> Words]
  BY <1>2 DEF Patch
<1> QED BY <1>1, <1>2, <1>3, PlainStep

(* A condition is only met with status 0, when all open ones hold.         *)
LEMMA IfStep ==
  ASSUME CheatIInv, If
  PROVE  CheatIInv' /\ Onwards
<1> DEFINE holds == IF code.op = "if" THEN Compare(code, mem[Compared])
                    ELSE counter = code.value
<1>1. /\ Executes(Conditions) /\ Go(Successor) /\ UNCHANGED loop
      /\ offset' = offset /\ data' = data /\ mem' = mem
      /\ loopConds' = loopConds /\ nested' = nested
      /\ Push(holds) /\ conds' = Append(conds, holds)
  BY DEF If
<1>2. code.op \in Conditions /\ code.op \notin Carriers \cup {"end"}
  BY <1>1 DEF Executes, Conditions, Carriers
<1>3. /\ PlaceInv'
      /\ list' \in Seq(Units) /\ running' \in BOOLEAN
      /\ next' \in 1..Len(list') /\ counter' \in Words
      /\ loopStatus' = 0 /\ loopStart' \in 0..Len(list')
      /\ repeats' \in Nat
      /\ loopStart' = loopStart /\ repeats' = repeats /\ next' > next
  BY <1>1, <1>2, NextUnit, StepOn
<1>4. status = 0
  BY <1>1, ExecutedAtZero DEF Gated
<1>5. Compare(code, mem[Compared]) \in BOOLEAN
  BY Zenon DEF Compare
<1>6. (counter = code.value) \in BOOLEAN
  OBVIOUS
<1>7. holds \in BOOLEAN
  BY <1>5, <1>6, Zenon
<1>8. /\ status' = (IF holds THEN 0 ELSE 1)
  BY <1>1, <1>4 DEF Push
<1> HIDE DEF holds
<1>9. /\ conds \in Seq(BOOLEAN) /\ loopConds' \in Seq(BOOLEAN)
      /\ nested' \in BOOLEAN
      /\ offset' \in Words /\ data' \in Words /\ mem' \in [Words -> Words]
  BY <1>1 DEF CheatIInv, CheatTypeOK
<1>10. /\ conds' \in Seq(BOOLEAN) /\ Len(conds') = Len(conds) + 1
       /\ \A i \in 1..Len(conds) : conds'[i] = conds[i]
       /\ conds'[Len(conds) + 1] = holds
  BY <1>1, <1>7, <1>9, AppendProperties
<1>11. status' \in 0..1
  BY <1>8
<1>12. CheatTypeOK'
  BY <1>3, <1>9, <1>10, <1>11 DEF CheatTypeOK
<1>13. Len(conds) \in Nat
  BY <1>9, LenProperties
<1>14. ASSUME ~nested
       PROVE  AllHold(conds) /\ AllHold(loopConds)
  BY <1>4, <1>14 DEF CheatIInv, StatusInv
<1>15. ASSUME ~nested', status' = 0
       PROVE  AllHold(conds)'
  <2>1. holds /\ AllHold(conds)
    BY <1>1, <1>7, <1>8, <1>14, <1>15
  <2>2. ASSUME NEW i \in 1..Len(conds')
        PROVE  conds'[i]
    <3>1. i \in 1..Len(conds) \/ i = Len(conds) + 1
      BY <1>10, <1>13
    <3>2. CASE i \in 1..Len(conds)
      BY <1>10, <2>1, <3>2 DEF AllHold
    <3>3. CASE i = Len(conds) + 1
      BY <1>10, <2>1, <3>3
    <3> QED BY <3>1, <3>2, <3>3
  <2> QED BY <2>2 DEF AllHold
<1>16. ASSUME ~nested', status' = 1
       PROVE  /\ Len(conds') > 0 /\ ~conds'[Len(conds')]
              /\ \A i \in 1..Len(conds') - 1 : conds'[i]
  <2>1. ~holds /\ AllHold(conds)
    BY <1>1, <1>7, <1>8, <1>14, <1>16
  <2>2. Len(conds') - 1 = Len(conds) /\ Len(conds') > 0
    BY <1>10, <1>13
  <2> QED BY <1>10, <2>1, <2>2 DEF AllHold
<1>17. ASSUME ~nested'
       PROVE  AllHold(loopConds)'
  BY <1>1, <1>14, <1>17 DEF AllHold
<1>18. StatusInv'
  BY <1>15, <1>16, <1>17 DEF StatusInv
<1> QED BY <1>3, <1>12, <1>18 DEF CheatIInv, Onwards

LEMMA LoopStartStep ==
  ASSUME CheatIInv, LoopStart
  PROVE  CheatIInv' /\ Onwards
<1>1. /\ Executes({"loop"}) /\ Go(Successor)
      /\ loopStatus' = status /\ repeats' = code.n /\ loopStart' = Successor
      /\ loopConds' = conds
      /\ UNCHANGED <<status, offset, data, mem, conds, nested>>
  BY DEF LoopStart
<1>2. code.op = "loop" /\ code.op \notin Carriers /\ code.op # "end"
  BY <1>1 DEF Executes, Carriers
<1>3. CodeAt(Successor) /\ Successor > next
  BY <1>2, Onward
<1>4. status = 0
  BY <1>1, ExecutedAtZero
<1>5. /\ next' = Successor /\ list' = list /\ running' = running
      /\ counter' = counter
  BY <1>1 DEF Go
<1>6. /\ list \in Seq(Units) /\ running \in BOOLEAN /\ counter \in Words
      /\ next \in 1..Len(list) /\ loopStart \in 0..Len(list)
      /\ offset \in Words /\ data \in Words /\ mem \in [Words -> Words]
      /\ conds \in Seq(BOOLEAN) /\ nested \in BOOLEAN
  BY DEF CheatIInv, CheatTypeOK
<1>7. Len(list) \in Nat
  BY <1>6, LenProperties
<1>8. code.n \in Nat
  BY Values
<1>9. Successor \in 1..Len(list) /\ Successor \in 0..Len(list)
  BY <1>3, <1>7 DEF CodeAt
<1>10. CheatTypeOK'
  BY <1>1, <1>4, <1>5, <1>6, <1>8, <1>9 DEF CheatTypeOK
<1>11. list \in Lists /\ loopStart <= next
  BY DEF CheatIInv, PlaceInv
<1>12. CodeAt(next)' /\ CodeAt(loopStart)'
  BY <1>1, <1>3, <1>5 DEF CodeAt
<1>13. PlaceInv'
  BY <1>1, <1>5, <1>9, <1>11, <1>12 DEF PlaceInv
<1>14. ~nested => AllHold(conds)
  BY <1>4 DEF CheatIInv, StatusInv
<1>15. StatusInv'
  BY <1>1, <1>4, <1>14 DEF StatusInv, AllHold
<1>16. loopStart' > loopStart
  BY <1>1, <1>3, <1>6, <1>7, <1>9, <1>11
<1> QED BY <1>10, <1>13, <1>15, <1>16 DEF CheatIInv, Onwards

(* The length of a sequence without its last element.                      *)
LEMMA FrontLength ==
  ASSUME NEW n \in Nat \ {0}
  PROVE  (IF 1 <= n - 1 THEN n - 1 - 1 + 1 ELSE 0) = n - 1
<1>1. CASE n = 1
  BY <1>1
<1>2. CASE n > 1
  BY <1>2
<1> QED BY <1>1, <1>2

(* Only the innermost condition can have failed, and that one is closed.   *)
LEMMA EndIfStep ==
  ASSUME CheatIInv, EndIf
  PROVE  CheatIInv' /\ Onwards
<1>1. /\ code.op = "endif" /\ Go(Successor)
      /\ status' = status \div 2
      /\ conds' = IF conds = << >> THEN conds
                  ELSE SubSeq(conds, 1, Len(conds) - 1)
      /\ UNCHANGED <<loop, offset, data, mem, loopConds, nested>>
  BY DEF EndIf, Executes
<1>2. code.op \notin Carriers \cup {"end"}
  BY <1>1 DEF Carriers
<1>3. /\ PlaceInv'
      /\ list' \in Seq(Units) /\ running' \in BOOLEAN
      /\ next' \in 1..Len(list') /\ counter' \in Words
      /\ loopStatus' = 0 /\ loopStart' \in 0..Len(list')
      /\ repeats' \in Nat
      /\ loopStart' = loopStart /\ repeats' = repeats /\ next' > next
  BY <1>1, <1>2, NextUnit, StepOn
<1>4. /\ status \in 0..1 /\ conds \in Seq(BOOLEAN)
      /\ loopConds' \in Seq(BOOLEAN) /\ nested' \in BOOLEAN
      /\ offset' \in Words /\ data' \in Words /\ mem' \in [Words -> Words]
  BY <1>1 DEF CheatIInv, CheatTypeOK
<1>5. status' = 0
  BY <1>1, <1>4
<1>6. Len(conds) \in Nat /\ \A i \in 1..Len(conds) : conds[i] \in BOOLEAN
  BY <1>4, LenProperties, ElementOfSeq
<1>7. CASE conds = << >>
  <2>1. conds' = << >>
    BY <1>1, <1>7
  <2>2. CheatTypeOK'
    BY <1>3, <1>4, <1>5, <2>1, EmptySeq DEF CheatTypeOK
  <2>3. AllHold(conds)'
    BY <2>1, EmptySeq DEF AllHold
  <2>4. ~nested' => AllHold(loopConds)'
    BY <1>1 DEF CheatIInv, StatusInv, AllHold
  <2>5. StatusInv'
    BY <1>5, <2>3, <2>4 DEF StatusInv
  <2> QED BY <1>3, <2>2, <2>5 DEF CheatIInv, Onwards
<1>8. CASE conds # << >>
  <2>1. Len(conds) \in Nat \ {0}
    BY <1>4, <1>8, EmptySeq
  <2>2. conds' = SubSeq(conds, 1, Len(conds) - 1)
    BY <1>1, <1>8
  <2>3. \A i \in 1..Len(conds) - 1 : conds[i] \in BOOLEAN
    BY <1>6, <2>1
  <2>4. 1 \in Int /\ Len(conds) - 1 \in Int
    BY <2>1
  <2>5. /\ SubSeq(conds, 1, Len(conds) - 1) \in Seq(BOOLEAN)
        /\ Len(SubSeq(conds, 1, Len(conds) - 1))
             = IF 1 <= Len(conds) - 1 THEN Len(conds) - 1 - 1 + 1 ELSE 0
        /\ \A i \in 1..Len(conds) - 1 - 1 + 1 :
             SubSeq(conds, 1, Len(conds) - 1)[i] = conds[1 + i - 1]
    BY <2>3, <2>4, SubSeqProperties
  <2>6. /\ conds' \in Seq(BOOLEAN) /\ Len(conds') = Len(conds) - 1
        /\ \A i \in 1..Len(conds) - 1 : conds'[i] = conds[i]
    <3>1. (IF 1 <= Len(conds) - 1 THEN Len(conds) - 1 - 1 + 1 ELSE 0)
            = Len(conds) - 1
      BY <2>1, FrontLength
    <3>2. Len(SubSeq(conds, 1, Len(conds) - 1)) = Len(conds) - 1
      BY <2>5, <3>1
    <3>3. \A i \in 1..Len(conds) - 1 :
            i \in 1..Len(conds) - 1 - 1 + 1 /\ conds[1 + i - 1] = conds[i]
      BY <2>1
    <3> QED BY <2>2, <2>5, <3>2, <3>3
  <2>7. CheatTypeOK'
    BY <1>3, <1>4, <1>5, <2>6 DEF CheatTypeOK
  <2>8. ASSUME ~nested
        PROVE  \A i \in 1..Len(conds) - 1 : conds[i]
    BY <1>4, <1>6, <2>1, <2>8 DEF CheatIInv, StatusInv, AllHold
  <2>9. ~nested' => AllHold(conds)'
    BY <1>1, <2>6, <2>8 DEF AllHold
  <2>10. ~nested' => AllHold(loopConds)'
    BY <1>1 DEF CheatIInv, StatusInv, AllHold
  <2>11. StatusInv'
    BY <1>5, <2>9, <2>10 DEF StatusInv
  <2> QED BY <1>3, <2>7, <2>11 DEF CheatIInv, Onwards
<1> QED BY <1>7, <1>8

(* What a loop restores is the status with which it was begun, when all    *)
(* conditions held.                                                        *)
LEMMA EndLoopStep ==
  ASSUME CheatIInv, EndLoop
  PROVE  CheatIInv' /\ Onwards
<1>1. /\ code.op \in {"endloop", "endclear"}
      /\ Go(IF Again THEN loopStart ELSE Successor)
      /\ repeats' = (IF repeats > 0 THEN repeats - 1 ELSE repeats)
      /\ UNCHANGED <<loopStatus, loopStart, mem, loopConds, nested>>
  BY DEF EndLoop, Executes
<1>2. code.op \notin Carriers /\ code.op # "end"
  BY <1>1 DEF Carriers
<1>3. CodeAt(Successor) /\ Successor > next
  BY <1>2, Onward
<1>4. /\ list \in Seq(Units) /\ running \in BOOLEAN /\ counter \in Words
      /\ next \in 1..Len(list) /\ loopStart \in 0..Len(list)
      /\ loopStatus = 0 /\ repeats \in Nat
      /\ offset \in Words /\ data \in Words /\ mem \in [Words -> Words]
      /\ conds \in Seq(BOOLEAN) /\ loopConds \in Seq(BOOLEAN)
      /\ nested \in BOOLEAN
  BY DEF CheatIInv, CheatTypeOK
<1>5. Len(list) \in Nat
  BY <1>4, LenProperties
<1>6. list \in Lists /\ loopStart <= next /\ (repeats > 0 => CodeAt(loopStart))
  BY DEF CheatIInv, PlaceInv
<1>7. list' = list /\ running' = running /\ counter' = counter
  BY <1>1 DEF Go
<1>8. CodeAt(next') /\ loopStart <= next'
  <2>1. CASE repeats > 0
    BY <1>1, <1>4, <1>6, <2>1 DEF Go, Again
  <2>2. CASE ~(repeats > 0)
    <3>1. next' = Successor
      BY <1>1, <2>2 DEF Go, Again
    <3> QED BY <1>3, <1>4, <1>6, <3>1 DEF Successor
  <2> QED BY <2>1, <2>2
<1>9. repeats' \in Nat /\ (repeats' > 0 => repeats > 0)
  BY <1>1, <1>4
<1>10. PlaceInv'
  BY <1>1, <1>6, <1>7, <1>8, <1>9 DEF PlaceInv, CodeAt
<1>11. /\ 0 \in Words /\ << >> \in Seq(BOOLEAN) /\ Len(<< >>) = 0
  BY CheatEngineAssumption, EmptySeq DEF Words
<1>12. /\ status' = 0 /\ offset' \in Words /\ data' \in Words
       /\ conds' = << >> \/ conds' = loopConds
  <2>1. CASE ~Again /\ code.op = "endclear"
    BY <1>11, <2>1 DEF EndLoop
  <2>2. CASE ~(~Again /\ code.op = "endclear")
    BY <1>4, <2>2 DEF EndLoop
  <2> QED BY <2>1, <2>2
<1>13. conds' \in Seq(BOOLEAN)
  BY <1>4, <1>11, <1>12
<1>14. next' \in 1..Len(list')
  BY <1>7, <1>8 DEF CodeAt
<1>15. CheatTypeOK'
  BY <1>1, <1>4, <1>7, <1>9, <1>12, <1>13, <1>14 DEF CheatTypeOK
<1>16. ~nested => AllHold(loopConds)
  BY DEF CheatIInv, StatusInv
<1>17. ~nested => AllHold(conds')
  BY <1>11, <1>12, <1>16 DEF AllHold
<1>18. StatusInv'
  BY <1>1, <1>12, <1>16, <1>17 DEF StatusInv, AllHold
<1>19. Onwards
  <2>1. CASE repeats > 0
    BY <1>1, <1>4, <2>1 DEF Onwards
  <2>2. CASE ~(repeats > 0)
    <3>1. next' = Successor
      BY <1>1, <2>2 DEF Go, Again
    <3> QED BY <1>1, <1>3, <2>2, <3>1 DEF Onwards
  <2> QED BY <2>1, <2>2
<1> QED BY <1>10, <1>15, <1>18, <1>19 DEF CheatIInv

LEMMA EndStep ==
  ASSUME CheatIInv, End
  PROVE  CheatIInv' /\ Onwards
<1>1. /\ list' = list /\ running' = FALSE /\ next' = next /\ counter' = counter
      /\ loopStatus' = loopStatus /\ loopStart' = loopStart
      /\ repeats' = repeats /\ offset' = offset /\ data' = data /\ mem' = mem
      /\ UNCHANGED <<status, cheatHistory>>
  BY DEF End, loop
<1>2. PlaceInv'
  BY <1>1 DEF CheatIInv, PlaceInv, CodeAt
<1>3. /\ StatusInv'
      /\ status' \in 0..1 /\ conds' \in Seq(BOOLEAN)
      /\ loopConds' \in Seq(BOOLEAN) /\ nested' \in BOOLEAN
  BY <1>1, SameStatus
<1>4. CheatTypeOK'
  BY <1>1, <1>3 DEF CheatIInv, CheatTypeOK
<1> QED BY <1>1, <1>2, <1>3, <1>4 DEF CheatIInv, Onwards

LEMMA StepCheatIInv ==
  ASSUME CheatIInv, CheatNext
  PROVE  CheatIInv' /\ Onwards
BY SkipStep, WriteStep, IfStep, SetOffsetStep, LoopStartStep, CallStep,
   EndIfStep, EndLoopStep, SetDataStep, StoreStep, PatchStep, EndStep
   DEF CheatNext

LEMMA StutterCheatIInv ==
  ASSUME CheatIInv, UNCHANGED cheatVars
  PROVE  CheatIInv'
BY DEF cheatVars, loop, cheatHistory, CheatIInv, CheatTypeOK, PlaceInv, StatusInv,
       CodeAt, AllHold

-----------------------------------------------------------------------------
(* The theorems.                                                           *)

(* The invariant: the place in the list is one where a code stands, also   *)
(* the one loops go back to, and the single bit of the status tells        *)
(* whether the innermost condition failed.                                 *)
THEOREM CheatInvariance == CheatSpec => []CheatIInv
<1>1. CheatInit => CheatIInv
  BY InitCheatIInv
<1>2. CheatIInv /\ [CheatNext]_cheatVars => CheatIInv'
  BY StepCheatIInv, StutterCheatIInv
<1> QED BY <1>1, <1>2, PTL DEF CheatSpec

(* Every variable keeps its type, and the status is 0 or 1 for any list    *)
(* (cheat_engine.s, main_loop).                                            *)
THEOREM CheatTypeCorrect == CheatSpec => []CheatTypeOK
<1>1. CheatIInv => CheatTypeOK
  BY DEF CheatIInv
<1> QED BY <1>1, CheatInvariance, PTL

(* The interpreter never takes the data behind a code for a code, whether  *)
(* it executes that code or passes it over (align_cheat_list).             *)
THEOREM NeverReadsData == CheatSpec => []CodesOnly
<1>1. CheatIInv => CodesOnly
  BY DEF CheatIInv, PlaceInv, CodeAt, CodesOnly, code
<1> QED BY <1>1, CheatInvariance, PTL

(* Where nothing is nested in a condition that fails, codes are executed   *)
(* if and only if all conditions around them hold.                         *)
THEOREM ExecutesRight == CheatSpec => []ExecutedRight
<1>1. CheatIInv => ExecutedRight
  <2> SUFFICES ASSUME CheatIInv, ~nested
               PROVE  Executing <=> AllHold(conds)
    BY DEF ExecutedRight, AllHold
  <2>1. status \in 0..1 /\ conds \in Seq(BOOLEAN)
    BY DEF CheatIInv, CheatTypeOK
  <2>2. Len(conds) \in Nat
    BY <2>1, LenProperties
  <2>3. CASE status = 0
    BY <2>3 DEF CheatIInv, StatusInv, Executing
  <2>4. CASE status = 1
    <3>1. Len(conds) > 0 /\ ~conds[Len(conds)]
      BY <2>4 DEF CheatIInv, StatusInv
    <3>2. ~AllHold(conds)
      BY <2>2, <3>1 DEF AllHold
    <3>3. ~Executing
      BY <2>4 DEF Executing
    <3> QED BY <3>2, <3>3
  <2> QED BY <2>1, <2>3, <2>4
<1> QED BY <1>1, CheatInvariance, PTL

(* Every step goes to a later loop, to an earlier repeat of the same loop, *)
(* or on in the list: no list keeps the interrupt handler for ever.        *)
THEOREM AlwaysProgress == CheatSpec => Progress
<1>1. CheatIInv /\ [CheatNext]_cheatVars => [Onwards]_cheatVars
  BY StepCheatIInv
<1>2. Onwards => \/ ~running'
                 \/ loopStart' > loopStart
                 \/ loopStart' = loopStart /\ repeats' < repeats
                 \/ loopStart' = loopStart /\ repeats' = repeats /\ next' > next
  BY DEF Onwards
<1> QED BY <1>1, <1>2, CheatInvariance, PTL DEF CheatSpec, Progress
=============================================================================
