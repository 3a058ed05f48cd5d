------------------------ MODULE BootHandshakeProofs ------------------------
(***************************************************************************)
(* Proofs about BootHandshake, for every set of parameter blocks and of    *)
(* cartridges and every ClearSteps and MaxLag with MaxLag < ClearSteps.    *)
(***************************************************************************)
EXTENDS BootHandshake, SequenceTheorems, TLAPS

-----------------------------------------------------------------------------
(* Type correctness.                                                       *)

(* What a step leaves alone is in these tuples.                            *)
USE DEF Go7, Go9, code, link, entry, window, inputs, hw

LEMMA CartFields ==
  /\ NoCart \in Cart
  /\ \A c \in Cart : /\ c.loadError \in BOOLEAN /\ c.unitCode \in BOOLEAN
                     /\ c.sdk5 \in BOOLEAN /\ c.dsBrowser \in BOOLEAN
                     /\ c.hookable \in BOOLEAN
BY DEF Cart, NoCart

LEMMA DecisionsTyped ==
  ASSUME NEW b \in BootConfig, NEW c \in Cart
  PROVE  /\ DsiModeConfirmed(b, c) \in BOOLEAN
         /\ ExtendedMemory(b, c) \in BOOLEAN
BY DEF DsiModeConfirmed, ExtendedMemory

LEMMA InitTyped == Init => TypeOK
<1> SUFFICES ASSUME Init PROVE TypeOK
  OBVIOUS
<1>1. ControlOK
  <2>1. call7 \in Call7
    BY DEF Init, NoCall, Call7, Locations7
  <2>2. QED
    BY <2>1 DEF Init, ControlOK, Locations7, Locations9, Entering
<1>2. WindowOK
  BY WindowAssumption DEF Init, WindowOK
<1>3. DataOK
  BY CartFields, BootConfigsAssumption
     DEF Init, DataOK, StaleMailbox, Mailbox
<1>4. RegistersOK
  BY DEF Init, RegistersOK, Banks, Scfg7, Scfg9
<1>5. QED
  BY <1>1, <1>2, <1>3, <1>4 DEF TypeOK

(* Both CPUs stay on their paths.                                          *)
LEMMA ControlStep == HandshakeInv /\ [Next]_vars => ControlOK'
<1> SUFFICES ASSUME HandshakeInv, [Next]_vars PROVE ControlOK'
  OBVIOUS
<1> USE DEF HandshakeInv, TypeOK, ControlOK, Locations7, FlagValues, Call7,
      Commands, Locations9, Entering, Starting, Testing, Serving, Acking,
      Leaving
<1>1. CASE Arm7
  <2>1. CASE CopyArm9Image \/ ReleaseArm9
    BY <2>1 DEF CopyArm9Image, ReleaseArm9
  <2>10. CASE InitMbk \/ SeeArm9Start
    BY <2>10 DEF InitMbk, SeeArm9Start
  <2>2. CASE \/ SetArm9DsiMode \/ AskMbkStart \/ PollStart \/ ProtectBanks
    BY <2>2
      DEF SetArm9DsiMode, AskMbkStart, PollStart, ProtectBanks
  <2>3. CASE \/ ResetMemory \/ LoadBinary \/ ConfirmDsiMode \/ LoadHeader
    BY <2>3
      DEF ResetMemory, LoadBinary, ConfirmDsiMode, LoadHeader, Call
  <2>4. CASE \/ SetExtendedMemory \/ SetScfg7 \/ PlantEngine
             \/ PublishOptions \/ MapGameBanks
    BY <2>4
      DEF SetExtendedMemory, SetScfg7, PlantEngine, PublishOptions,
        MapGameBanks, Call
  <2>5. CASE \/ ProtectGameBanks \/ LockScfg7 \/ SetMemoryAddress
             \/ ShowAddress("show9", "arm9", "show7")
    BY <2>5
      DEF ProtectGameBanks, LockScfg7, SetMemoryAddress, ShowAddress, Call
  <2>6. CASE \/ ShowAddress("show7", "arm7", "start") \/ CallWait
             \/ CallArgument \/ StartBinary
    BY <2>6
      DEF ShowAddress, CallWait, CallArgument, StartBinary, Call
  <2>7. CASE \/ SeeBootServed \/ JumpArm7
    BY <2>7
      DEF SeeBootServed, JumpArm7
  <2>8. CASE CallPost
    BY <2>8
      DEF CallPost, CallOK, Calling
  <2>9. CASE CallReturn
    BY <2>9
      DEF CallReturn, CallOK, NoCall, Calling
  <2> QED
    BY <1>1, <2>1, <2>10, <2>2, <2>3, <2>4, <2>5, <2>6, <2>7, <2>8,
    <2>9 DEF Arm7
<1>2. CASE Arm9 /\ ~Serve
  <2>1. CASE \/ SetLoopVector \/ ResetArm7 \/ FetchEntry \/ ClearArm9Bss
    BY <2>1
      DEF SetLoopVector, ResetArm7, FetchEntry, ClearArm9Bss
  <2>2. CASE \/ HandOverWram \/ AnnounceStart \/ SeeMbkStart \/ InitMbkArm9
    BY <2>2
      DEF HandOverWram, AnnounceStart, SeeMbkStart, InitMbkArm9
  <2>3. CASE \/ AckMbkStart \/ ClearTcm \/ AnnounceMemClear \/ AnnounceReady
    BY <2>3
      DEF AckMbkStart, ClearTcm, AnnounceMemClear, AnnounceReady
  <2>4. CASE JumpArm9
    BY <2>4
      DEF JumpArm9
  <2> QED
    BY <1>2, <2>1, <2>2, <2>3, <2>4 DEF Arm9
<1>3. CASE Serve
  <2>1. CASE \/ Test("loop", "BOOTBIN", "leave", "ifError")
             \/ Test("ifError", "DISPERR", "error", "ifMbk") \/ DisplayError
             \/ Acknowledge("ackError", "ifMbk")
    BY <2>1
      DEF Test, DisplayError, Acknowledge
  <2>2. CASE \/ Test("ifMbk", "SETMBK", "setMbk", "ifScfg") \/ SetMbk
             \/ Acknowledge("ackSetMbk", "ifScfg")
             \/ Test("ifScfg", "SETSCFG", "scfgExt", "ifPrint")
    BY <2>2
      DEF Test, SetMbk, Acknowledge
  <2>3. CASE \/ SetScfgExt \/ SetScfgBoost \/ SetScfgClk \/ SetScfgLast
    BY <2>3
      DEF SetScfgExt, SetScfgBoost, SetScfgClk, SetScfgLast
  <2>4. CASE \/ Acknowledge("ackScfg", "ifPrint")
             \/ Test("ifPrint", "PRINT_MEM", "print", "loop") \/ PrintMemory
             \/ Acknowledge("ackPrint", "loop")
    BY <2>4
      DEF Acknowledge, Test, PrintMemory
  <2>5. CASE \/ LeaveLoop \/ Acknowledge("ackBoot", "vblank")
    BY <2>5
      DEF LeaveLoop, Acknowledge
  <2> QED
    BY <1>3, <2>1, <2>2, <2>3, <2>4, <2>5 DEF Serve
<1>4. CASE Ended \/ UNCHANGED vars
  BY <1>4 DEF Ended, vars
<1> QED
  BY <1>1, <1>2, <1>3, <1>4 DEF Next, Arm9

(* The clear's counter stays within its bounds.                            *)
LEMMA WindowStep == HandshakeInv /\ [Next]_vars => WindowOK'
<1> SUFFICES ASSUME HandshakeInv, [Next]_vars PROVE WindowOK'
  OBVIOUS
<1> USE DEF HandshakeInv, TypeOK, WindowOK
<1>1. CASE Arm7
  <2>1. CASE \/ CopyArm9Image \/ ReleaseArm9 \/ InitMbk \/ SeeArm9Start
             \/ SetArm9DsiMode \/ AskMbkStart \/ ProtectBanks
    BY <2>1
      DEF CopyArm9Image, ReleaseArm9, InitMbk, SeeArm9Start, SetArm9DsiMode,
        AskMbkStart, ProtectBanks
  <2>2. CASE \/ ResetMemory \/ LoadBinary \/ ConfirmDsiMode \/ LoadHeader
             \/ SetExtendedMemory \/ SetScfg7 \/ PlantEngine \/ PublishOptions
    BY <2>2
      DEF ResetMemory, LoadBinary, ConfirmDsiMode, LoadHeader,
        SetExtendedMemory, SetScfg7, PlantEngine, PublishOptions, Call
  <2>3. CASE \/ MapGameBanks \/ ProtectGameBanks \/ LockScfg7
             \/ SetMemoryAddress \/ ShowAddress("show9", "arm9", "show7")
             \/ ShowAddress("show7", "arm7", "start") \/ CallWait
    BY <2>3
      DEF MapGameBanks, ProtectGameBanks, LockScfg7, SetMemoryAddress,
        ShowAddress, CallWait, Call
  <2>4. CASE \/ CallArgument \/ CallPost \/ CallReturn \/ StartBinary
             \/ SeeBootServed \/ JumpArm7
    BY <2>4
      DEF CallArgument, CallPost, CallReturn, StartBinary, SeeBootServed,
        JumpArm7
  <2>5. CASE PollStart
    BY <2>5, WindowAssumption
      DEF PollStart
  <2> QED
    BY <1>1, <2>1, <2>2, <2>3, <2>4, <2>5 DEF Arm7
<1>2. CASE Arm9 /\ ~Serve
  <2>1. CASE \/ SetLoopVector \/ ResetArm7 \/ FetchEntry \/ ClearArm9Bss
             \/ HandOverWram \/ AnnounceStart \/ SeeMbkStart
    BY <2>1
      DEF SetLoopVector, ResetArm7, FetchEntry, ClearArm9Bss, HandOverWram,
        AnnounceStart, SeeMbkStart
  <2>2. CASE \/ InitMbkArm9 \/ AnnounceMemClear \/ AnnounceReady \/ JumpArm9
    BY <2>2
      DEF InitMbkArm9, AnnounceMemClear, AnnounceReady, JumpArm9
  <2>3. CASE AckMbkStart
    BY <2>3, WindowAssumption
      DEF AckMbkStart
  <2>4. CASE ClearTcm
    BY <2>4, WindowAssumption
      DEF ClearTcm
  <2> QED
    BY <1>2, <2>1, <2>2, <2>3, <2>4 DEF Arm9
<1>3. CASE Serve
  <2>1. CASE \/ Test("loop", "BOOTBIN", "leave", "ifError")
             \/ Test("ifError", "DISPERR", "error", "ifMbk") \/ DisplayError
             \/ Acknowledge("ackError", "ifMbk")
             \/ Test("ifMbk", "SETMBK", "setMbk", "ifScfg") \/ SetMbk
             \/ Acknowledge("ackSetMbk", "ifScfg")
    BY <2>1
      DEF Test, DisplayError, Acknowledge, SetMbk
  <2>2. CASE \/ Test("ifScfg", "SETSCFG", "scfgExt", "ifPrint") \/ SetScfgExt
             \/ SetScfgBoost \/ SetScfgClk \/ SetScfgLast
             \/ Acknowledge("ackScfg", "ifPrint")
             \/ Test("ifPrint", "PRINT_MEM", "print", "loop")
    BY <2>2
      DEF Test, SetScfgExt, SetScfgBoost, SetScfgClk, SetScfgLast, Acknowledge
  <2>3. CASE \/ PrintMemory \/ Acknowledge("ackPrint", "loop") \/ LeaveLoop
             \/ Acknowledge("ackBoot", "vblank")
    BY <2>3
      DEF PrintMemory, Acknowledge, LeaveLoop
  <2> QED
    BY <1>3, <2>1, <2>2, <2>3 DEF Serve
<1>4. CASE Ended \/ UNCHANGED vars
  BY <1>4 DEF Ended, vars
<1> QED
  BY <1>1, <1>2, <1>3, <1>4 DEF Next, Arm9

(* The mailbox, the inputs and the history keep their types.               *)
LEMMA DataStep == HandshakeInv /\ [Next]_vars => DataOK'
<1> SUFFICES ASSUME HandshakeInv, [Next]_vars PROVE DataOK'
  OBVIOUS
<1> USE DEF HandshakeInv, TypeOK, DataOK
<1>1. CASE Arm7
  <2>1. CASE \/ ReleaseArm9 \/ InitMbk \/ SeeArm9Start \/ AskMbkStart
             \/ PollStart \/ ProtectBanks \/ ResetMemory
    BY <2>1
      DEF ReleaseArm9, InitMbk, SeeArm9Start, AskMbkStart, PollStart,
        ProtectBanks, ResetMemory
  <2>2. CASE \/ SetScfg7 \/ PlantEngine \/ MapGameBanks
             \/ ProtectGameBanks \/ LockScfg7
             \/ SetMemoryAddress \/ ShowAddress("show9", "arm9", "show7")
             \/ ShowAddress("show7", "arm7", "start")
    BY <2>2
      DEF SetScfg7, PlantEngine, MapGameBanks, ProtectGameBanks, LockScfg7,
        SetMemoryAddress, ShowAddress, Call
  <2>3. CASE \/ CallWait \/ CallPost \/ CallReturn \/ StartBinary
             \/ SeeBootServed \/ JumpArm7
    BY <2>3
      DEF CallWait, CallPost, CallReturn, StartBinary, SeeBootServed, JumpArm7
  <2>4. CASE CopyArm9Image
    BY <2>4
      DEF CopyArm9Image, Mailbox, ClearedMailbox
  <2>5. CASE SetArm9DsiMode
    BY <2>5
      DEF SetArm9DsiMode, Mailbox, BootConfig
  <2>6. CASE LoadBinary
    BY <2>6, CartsAssumption
      DEF LoadBinary, Call
  <2>7. CASE ConfirmDsiMode
    BY <2>7, DecisionsTyped
      DEF ConfirmDsiMode, Mailbox
  <2>8. CASE LoadHeader
    BY <2>8
      DEF LoadHeader, Mailbox
  <2>9. CASE SetExtendedMemory
    BY <2>9, DecisionsTyped
      DEF SetExtendedMemory, Mailbox
  <2>10. CASE PublishOptions
    BY <2>10, CartFields
      DEF PublishOptions, Mailbox, BootConfig
  <2>11. CASE CallArgument
    BY <2>11
      DEF CallArgument, Mailbox, CallOK, Calling
  <2> QED
    BY <1>1, <2>1, <2>2, <2>3, <2>4, <2>5, <2>6, <2>7, <2>8, <2>9, <2>10, <2>11
       DEF Arm7
<1>2. CASE Arm9 /\ ~Serve
  <2>1. CASE \/ SetLoopVector \/ ResetArm7 \/ FetchEntry \/ HandOverWram
             \/ AnnounceStart \/ SeeMbkStart \/ InitMbkArm9
    BY <2>1
      DEF SetLoopVector, ResetArm7, FetchEntry, HandOverWram, AnnounceStart,
        SeeMbkStart, InitMbkArm9
  <2>2. CASE \/ AckMbkStart \/ ClearTcm \/ AnnounceMemClear \/ AnnounceReady
             \/ JumpArm9
    BY <2>2
      DEF AckMbkStart, ClearTcm, AnnounceMemClear, AnnounceReady, JumpArm9
  <2>3. CASE ClearArm9Bss
    BY <2>3
      DEF ClearArm9Bss, Mailbox, ClearedMailbox
  <2> QED
    BY <1>2, <2>1, <2>2, <2>3 DEF Arm9
<1>3. CASE Serve
  <2>1. CASE \/ Test("loop", "BOOTBIN", "leave", "ifError")
             \/ Test("ifError", "DISPERR", "error", "ifMbk")
             \/ Acknowledge("ackError", "ifMbk")
             \/ Test("ifMbk", "SETMBK", "setMbk", "ifScfg")
             \/ Acknowledge("ackSetMbk", "ifScfg")
             \/ Test("ifScfg", "SETSCFG", "scfgExt", "ifPrint") \/ SetScfgExt
    BY <2>1
      DEF Test, Acknowledge, SetScfgExt
  <2>2. CASE \/ SetScfgBoost \/ SetScfgClk \/ Acknowledge("ackScfg", "ifPrint")
             \/ Test("ifPrint", "PRINT_MEM", "print", "loop")
             \/ Acknowledge("ackPrint", "loop")
             \/ Acknowledge("ackBoot", "vblank")
    BY <2>2
      DEF SetScfgBoost, SetScfgClk, Acknowledge, Test
  <2>3. CASE DisplayError
    BY <2>3
      DEF DisplayError, Log, Request, Commands
  <2>4. CASE SetMbk
    BY <2>4
      DEF SetMbk, Log, Request, Commands
  <2>5. CASE SetScfgLast
    BY <2>5
      DEF SetScfgLast, Log, Request, Commands
  <2>6. CASE PrintMemory
    BY <2>6
      DEF PrintMemory, Log, Request, Commands, Mailbox
  <2>7. CASE LeaveLoop
    BY <2>7
      DEF LeaveLoop, Log, Request, Commands
  <2> QED
    BY <1>3, <2>1, <2>2, <2>3, <2>4, <2>5, <2>6, <2>7 DEF Serve
<1>4. CASE Ended \/ UNCHANGED vars
  BY <1>4 DEF Ended, vars
<1> QED
  BY <1>1, <1>2, <1>3, <1>4 DEF Next, Arm9

(* The registers keep their types.                                         *)
LEMMA RegistersStep == HandshakeInv /\ [Next]_vars => RegistersOK'
<1> SUFFICES ASSUME HandshakeInv, [Next]_vars PROVE RegistersOK'
  OBVIOUS
<1> USE DEF HandshakeInv, TypeOK, RegistersOK
<1>1. CASE Arm7
  <2>1. CASE \/ CopyArm9Image \/ ReleaseArm9 \/ SeeArm9Start \/ SetArm9DsiMode
             \/ AskMbkStart \/ PollStart \/ ResetMemory
    BY <2>1
      DEF CopyArm9Image, ReleaseArm9, SeeArm9Start, SetArm9DsiMode,
        AskMbkStart, PollStart, ResetMemory
  <2>2. CASE \/ LoadBinary \/ ConfirmDsiMode \/ LoadHeader \/ SetExtendedMemory
             \/ PublishOptions \/ SetMemoryAddress
             \/ ShowAddress("show9", "arm9", "show7")
    BY <2>2
      DEF LoadBinary, ConfirmDsiMode, LoadHeader, SetExtendedMemory,
        PublishOptions, SetMemoryAddress, ShowAddress, Call
  <2>3. CASE \/ ShowAddress("show7", "arm7", "start") \/ CallWait
             \/ CallArgument \/ CallPost \/ CallReturn \/ StartBinary
             \/ SeeBootServed
    BY <2>3
      DEF ShowAddress, CallWait, CallArgument, CallPost, CallReturn,
        StartBinary, SeeBootServed, Call
  <2>4. CASE JumpArm7
    BY <2>4
      DEF JumpArm7
  <2>5. CASE InitMbk
    BY <2>5
      DEF InitMbk, Banks
  <2>6. CASE ProtectBanks
    BY <2>6
      DEF ProtectBanks, Banks
  <2>7. CASE SetScfg7
    BY <2>7
      DEF SetScfg7, Scfg7, Write7
  <2>8. CASE MapGameBanks
    BY <2>8
      DEF MapGameBanks, Call, Banks, Scfg7, Write7
  <2>9. CASE ProtectGameBanks
    BY <2>9
      DEF ProtectGameBanks, Banks
  <2>10. CASE LockScfg7
    BY <2>10
      DEF LockScfg7, Call, Scfg7, Write7
  <2>11. CASE PlantEngine
    BY <2>11
      DEF PlantEngine, Banks
  <2> QED
    BY <1>1, <2>1, <2>2, <2>3, <2>4, <2>5, <2>6, <2>7, <2>8, <2>9, <2>10, <2>11
       DEF Arm7
<1>2. CASE Arm9 /\ ~Serve
  <2>1. CASE \/ SetLoopVector \/ ResetArm7 \/ FetchEntry \/ ClearArm9Bss
             \/ AnnounceStart \/ SeeMbkStart \/ AckMbkStart
    BY <2>1
      DEF SetLoopVector, ResetArm7, FetchEntry, ClearArm9Bss, AnnounceStart,
        SeeMbkStart, AckMbkStart
  <2>2. CASE \/ ClearTcm \/ AnnounceMemClear \/ AnnounceReady \/ JumpArm9
    BY <2>2
      DEF ClearTcm, AnnounceMemClear, AnnounceReady, JumpArm9
  <2>3. CASE HandOverWram
    BY <2>3
      DEF HandOverWram, Banks
  <2>4. CASE InitMbkArm9
    BY <2>4
      DEF InitMbkArm9, Banks, WriteSlots
  <2> QED
    BY <1>2, <2>1, <2>2, <2>3, <2>4 DEF Arm9
<1>3. CASE Serve
  <2>1. CASE \/ Test("loop", "BOOTBIN", "leave", "ifError")
             \/ Test("ifError", "DISPERR", "error", "ifMbk") \/ DisplayError
             \/ Acknowledge("ackError", "ifMbk")
             \/ Test("ifMbk", "SETMBK", "setMbk", "ifScfg")
             \/ Acknowledge("ackSetMbk", "ifScfg")
             \/ Test("ifScfg", "SETSCFG", "scfgExt", "ifPrint")
    BY <2>1
      DEF Test, DisplayError, Acknowledge
  <2>2. CASE \/ Acknowledge("ackScfg", "ifPrint")
             \/ Test("ifPrint", "PRINT_MEM", "print", "loop") \/ PrintMemory
             \/ Acknowledge("ackPrint", "loop")
             \/ Acknowledge("ackBoot", "vblank")
    BY <2>2
      DEF Acknowledge, Test, PrintMemory
  <2>3. CASE SetMbk
    BY <2>3
      DEF SetMbk, Banks, WriteSlots
  <2>4. CASE SetScfgExt
    BY <2>4
      DEF SetScfgExt, Scfg9, Write9
  <2>5. CASE SetScfgBoost
    BY <2>5
      DEF SetScfgBoost, Scfg9, Write9
  <2>6. CASE SetScfgClk
    BY <2>6
      DEF SetScfgClk, Scfg9, Write9
  <2>7. CASE SetScfgLast
    BY <2>7
      DEF SetScfgLast, Scfg9, Write9
  <2>8. CASE LeaveLoop
    BY <2>8
      DEF LeaveLoop, Banks
  <2> QED
    BY <1>3, <2>1, <2>2, <2>3, <2>4, <2>5, <2>6, <2>7, <2>8 DEF Serve
<1>4. CASE Ended \/ UNCHANGED vars
  BY <1>4 DEF Ended, vars
<1> QED
  BY <1>1, <1>2, <1>3, <1>4 DEF Next, Arm9

(* The request under way is one of the five the ARM7 makes.                *)
LEMMA CallStep == HandshakeInv /\ [Next]_vars => CallOK'
<1> SUFFICES ASSUME HandshakeInv, [Next]_vars PROVE CallOK'
  OBVIOUS
<1> USE DEF HandshakeInv, CallOK, Calling
<1>1. CASE Arm7
  <2>1. CASE \/ CopyArm9Image \/ ReleaseArm9 \/ InitMbk \/ SeeArm9Start
    BY <2>1
      DEF CopyArm9Image, ReleaseArm9, InitMbk, SeeArm9Start
  <2>2. CASE \/ SetArm9DsiMode \/ AskMbkStart \/ PollStart \/ ProtectBanks
    BY <2>2
      DEF SetArm9DsiMode, AskMbkStart, PollStart, ProtectBanks
  <2>3. CASE \/ ResetMemory \/ LoadBinary \/ ConfirmDsiMode \/ LoadHeader
    BY <2>3
      DEF ResetMemory, LoadBinary, ConfirmDsiMode, LoadHeader, Call
  <2>4. CASE \/ SetExtendedMemory \/ SetScfg7 \/ PlantEngine
             \/ PublishOptions \/ MapGameBanks
    BY <2>4
      DEF SetExtendedMemory, SetScfg7, PlantEngine, PublishOptions,
        MapGameBanks, Call
  <2>5. CASE \/ ProtectGameBanks \/ LockScfg7 \/ SetMemoryAddress
             \/ ShowAddress("show9", "arm9", "show7")
    BY <2>5
      DEF ProtectGameBanks, LockScfg7, SetMemoryAddress, ShowAddress, Call
  <2>6. CASE \/ ShowAddress("show7", "arm7", "start") \/ CallWait
             \/ CallArgument \/ CallPost
    BY <2>6
      DEF ShowAddress, CallWait, CallArgument, CallPost, Call
  <2>7. CASE \/ CallReturn \/ StartBinary \/ SeeBootServed \/ JumpArm7
    BY <2>7
      DEF CallReturn, StartBinary, SeeBootServed, JumpArm7
  <2> QED
    BY <1>1, <2>1, <2>2, <2>3, <2>4, <2>5, <2>6, <2>7 DEF Arm7
<1>2. CASE Arm9 /\ ~Serve
  <2>1. CASE \/ SetLoopVector \/ FetchEntry \/ ClearArm9Bss \/ HandOverWram
    BY <2>1
      DEF SetLoopVector, FetchEntry, ClearArm9Bss, HandOverWram
  <2>2. CASE \/ AnnounceStart \/ SeeMbkStart \/ InitMbkArm9 \/ AckMbkStart
    BY <2>2
      DEF AnnounceStart, SeeMbkStart, InitMbkArm9, AckMbkStart
  <2>3. CASE \/ ClearTcm \/ AnnounceMemClear \/ AnnounceReady \/ JumpArm9
    BY <2>3
      DEF ClearTcm, AnnounceMemClear, AnnounceReady, JumpArm9
  <2>4. CASE ResetArm7
    BY <2>4
      DEF ResetArm7, TypeOK, ControlOK, Locations7, Sync, Working7, SawReady7,
        Testing, Serving, Acking, Leaving
  <2> QED
    BY <1>2, <2>1, <2>2, <2>3, <2>4 DEF Arm9
<1>3. CASE Serve
  <2>1. CASE \/ Test("loop", "BOOTBIN", "leave", "ifError")
             \/ Test("ifError", "DISPERR", "error", "ifMbk") \/ DisplayError
             \/ Acknowledge("ackError", "ifMbk")
    BY <2>1
      DEF Test, DisplayError, Acknowledge
  <2>2. CASE \/ Test("ifMbk", "SETMBK", "setMbk", "ifScfg") \/ SetMbk
             \/ Acknowledge("ackSetMbk", "ifScfg")
             \/ Test("ifScfg", "SETSCFG", "scfgExt", "ifPrint")
    BY <2>2
      DEF Test, SetMbk, Acknowledge
  <2>3. CASE \/ SetScfgExt \/ SetScfgBoost \/ SetScfgClk \/ SetScfgLast
    BY <2>3
      DEF SetScfgExt, SetScfgBoost, SetScfgClk, SetScfgLast
  <2>4. CASE \/ Acknowledge("ackScfg", "ifPrint")
             \/ Test("ifPrint", "PRINT_MEM", "print", "loop") \/ PrintMemory
             \/ Acknowledge("ackPrint", "loop")
    BY <2>4
      DEF Acknowledge, Test, PrintMemory
  <2>5. CASE \/ LeaveLoop \/ Acknowledge("ackBoot", "vblank")
    BY <2>5
      DEF LeaveLoop, Acknowledge
  <2> QED
    BY <1>3, <2>1, <2>2, <2>3, <2>4, <2>5 DEF Serve
<1>4. CASE Ended \/ UNCHANGED vars
  BY <1>4 DEF Ended, vars
<1> QED
  BY <1>1, <1>2, <1>3, <1>4 DEF Next, Arm9

(* Every step keeps the two CPUs in step.  The one wait that could be      *)
(* missed is the second START: the clear outlasts the ARM7's poll.         *)
LEMMA SyncStep == HandshakeInv /\ [Next]_vars => Sync'
<1> SUFFICES ASSUME HandshakeInv, [Next]_vars PROVE Sync'
  OBVIOUS
<1> USE DEF HandshakeInv, CallOK, Sync, Calling, Working7, SawReady7, Testing,
      Serving, Acking, Leaving, ServesCmd
<1>1. CASE Arm7
  <2>1. CASE \/ CopyArm9Image \/ ReleaseArm9 \/ InitMbk
    BY <2>1
      DEF CopyArm9Image, ReleaseArm9, InitMbk
  <2>2. CASE \/ SeeArm9Start \/ SetArm9DsiMode \/ AskMbkStart
    BY <2>2
      DEF SeeArm9Start, SetArm9DsiMode, AskMbkStart
  <2>3. CASE \/ PollStart \/ ProtectBanks \/ ResetMemory
    BY <2>3
      DEF PollStart, ProtectBanks, ResetMemory
  <2>4. CASE \/ LoadBinary \/ ConfirmDsiMode \/ LoadHeader
    BY <2>4
      DEF LoadBinary, ConfirmDsiMode, LoadHeader, Call
  <2>5. CASE \/ SetExtendedMemory \/ SetScfg7 \/ PlantEngine \/ PublishOptions
    BY <2>5
      DEF SetExtendedMemory, SetScfg7, PlantEngine, PublishOptions
  <2>6. CASE \/ MapGameBanks \/ ProtectGameBanks \/ LockScfg7
    BY <2>6
      DEF MapGameBanks, ProtectGameBanks, LockScfg7, Call
  <2>7. CASE \/ SetMemoryAddress \/ ShowAddress("show9", "arm9", "show7")
             \/ ShowAddress("show7", "arm7", "start")
    BY <2>7
      DEF SetMemoryAddress, ShowAddress, Call
  <2>8. CASE \/ CallWait \/ CallArgument \/ CallPost
    BY <2>8
      DEF CallWait, CallArgument, CallPost
  <2>9. CASE \/ CallReturn \/ StartBinary \/ SeeBootServed
    BY <2>9
      DEF CallReturn, StartBinary, SeeBootServed
  <2>10. CASE JumpArm7
    BY <2>10
      DEF JumpArm7
  <2> QED
    BY <1>1, <2>1, <2>2, <2>3, <2>4, <2>5, <2>6, <2>7, <2>8, <2>9,
    <2>10 DEF Arm7
<1>2. CASE Arm9 /\ ~Serve
  <2>1. CASE \/ SetLoopVector \/ FetchEntry \/ ClearArm9Bss
    BY <2>1
      DEF SetLoopVector, FetchEntry, ClearArm9Bss
  <2>2. CASE \/ HandOverWram \/ AnnounceStart \/ SeeMbkStart
    BY <2>2
      DEF HandOverWram, AnnounceStart, SeeMbkStart
  <2>3. CASE \/ InitMbkArm9 \/ AnnounceReady
    BY <2>3
      DEF InitMbkArm9, AnnounceReady
  <2>4. CASE ResetArm7
    BY <2>4
      DEF ResetArm7, TypeOK, ControlOK, Locations7
  <2>5. CASE AckMbkStart
    BY <2>5, WindowAssumption
      DEF AckMbkStart, TypeOK, ControlOK, Locations7, WindowOK
  <2>6. CASE ClearTcm
    BY <2>6, WindowAssumption
      DEF ClearTcm, TypeOK, ControlOK, Locations7, WindowOK
  <2>7. CASE AnnounceMemClear
    BY <2>7, WindowAssumption
      DEF AnnounceMemClear, TypeOK, ControlOK, Locations7, WindowOK
  <2>8. CASE JumpArm9
    BY <2>8
      DEF JumpArm9, TypeOK, ControlOK, Locations7, MailboxInv, Stage7,
        FromHeader, FromPlant, FromMap, FromLock, FromMemory, FromBoot
  <2> QED
    BY <1>2, <2>1, <2>2, <2>3, <2>4, <2>5, <2>6, <2>7, <2>8 DEF Arm9
<1>3. CASE Serve
  <2>1. CASE \/ Test("loop", "BOOTBIN", "leave", "ifError")
             \/ Test("ifError", "DISPERR", "error", "ifMbk") \/ DisplayError
    BY <2>1
      DEF Test, DisplayError
  <2>2. CASE \/ Acknowledge("ackError", "ifMbk")
             \/ Test("ifMbk", "SETMBK", "setMbk", "ifScfg") \/ SetMbk
    BY <2>2
      DEF Acknowledge, Test, SetMbk
  <2>3. CASE \/ Acknowledge("ackSetMbk", "ifScfg")
             \/ Test("ifScfg", "SETSCFG", "scfgExt", "ifPrint") \/ SetScfgExt
    BY <2>3
      DEF Acknowledge, Test, SetScfgExt
  <2>4. CASE \/ SetScfgBoost \/ SetScfgClk \/ SetScfgLast
    BY <2>4
      DEF SetScfgBoost, SetScfgClk, SetScfgLast
  <2>5. CASE \/ Acknowledge("ackScfg", "ifPrint")
             \/ Test("ifPrint", "PRINT_MEM", "print", "loop") \/ PrintMemory
    BY <2>5
      DEF Acknowledge, Test, PrintMemory
  <2>6. CASE \/ Acknowledge("ackPrint", "loop") \/ LeaveLoop
             \/ Acknowledge("ackBoot", "vblank")
    BY <2>6
      DEF Acknowledge, LeaveLoop
  <2> QED
    BY <1>3, <2>1, <2>2, <2>3, <2>4, <2>5, <2>6 DEF Serve
<1>4. CASE Ended \/ UNCHANGED vars
  BY <1>4 DEF Ended, vars
<1> QED
  BY <1>1, <1>2, <1>3, <1>4 DEF Next, Arm9

(* What the ARM7 has put in the mailbox stays there.                       *)
LEMMA MailboxStep == HandshakeInv /\ [Next]_vars => MailboxInv'
<1> SUFFICES ASSUME HandshakeInv, [Next]_vars PROVE MailboxInv'
  OBVIOUS
<1> USE DEF HandshakeInv, MailboxInv, CallOK, Calling, Stage7, FromBoot,
      FromMemory, FromLock, FromMap, FromPlant, FromHeader, FromProtect
<1>1. CASE Arm7
  <2>1. CASE \/ ShowAddress("show9", "arm9", "show7")
             \/ ShowAddress("show7", "arm7", "start")
    BY <2>1
      DEF ShowAddress, Call
  <2>2. CASE CopyArm9Image
    BY <2>2
      DEF CopyArm9Image
  <2>3. CASE ReleaseArm9
    BY <2>3
      DEF ReleaseArm9
  <2>4. CASE InitMbk
    BY <2>4
      DEF InitMbk
  <2>5. CASE SeeArm9Start
    BY <2>5
      DEF SeeArm9Start
  <2>6. CASE SetArm9DsiMode
    BY <2>6
      DEF SetArm9DsiMode
  <2>7. CASE AskMbkStart
    BY <2>7
      DEF AskMbkStart
  <2>8. CASE PollStart
    BY <2>8
      DEF PollStart
  <2>9. CASE ProtectBanks
    BY <2>9
      DEF ProtectBanks
  <2>10. CASE ResetMemory
    BY <2>10
      DEF ResetMemory
  <2>11. CASE LoadBinary
    BY <2>11
      DEF LoadBinary, Call
  <2>12. CASE ConfirmDsiMode
    BY <2>12
      DEF ConfirmDsiMode
  <2>13. CASE LoadHeader
    BY <2>13
      DEF LoadHeader
  <2>14. CASE SetExtendedMemory
    BY <2>14
      DEF SetExtendedMemory
  <2>15. CASE SetScfg7 \/ PlantEngine
    BY <2>15
      DEF SetScfg7, PlantEngine
  <2>16. CASE PublishOptions
    BY <2>16
      DEF PublishOptions
  <2>17. CASE MapGameBanks
    BY <2>17
      DEF MapGameBanks, Call
  <2>18. CASE ProtectGameBanks
    BY <2>18
      DEF ProtectGameBanks
  <2>19. CASE LockScfg7
    BY <2>19
      DEF LockScfg7, Call
  <2>20. CASE SetMemoryAddress
    BY <2>20
      DEF SetMemoryAddress
  <2>21. CASE CallWait
    BY <2>21
      DEF CallWait
  <2>22. CASE CallArgument
    BY <2>22
      DEF CallArgument
  <2>23. CASE CallPost
    BY <2>23
      DEF CallPost
  <2>24. CASE CallReturn
    BY <2>24
      DEF CallReturn
  <2>25. CASE StartBinary
    BY <2>25
      DEF StartBinary
  <2>26. CASE SeeBootServed
    BY <2>26
      DEF SeeBootServed
  <2>27. CASE JumpArm7
    BY <2>27
      DEF JumpArm7
  <2> QED
    BY <1>1, <2>1, <2>2, <2>3, <2>4, <2>5, <2>6, <2>7, <2>8, <2>9, <2>10,
      <2>11, <2>12, <2>13, <2>14, <2>15, <2>16, <2>17, <2>18, <2>19, <2>20,
      <2>21, <2>22, <2>23, <2>24, <2>25, <2>26, <2>27 DEF Arm7
<1>2. CASE Arm9 /\ ~Serve
  <2>1. CASE \/ SetLoopVector \/ FetchEntry \/ HandOverWram
    BY <2>1
      DEF SetLoopVector, FetchEntry, HandOverWram
  <2>2. CASE \/ AnnounceStart \/ SeeMbkStart \/ InitMbkArm9
    BY <2>2
      DEF AnnounceStart, SeeMbkStart, InitMbkArm9
  <2>3. CASE \/ AckMbkStart \/ ClearTcm \/ AnnounceMemClear
    BY <2>3
      DEF AckMbkStart, ClearTcm, AnnounceMemClear
  <2>4. CASE \/ AnnounceReady \/ JumpArm9
    BY <2>4
      DEF AnnounceReady, JumpArm9
  <2>5. CASE ResetArm7
    BY <2>5
      DEF ResetArm7, TypeOK, ControlOK, Locations7, Sync, Working7, SawReady7,
        Testing, Serving, Acking, Leaving
  <2>6. CASE ClearArm9Bss
    BY <2>6
      DEF ClearArm9Bss, TypeOK, ControlOK, Locations7, Sync, Working7,
        SawReady7, Testing, Serving, Acking, Leaving
  <2> QED
    BY <1>2, <2>1, <2>2, <2>3, <2>4, <2>5, <2>6 DEF Arm9
<1>3. CASE Serve
  <2>1. CASE \/ Test("loop", "BOOTBIN", "leave", "ifError")
             \/ Test("ifError", "DISPERR", "error", "ifMbk") \/ DisplayError
    BY <2>1
      DEF Test, DisplayError
  <2>2. CASE \/ Acknowledge("ackError", "ifMbk")
             \/ Test("ifMbk", "SETMBK", "setMbk", "ifScfg") \/ SetMbk
    BY <2>2
      DEF Acknowledge, Test, SetMbk
  <2>3. CASE \/ Acknowledge("ackSetMbk", "ifScfg")
             \/ Test("ifScfg", "SETSCFG", "scfgExt", "ifPrint") \/ SetScfgExt
    BY <2>3
      DEF Acknowledge, Test, SetScfgExt
  <2>4. CASE \/ SetScfgBoost \/ SetScfgClk \/ SetScfgLast
    BY <2>4
      DEF SetScfgBoost, SetScfgClk, SetScfgLast
  <2>5. CASE \/ Acknowledge("ackScfg", "ifPrint")
             \/ Test("ifPrint", "PRINT_MEM", "print", "loop") \/ PrintMemory
    BY <2>5
      DEF Acknowledge, Test, PrintMemory
  <2>6. CASE \/ Acknowledge("ackPrint", "loop") \/ LeaveLoop
             \/ Acknowledge("ackBoot", "vblank")
    BY <2>6
      DEF Acknowledge, LeaveLoop
  <2> QED
    BY <1>3, <2>1, <2>2, <2>3, <2>4, <2>5, <2>6 DEF Serve
<1>4. CASE Ended \/ UNCHANGED vars
  BY <1>4 DEF Ended, vars
<1> QED
  BY <1>1, <1>2, <1>3, <1>4 DEF Next, Arm9

(* The bank registers, with each CPU's writes reaching open registers.     *)
LEMMA BanksStep == HandshakeInv /\ RegistersInv /\ [Next]_vars => BanksInv'
<1> SUFFICES ASSUME HandshakeInv /\ RegistersInv, [Next]_vars PROVE BanksInv'
  OBVIOUS
<1> USE DEF HandshakeInv, CallOK, Calling, Stage7, FromBoot, FromMemory,
      FromLock, FromMap, FromPlant, FromHeader, FromProtect, RegistersInv,
      BanksInv,
      Starting, Sync, Working7, SawReady7, Testing, Serving, Acking, Leaving,
      TypeOK, ControlOK, Locations7, Pending, GameBanks, Windows, ServesCmd
<1>1. CASE Arm7
  <2>1. CASE CopyArm9Image
    BY <2>1
      DEF CopyArm9Image
  <2>2. CASE ReleaseArm9
    BY <2>2
      DEF ReleaseArm9
  <2>3. CASE InitMbk
    BY <2>3
      DEF InitMbk
  <2>4. CASE SeeArm9Start
    BY <2>4
      DEF SeeArm9Start
  <2>5. CASE SetArm9DsiMode
    BY <2>5
      DEF SetArm9DsiMode
  <2>6. CASE AskMbkStart
    BY <2>6
      DEF AskMbkStart
  <2>7. CASE PollStart
    BY <2>7
      DEF PollStart
  <2>8. CASE ProtectBanks
    BY <2>8
      DEF ProtectBanks
  <2>9. CASE ResetMemory
    BY <2>9
      DEF ResetMemory
  <2>10. CASE LoadBinary
    BY <2>10
      DEF LoadBinary, Call
  <2>11. CASE ConfirmDsiMode
    BY <2>11
      DEF ConfirmDsiMode
  <2>12. CASE LoadHeader
    BY <2>12
      DEF LoadHeader
  <2>13. CASE SetExtendedMemory
    BY <2>13
      DEF SetExtendedMemory
  <2>14. CASE SetScfg7
    BY <2>14
      DEF SetScfg7
  <2>15. CASE PublishOptions
    BY <2>15, CartFields
      DEF PublishOptions, Arm7WantsGameBanks, MailboxInv, DsiModeConfirmed,
        DataOK, Mailbox
  <2>16. CASE MapGameBanks
    BY <2>16
      DEF MapGameBanks, Call, Scfg7Inv
  <2>17. CASE ProtectGameBanks
    BY <2>17
      DEF ProtectGameBanks, Scfg7Inv
  <2>18. CASE LockScfg7
    BY <2>18
      DEF LockScfg7, Call
  <2>19. CASE SetMemoryAddress
    BY <2>19
      DEF SetMemoryAddress
  <2>20. CASE ShowAddress("show9", "arm9", "show7")
    BY <2>20
      DEF ShowAddress, Call
  <2>21. CASE ShowAddress("show7", "arm7", "start")
    BY <2>21
      DEF ShowAddress, Call
  <2>22. CASE CallWait
    BY <2>22
      DEF CallWait
  <2>23. CASE CallArgument
    BY <2>23
      DEF CallArgument
  <2>24. CASE CallPost
    BY <2>24
      DEF CallPost
  <2>25. CASE CallReturn
    BY <2>25
      DEF CallReturn
  <2>26. CASE StartBinary
    BY <2>26
      DEF StartBinary
  <2>27. CASE SeeBootServed
    BY <2>27
      DEF SeeBootServed
  <2>28. CASE JumpArm7
    BY <2>28
      DEF JumpArm7
  <2>29. CASE PlantEngine
    <3>1. /\ pc7 = "plant" /\ pc7' = "params" /\ ~scfg7.locked
          /\ banks \in Banks
      BY <2>29 DEF PlantEngine, Scfg7Inv, RegistersOK
    <3>2. banks' = IF Windows = "engine"
                   THEN [banks EXCEPT !.windows = "engine"] ELSE banks
      BY <2>29, <3>1 DEF PlantEngine
    <3>3. /\ banks'.windows = Windows
          /\ banks'.slots = banks.slots /\ banks'.wram = banks.wram
          /\ banks'.protect = banks.protect
      BY <3>1, <3>2 DEF Banks
    <3> QED
      BY <2>29, <3>1, <3>3 DEF PlantEngine
  <2> QED
    BY <1>1, <2>1, <2>2, <2>3, <2>4, <2>5, <2>6, <2>7, <2>8, <2>9, <2>10,
      <2>11, <2>12, <2>13, <2>14, <2>15, <2>16, <2>17, <2>18, <2>19, <2>20,
      <2>21, <2>22, <2>23, <2>24, <2>25, <2>26, <2>27, <2>28,
      <2>29 DEF Arm7
<1>2. CASE Arm9 /\ ~Serve
  <2>1. CASE SetLoopVector
    BY <2>1
      DEF SetLoopVector
  <2>2. CASE ResetArm7
    BY <2>2
      DEF ResetArm7
  <2>3. CASE FetchEntry
    BY <2>3
      DEF FetchEntry
  <2>4. CASE ClearArm9Bss
    BY <2>4
      DEF ClearArm9Bss
  <2>5. CASE HandOverWram
    BY <2>5
      DEF HandOverWram
  <2>6. CASE AnnounceStart
    BY <2>6
      DEF AnnounceStart
  <2>7. CASE SeeMbkStart
    BY <2>7
      DEF SeeMbkStart
  <2>8. CASE InitMbkArm9
    BY <2>8
      DEF InitMbkArm9, WriteSlots
  <2>9. CASE AckMbkStart
    BY <2>9
      DEF AckMbkStart
  <2>10. CASE ClearTcm
    BY <2>10
      DEF ClearTcm
  <2>11. CASE AnnounceMemClear
    BY <2>11
      DEF AnnounceMemClear
  <2>12. CASE AnnounceReady
    BY <2>12
      DEF AnnounceReady
  <2>13. CASE JumpArm9
    BY <2>13
      DEF JumpArm9
  <2> QED
    BY <1>2, <2>1, <2>2, <2>3, <2>4, <2>5, <2>6, <2>7, <2>8, <2>9, <2>10,
      <2>11, <2>12, <2>13 DEF Arm9
<1>3. CASE Serve
  <2>1. CASE Test("loop", "BOOTBIN", "leave", "ifError")
    BY <2>1
      DEF Test
  <2>2. CASE Test("ifError", "DISPERR", "error", "ifMbk")
    BY <2>2
      DEF Test
  <2>3. CASE DisplayError
    BY <2>3
      DEF DisplayError
  <2>4. CASE Acknowledge("ackError", "ifMbk")
    BY <2>4
      DEF Acknowledge
  <2>5. CASE Test("ifMbk", "SETMBK", "setMbk", "ifScfg")
    BY <2>5
      DEF Test
  <2>6. CASE SetMbk
    <3>1. /\ pc9 = "setMbk" /\ pc7 = "callAwait"
          /\ call7.ret = "protectGame" /\ flag = "SETMBK"
      BY <2>6 DEF SetMbk
    <3>2. GameBanks /\ Stage7 = "protectGame"
      BY <3>1
    <3>3. Arm9WantsGameBanks
      BY <3>1, <3>2 DEF Arm9WantsGameBanks, MailboxInv, DsiModeConfirmed
    <3>4. /\ banks.protect = "open" /\ banks.windows = "game"
          /\ banks.wram = "arm7"
      BY <3>1
    <3>5. banks' = [banks EXCEPT !.slots = "game"]
      BY <2>6, <3>3, <3>4 DEF SetMbk, WriteSlots
    <3>6. /\ banks'.slots = "game" /\ banks'.protect = "open"
          /\ banks'.windows = "game" /\ banks'.wram = "arm7"
      BY <3>4, <3>5 DEF RegistersOK, Banks
    <3> QED
      BY <2>6, <3>1, <3>2, <3>6 DEF SetMbk
  <2>7. CASE Acknowledge("ackSetMbk", "ifScfg")
    BY <2>7
      DEF Acknowledge
  <2>8. CASE Test("ifScfg", "SETSCFG", "scfgExt", "ifPrint")
    BY <2>8
      DEF Test
  <2>9. CASE SetScfgExt
    BY <2>9
      DEF SetScfgExt
  <2>10. CASE SetScfgBoost
    BY <2>10
      DEF SetScfgBoost
  <2>11. CASE SetScfgClk
    BY <2>11
      DEF SetScfgClk
  <2>12. CASE SetScfgLast
    BY <2>12
      DEF SetScfgLast
  <2>13. CASE Acknowledge("ackScfg", "ifPrint")
    BY <2>13
      DEF Acknowledge
  <2>14. CASE Test("ifPrint", "PRINT_MEM", "print", "loop")
    BY <2>14
      DEF Test
  <2>15. CASE PrintMemory
    BY <2>15
      DEF PrintMemory
  <2>16. CASE Acknowledge("ackPrint", "loop")
    BY <2>16
      DEF Acknowledge
  <2>17. CASE LeaveLoop
    BY <2>17, ZenonT(60)
      DEF LeaveLoop, Arm9WantsGameBanks, MailboxInv, DsiModeConfirmed,
        RegistersOK, Banks
  <2>18. CASE Acknowledge("ackBoot", "vblank")
    BY <2>18
      DEF Acknowledge
  <2> QED
    BY <1>3, <2>1, <2>2, <2>3, <2>4, <2>5, <2>6, <2>7, <2>8, <2>9, <2>10,
      <2>11, <2>12, <2>13, <2>14, <2>15, <2>16, <2>17, <2>18 DEF Serve
<1>4. CASE Ended \/ UNCHANGED vars
  BY <1>4 DEF Ended, vars
<1> QED
  BY <1>1, <1>2, <1>3, <1>4 DEF Next, Arm9

(* The ARM7's SCFG registers.                                              *)
LEMMA Scfg7Step == HandshakeInv /\ RegistersInv /\ [Next]_vars => Scfg7Inv'
<1> SUFFICES ASSUME HandshakeInv /\ RegistersInv, [Next]_vars PROVE Scfg7Inv'
  OBVIOUS
<1> USE DEF HandshakeInv, CallOK, Calling, Stage7, FromBoot, FromMemory,
      FromLock, FromMap, FromPlant, FromHeader, FromProtect, RegistersInv,
      Scfg7Inv,
      Sealed
<1>1. CASE Arm7
  <2>1. CASE CopyArm9Image
    BY <2>1
      DEF CopyArm9Image
  <2>2. CASE ReleaseArm9
    BY <2>2
      DEF ReleaseArm9
  <2>3. CASE InitMbk
    BY <2>3
      DEF InitMbk
  <2>4. CASE SeeArm9Start
    BY <2>4
      DEF SeeArm9Start
  <2>5. CASE SetArm9DsiMode
    BY <2>5
      DEF SetArm9DsiMode
  <2>6. CASE AskMbkStart
    BY <2>6
      DEF AskMbkStart
  <2>7. CASE PollStart
    BY <2>7
      DEF PollStart
  <2>8. CASE ProtectBanks
    BY <2>8
      DEF ProtectBanks
  <2>9. CASE ResetMemory
    BY <2>9
      DEF ResetMemory
  <2>10. CASE LoadBinary
    BY <2>10
      DEF LoadBinary, Call
  <2>11. CASE ConfirmDsiMode
    BY <2>11
      DEF ConfirmDsiMode
  <2>12. CASE LoadHeader
    BY <2>12
      DEF LoadHeader
  <2>13. CASE SetExtendedMemory
    BY <2>13
      DEF SetExtendedMemory
  <2>14. CASE SetScfg7 \/ PlantEngine
    BY <2>14
      DEF SetScfg7, PlantEngine, MailboxInv, Write7, DsiModeConfirmed,
        RegistersOK, Scfg7,
        TypeOK, ControlOK, Locations7
  <2>15. CASE PublishOptions
    BY <2>15
      DEF PublishOptions
  <2>16. CASE MapGameBanks
    BY <2>16
      DEF MapGameBanks, Call, BanksInv, GameBanks, Write7, RegistersOK, Scfg7,
        DsiModeConfirmed, TypeOK, ControlOK, Locations7
  <2>17. CASE ProtectGameBanks
    BY <2>17
      DEF ProtectGameBanks
  <2>18. CASE LockScfg7
    BY <2>18
      DEF LockScfg7, Call, MailboxInv, Write7, RegistersOK, Scfg7, TypeOK,
        ControlOK, Locations7
  <2>19. CASE SetMemoryAddress
    BY <2>19
      DEF SetMemoryAddress
  <2>20. CASE ShowAddress("show9", "arm9", "show7")
    BY <2>20
      DEF ShowAddress, Call
  <2>21. CASE ShowAddress("show7", "arm7", "start")
    BY <2>21
      DEF ShowAddress, Call
  <2>22. CASE CallWait
    BY <2>22
      DEF CallWait
  <2>23. CASE CallArgument
    BY <2>23
      DEF CallArgument
  <2>24. CASE CallPost
    BY <2>24
      DEF CallPost
  <2>25. CASE CallReturn
    BY <2>25
      DEF CallReturn
  <2>26. CASE StartBinary
    BY <2>26
      DEF StartBinary
  <2>27. CASE SeeBootServed
    BY <2>27
      DEF SeeBootServed
  <2>28. CASE JumpArm7
    BY <2>28
      DEF JumpArm7
  <2> QED
    BY <1>1, <2>1, <2>2, <2>3, <2>4, <2>5, <2>6, <2>7, <2>8, <2>9, <2>10,
      <2>11, <2>12, <2>13, <2>14, <2>15, <2>16, <2>17, <2>18, <2>19, <2>20,
      <2>21, <2>22, <2>23, <2>24, <2>25, <2>26, <2>27, <2>28 DEF Arm7
<1>2. CASE Arm9 /\ ~Serve
  <2>1. CASE SetLoopVector
    BY <2>1
      DEF SetLoopVector
  <2>2. CASE ResetArm7
    BY <2>2
      DEF ResetArm7, Sync, Working7, SawReady7, Testing, Serving, Acking,
        Leaving, TypeOK, ControlOK, Locations7
  <2>3. CASE FetchEntry
    BY <2>3
      DEF FetchEntry
  <2>4. CASE ClearArm9Bss
    BY <2>4
      DEF ClearArm9Bss
  <2>5. CASE HandOverWram
    BY <2>5
      DEF HandOverWram
  <2>6. CASE AnnounceStart
    BY <2>6
      DEF AnnounceStart
  <2>7. CASE SeeMbkStart
    BY <2>7
      DEF SeeMbkStart
  <2>8. CASE InitMbkArm9
    BY <2>8
      DEF InitMbkArm9
  <2>9. CASE AckMbkStart
    BY <2>9
      DEF AckMbkStart
  <2>10. CASE ClearTcm
    BY <2>10
      DEF ClearTcm
  <2>11. CASE AnnounceMemClear
    BY <2>11
      DEF AnnounceMemClear
  <2>12. CASE AnnounceReady
    BY <2>12
      DEF AnnounceReady
  <2>13. CASE JumpArm9
    BY <2>13
      DEF JumpArm9
  <2> QED
    BY <1>2, <2>1, <2>2, <2>3, <2>4, <2>5, <2>6, <2>7, <2>8, <2>9, <2>10,
      <2>11, <2>12, <2>13 DEF Arm9
<1>3. CASE Serve
  <2>1. CASE Test("loop", "BOOTBIN", "leave", "ifError")
    BY <2>1
      DEF Test
  <2>2. CASE Test("ifError", "DISPERR", "error", "ifMbk")
    BY <2>2
      DEF Test
  <2>3. CASE DisplayError
    BY <2>3
      DEF DisplayError
  <2>4. CASE Acknowledge("ackError", "ifMbk")
    BY <2>4
      DEF Acknowledge
  <2>5. CASE Test("ifMbk", "SETMBK", "setMbk", "ifScfg")
    BY <2>5
      DEF Test
  <2>6. CASE SetMbk
    BY <2>6
      DEF SetMbk
  <2>7. CASE Acknowledge("ackSetMbk", "ifScfg")
    BY <2>7
      DEF Acknowledge
  <2>8. CASE Test("ifScfg", "SETSCFG", "scfgExt", "ifPrint")
    BY <2>8
      DEF Test
  <2>9. CASE SetScfgExt
    BY <2>9
      DEF SetScfgExt
  <2>10. CASE SetScfgBoost
    BY <2>10
      DEF SetScfgBoost
  <2>11. CASE SetScfgClk
    BY <2>11
      DEF SetScfgClk
  <2>12. CASE SetScfgLast
    BY <2>12
      DEF SetScfgLast
  <2>13. CASE Acknowledge("ackScfg", "ifPrint")
    BY <2>13
      DEF Acknowledge
  <2>14. CASE Test("ifPrint", "PRINT_MEM", "print", "loop")
    BY <2>14
      DEF Test
  <2>15. CASE PrintMemory
    BY <2>15
      DEF PrintMemory
  <2>16. CASE Acknowledge("ackPrint", "loop")
    BY <2>16
      DEF Acknowledge
  <2>17. CASE LeaveLoop
    BY <2>17
      DEF LeaveLoop
  <2>18. CASE Acknowledge("ackBoot", "vblank")
    BY <2>18
      DEF Acknowledge
  <2> QED
    BY <1>3, <2>1, <2>2, <2>3, <2>4, <2>5, <2>6, <2>7, <2>8, <2>9, <2>10,
      <2>11, <2>12, <2>13, <2>14, <2>15, <2>16, <2>17, <2>18 DEF Serve
<1>4. CASE Ended \/ UNCHANGED vars
  BY <1>4 DEF Ended, vars
<1> QED
  BY <1>1, <1>2, <1>3, <1>4 DEF Next, Arm9

(* The ARM9's SCFG registers.                                              *)
LEMMA Scfg9Step == HandshakeInv /\ RegistersInv /\ [Next]_vars => Scfg9Inv'
<1> SUFFICES ASSUME HandshakeInv /\ RegistersInv, [Next]_vars PROVE Scfg9Inv'
  OBVIOUS
<1> USE DEF HandshakeInv, CallOK, Calling, Stage7, FromBoot, FromMemory,
      FromLock, FromMap, FromPlant, FromHeader, FromProtect, RegistersInv,
      Scfg9Inv,
      Sealed, NtrExt, Pending, ServesCmd, Sync, Working7, SawReady7, Testing,
      Serving, Acking, Leaving, TypeOK, ControlOK, Locations7
<1>1. CASE Arm7
  <2>1. CASE CopyArm9Image
    BY <2>1
      DEF CopyArm9Image
  <2>2. CASE ReleaseArm9
    BY <2>2
      DEF ReleaseArm9
  <2>3. CASE InitMbk
    BY <2>3
      DEF InitMbk
  <2>4. CASE SeeArm9Start
    BY <2>4
      DEF SeeArm9Start
  <2>5. CASE SetArm9DsiMode
    BY <2>5
      DEF SetArm9DsiMode
  <2>6. CASE AskMbkStart
    BY <2>6
      DEF AskMbkStart
  <2>7. CASE PollStart
    BY <2>7
      DEF PollStart
  <2>8. CASE ProtectBanks
    BY <2>8
      DEF ProtectBanks
  <2>9. CASE ResetMemory
    BY <2>9
      DEF ResetMemory
  <2>10. CASE LoadBinary
    BY <2>10
      DEF LoadBinary, Call
  <2>11. CASE ConfirmDsiMode
    BY <2>11
      DEF ConfirmDsiMode
  <2>12. CASE LoadHeader
    BY <2>12
      DEF LoadHeader
  <2>13. CASE SetExtendedMemory
    BY <2>13
      DEF SetExtendedMemory
  <2>14. CASE SetScfg7 \/ PlantEngine
    BY <2>14
      DEF SetScfg7, PlantEngine
  <2>15. CASE PublishOptions
    BY <2>15
      DEF PublishOptions
  <2>16. CASE MapGameBanks
    BY <2>16
      DEF MapGameBanks, Call
  <2>17. CASE ProtectGameBanks
    BY <2>17
      DEF ProtectGameBanks
  <2>18. CASE LockScfg7
    BY <2>18
      DEF LockScfg7, Call
  <2>19. CASE SetMemoryAddress
    BY <2>19
      DEF SetMemoryAddress
  <2>20. CASE ShowAddress("show9", "arm9", "show7")
    BY <2>20
      DEF ShowAddress, Call
  <2>21. CASE ShowAddress("show7", "arm7", "start")
    BY <2>21
      DEF ShowAddress, Call
  <2>22. CASE CallWait
    BY <2>22
      DEF CallWait
  <2>23. CASE CallArgument
    BY <2>23
      DEF CallArgument
  <2>24. CASE CallPost
    BY <2>24
      DEF CallPost
  <2>25. CASE CallReturn
    BY <2>25
      DEF CallReturn
  <2>26. CASE StartBinary
    BY <2>26
      DEF StartBinary
  <2>27. CASE SeeBootServed
    BY <2>27
      DEF SeeBootServed
  <2>28. CASE JumpArm7
    BY <2>28
      DEF JumpArm7
  <2> QED
    BY <1>1, <2>1, <2>2, <2>3, <2>4, <2>5, <2>6, <2>7, <2>8, <2>9, <2>10,
      <2>11, <2>12, <2>13, <2>14, <2>15, <2>16, <2>17, <2>18, <2>19, <2>20,
      <2>21, <2>22, <2>23, <2>24, <2>25, <2>26, <2>27, <2>28 DEF Arm7
<1>2. CASE Arm9 /\ ~Serve
  <2>1. CASE SetLoopVector
    BY <2>1
      DEF SetLoopVector
  <2>2. CASE ResetArm7
    BY <2>2
      DEF ResetArm7
  <2>3. CASE FetchEntry
    BY <2>3
      DEF FetchEntry
  <2>4. CASE ClearArm9Bss
    BY <2>4
      DEF ClearArm9Bss
  <2>5. CASE HandOverWram
    BY <2>5
      DEF HandOverWram
  <2>6. CASE AnnounceStart
    BY <2>6
      DEF AnnounceStart
  <2>7. CASE SeeMbkStart
    BY <2>7
      DEF SeeMbkStart
  <2>8. CASE InitMbkArm9
    BY <2>8
      DEF InitMbkArm9
  <2>9. CASE AckMbkStart
    BY <2>9
      DEF AckMbkStart
  <2>10. CASE ClearTcm
    BY <2>10
      DEF ClearTcm
  <2>11. CASE AnnounceMemClear
    BY <2>11
      DEF AnnounceMemClear
  <2>12. CASE AnnounceReady
    BY <2>12
      DEF AnnounceReady
  <2>13. CASE JumpArm9
    BY <2>13
      DEF JumpArm9
  <2> QED
    BY <1>2, <2>1, <2>2, <2>3, <2>4, <2>5, <2>6, <2>7, <2>8, <2>9, <2>10,
      <2>11, <2>12, <2>13 DEF Arm9
<1>3. CASE Serve
  <2>1. CASE Test("loop", "BOOTBIN", "leave", "ifError")
    BY <2>1
      DEF Test
  <2>2. CASE Test("ifError", "DISPERR", "error", "ifMbk")
    BY <2>2
      DEF Test
  <2>3. CASE DisplayError
    BY <2>3
      DEF DisplayError
  <2>4. CASE Acknowledge("ackError", "ifMbk")
    BY <2>4
      DEF Acknowledge
  <2>5. CASE Test("ifMbk", "SETMBK", "setMbk", "ifScfg")
    BY <2>5
      DEF Test
  <2>6. CASE SetMbk
    BY <2>6
      DEF SetMbk
  <2>7. CASE Acknowledge("ackSetMbk", "ifScfg")
    BY <2>7
      DEF Acknowledge
  <2>8. CASE Test("ifScfg", "SETSCFG", "scfgExt", "ifPrint")
    BY <2>8
      DEF Test
  <2>9. CASE SetScfgExt
    <3>1. /\ pc7 = "callAwait" /\ call7.ret = "memory" /\ flag = "SETSCFG"
          /\ Stage7 = "memory"
      BY <2>9 DEF SetScfgExt
    <3>2. /\ mb.dsimode = boot.dsiMode
          /\ mb.confirmed = DsiModeConfirmed(boot, cart)
          /\ mb.extendedMemory = ExtendedMemory(boot, cart)
      BY <3>1 DEF MailboxInv
    <3>3. ~scfg9.locked /\ scfg9.ext = "launcher"
      BY <2>9, <3>1 DEF SetScfgExt
    <3>4. CASE boot.dsiMode
      <4>1. scfg9' = [scfg9 EXCEPT !.boost = FALSE,
                        !.ext = IF DsiModeConfirmed(boot, cart) THEN "twl"
                                ELSE NtrExt]
        BY <2>9, <3>2, <3>3, <3>4 DEF SetScfgExt, Write9
      <4>2. /\ scfg9'.boost = FALSE /\ ~scfg9'.locked
            /\ scfg9'.ext = IF DsiModeConfirmed(boot, cart) THEN "twl"
                            ELSE NtrExt
        BY <3>3, <4>1 DEF RegistersOK, Scfg9
      <4>3. DsiModeConfirmed(boot, cart)' = DsiModeConfirmed(boot, cart)
            /\ NtrExt' = NtrExt
        BY <2>9 DEF SetScfgExt, ExtendedMemory, DsiModeConfirmed
      <4> HIDE DEF NtrExt
      <4> QED
        BY <2>9, <3>1, <3>2, <3>4, <4>2, <4>3 DEF SetScfgExt
    <3>5. CASE ~boot.dsiMode
      BY <2>9, <3>1, <3>2, <3>3, <3>5 DEF SetScfgExt
    <3> QED
      BY <3>4, <3>5
  <2>10. CASE SetScfgBoost
    <3>1. /\ pc7 = "callAwait" /\ call7.ret = "memory" /\ flag = "SETSCFG"
          /\ Stage7 = "memory"
      BY <2>10 DEF SetScfgBoost
    <3>2. /\ mb.confirmed = DsiModeConfirmed(boot, cart)
          /\ mb.boostVram = boot.boostVram
      BY <3>1 DEF MailboxInv
    <3>3. /\ ~scfg9.locked /\ scfg9.boost = FALSE /\ boot.dsiMode
          /\ scfg9.ext = IF DsiModeConfirmed(boot, cart) THEN "twl" ELSE NtrExt
      BY <2>10, <3>1 DEF SetScfgBoost
    <3>4. /\ scfg9'.ext = scfg9.ext /\ ~scfg9'.locked
          /\ ~DsiModeConfirmed(boot, cart) => scfg9'.boost = boot.boostVram
      BY <2>10, <3>2, <3>3 DEF SetScfgBoost, Write9, RegistersOK, Scfg9, DataOK,
        BootConfig
    <3>5. DsiModeConfirmed(boot, cart)' = DsiModeConfirmed(boot, cart)
          /\ NtrExt' = NtrExt
      BY <2>10 DEF SetScfgBoost, ExtendedMemory, DsiModeConfirmed
    <3> HIDE DEF NtrExt
    <3> QED
      BY <2>10, <3>1, <3>3, <3>4, <3>5 DEF SetScfgBoost
  <2>11. CASE SetScfgClk
    BY <2>11
      DEF SetScfgClk, MailboxInv, Write9, DsiModeConfirmed, RegistersOK, Scfg9
  <2>12. CASE SetScfgLast
    <3>1. /\ pc7 = "callAwait" /\ call7.ret = "memory" /\ flag = "SETSCFG"
          /\ Stage7 = "memory"
      BY <2>12 DEF SetScfgLast
    <3>2. /\ mb.dsimode = boot.dsiMode
          /\ mb.confirmed = DsiModeConfirmed(boot, cart)
          /\ mb.scfgUnlock = boot.scfgUnlock
      BY <3>1 DEF MailboxInv
    <3>3. ~scfg9.locked
      BY <2>12, <3>1 DEF SetScfgLast
    <3>4. /\ scfg9'.ext = scfg9.ext /\ scfg9'.clk = scfg9.clk
          /\ scfg9'.boost = scfg9.boost
          /\ scfg9'.locked = Sealed
      BY <2>12, <3>2, <3>3 DEF SetScfgLast, Write9, RegistersOK, Scfg9, DataOK,
        BootConfig, DsiModeConfirmed
    <3>5. /\ DsiModeConfirmed(boot, cart)' = DsiModeConfirmed(boot, cart)
          /\ NtrExt' = NtrExt /\ Sealed' = Sealed
      BY <2>12 DEF SetScfgLast, ExtendedMemory, DsiModeConfirmed
    <3> HIDE DEF NtrExt, Sealed
    <3> QED
      BY <2>12, <3>1, <3>3, <3>4, <3>5 DEF SetScfgLast
  <2>13. CASE Acknowledge("ackScfg", "ifPrint")
    BY <2>13
      DEF Acknowledge
  <2>14. CASE Test("ifPrint", "PRINT_MEM", "print", "loop")
    BY <2>14
      DEF Test
  <2>15. CASE PrintMemory
    BY <2>15
      DEF PrintMemory
  <2>16. CASE Acknowledge("ackPrint", "loop")
    BY <2>16
      DEF Acknowledge
  <2>17. CASE LeaveLoop
    BY <2>17
      DEF LeaveLoop
  <2>18. CASE Acknowledge("ackBoot", "vblank")
    BY <2>18
      DEF Acknowledge
  <2> QED
    BY <1>3, <2>1, <2>2, <2>3, <2>4, <2>5, <2>6, <2>7, <2>8, <2>9, <2>10,
      <2>11, <2>12, <2>13, <2>14, <2>15, <2>16, <2>17, <2>18 DEF Serve
<1>4. CASE Ended \/ UNCHANGED vars
  BY <1>4 DEF Ended, vars
<1> QED
  BY <1>1, <1>2, <1>3, <1>4 DEF Next, Arm9

-----------------------------------------------------------------------------
(* Requests, in the order they are performed.                              *)

(* Every request a boot can make is one, and what is asked for is fixed    *)
(* once the cartridge is read.                                             *)
LEMMA RequestsTyped ==
  /\ ForLoad \in Seq(Request) /\ ForBanks \in Seq(Request)
  /\ ForScfg \in Seq(Request) /\ ForPrint9 \in Seq(Request)
  /\ ForPrints \in Seq(Request) /\ AllRequests \in Seq(Request)
  /\ \A c \in Commands : Asking(c) \in Request
  /\ Printing("arm9") \in Request /\ Printing("arm7") \in Request
<1>1. /\ \A c \in Commands : Asking(c) \in Request
      /\ Printing("arm9") \in Request /\ Printing("arm7") \in Request
  BY DEF Asking, Printing, Request, Commands
<1>2. /\ Asking("DISPERR") \in Request /\ Asking("SETMBK") \in Request
      /\ Asking("SETSCFG") \in Request /\ Asking("BOOTBIN") \in Request
  BY <1>1 DEF Commands
<1>3. ForLoad \in Seq(Request)
  BY <1>2 DEF ForLoad
<1>4. ForBanks \in Seq(Request)
  BY <1>2, <1>3 DEF ForBanks
<1>5. ForScfg \in Seq(Request)
  BY <1>2, <1>4 DEF ForScfg
<1>6. ForPrint9 \in Seq(Request)
  BY <1>1, <1>5 DEF ForPrint9
<1>7. ForPrints \in Seq(Request)
  BY <1>1, <1>5, <1>6 DEF ForPrints
<1>8. AllRequests \in Seq(Request)
  BY <1>2, <1>7 DEF AllRequests
<1> QED
  BY <1>1, <1>3, <1>4, <1>5, <1>6, <1>7, <1>8

LEMMA RequestsKept ==
  UNCHANGED inputs =>
    /\ UNCHANGED <<ForLoad, ForBanks, ForScfg, ForPrint9, ForPrints, AllRequests>>
    /\ GameBanks' = GameBanks
BY DEF inputs, ForLoad, ForBanks, ForScfg, ForPrint9, ForPrints, AllRequests,
   GameBanks, DsiModeConfirmed, Asking, Printing

(* The ARM9 performs what the ARM7 waits for, once, and nothing else.      *)
LEMMA ServedStep == HandshakeInv /\ ServedInv /\ [Next]_vars => ServedInv'
<1> SUFFICES ASSUME HandshakeInv, ServedInv, [Next]_vars PROVE ServedInv'
  OBVIOUS
<1> USE DEF HandshakeInv, ServedInv, CallOK, Sync, Calling, Stage7, Pending,
      FromBoot, FromMemory, FromLock, FromMap, FromPlant, FromHeader, Working7,
      SawReady7,
      Testing, Serving, Acking, Leaving, ServesCmd
<1>1. UNCHANGED inputs =>
        /\ UNCHANGED <<ForLoad, ForBanks, ForScfg, ForPrint9, ForPrints,
                        AllRequests>>
        /\ GameBanks' = GameBanks
  BY RequestsKept
<1>2. CASE Arm7
  <2>1. CASE \/ CopyArm9Image \/ ReleaseArm9 \/ InitMbk
    BY <2>1, <1>1
      DEF CopyArm9Image, ReleaseArm9, InitMbk
  <2>2. CASE \/ SeeArm9Start \/ SetArm9DsiMode \/ AskMbkStart
    BY <2>2, <1>1
      DEF SeeArm9Start, SetArm9DsiMode, AskMbkStart
  <2>3. CASE \/ PollStart \/ ProtectBanks \/ ResetMemory
    BY <2>3, <1>1
      DEF PollStart, ProtectBanks, ResetMemory
  <2>4. CASE LoadBinary
    BY <2>4
      DEF LoadBinary, Call, ForLoad
  <2>5. CASE \/ ConfirmDsiMode \/ LoadHeader \/ SetExtendedMemory
    BY <2>5, <1>1
      DEF ConfirmDsiMode, LoadHeader, SetExtendedMemory
  <2>6. CASE SetScfg7 \/ PlantEngine
    BY <2>6, <1>1
      DEF SetScfg7, PlantEngine
  <2>7. CASE PublishOptions
    <3>1. Arm7WantsGameBanks <=> GameBanks
      BY <2>7 DEF PublishOptions, Arm7WantsGameBanks, GameBanks, MailboxInv
    <3>2. ~GameBanks => ForBanks = ForLoad
      BY RequestsTyped, ConcatEmptySeq DEF ForBanks
    <3> QED
      BY <2>7, <1>1, <3>1, <3>2 DEF PublishOptions
  <2>8. CASE MapGameBanks
    BY <2>8, <1>1
      DEF MapGameBanks, Call
  <2>9. CASE ProtectGameBanks
    BY <2>9, <1>1
      DEF ProtectGameBanks
  <2>10. CASE LockScfg7
    BY <2>10, <1>1
      DEF LockScfg7, Call
  <2>11. CASE SetMemoryAddress
    BY <2>11, <1>1
      DEF SetMemoryAddress, ForPrints
  <2>12. CASE ShowAddress("show9", "arm9", "show7")
    BY <2>12, <1>1
      DEF ShowAddress, Call
  <2>13. CASE ShowAddress("show7", "arm7", "start")
    BY <2>13, <1>1
      DEF ShowAddress, Call, ForPrints
  <2>14. CASE \/ CallWait \/ CallArgument
    BY <2>14, <1>1
      DEF CallWait, CallArgument
  <2>15. CASE CallPost
    BY <2>15, <1>1
      DEF CallPost
  <2>16. CASE CallReturn
    BY <2>16, <1>1
      DEF CallReturn, ForPrints
  <2>17. CASE StartBinary
    BY <2>17, <1>1
      DEF StartBinary
  <2>18. CASE \/ SeeBootServed \/ JumpArm7
    BY <2>18, <1>1
      DEF SeeBootServed, JumpArm7
  <2> QED
    BY <1>2, <2>1, <2>2, <2>3, <2>4, <2>5, <2>6, <2>7, <2>8, <2>9, <2>10,
       <2>11, <2>12, <2>13, <2>14, <2>15, <2>16, <2>17, <2>18 DEF Arm7
<1>3. CASE Arm9 /\ ~Serve
  <2>1. CASE \/ SetLoopVector \/ ResetArm7 \/ FetchEntry
    BY <2>1, <1>1
      DEF SetLoopVector, ResetArm7, TypeOK, ControlOK, Locations7, FetchEntry
  <2>2. CASE \/ ClearArm9Bss \/ HandOverWram \/ AnnounceStart
    BY <2>2, <1>1
      DEF ClearArm9Bss, HandOverWram, AnnounceStart
  <2>3. CASE \/ SeeMbkStart \/ InitMbkArm9 \/ AckMbkStart
    BY <2>3, <1>1
      DEF SeeMbkStart, InitMbkArm9, AckMbkStart
  <2>4. CASE \/ ClearTcm \/ AnnounceMemClear \/ AnnounceReady
    BY <2>4, <1>1
      DEF ClearTcm, AnnounceMemClear, AnnounceReady
  <2>5. CASE JumpArm9
    BY <2>5, <1>1
      DEF JumpArm9
  <2> QED
    BY <1>3, <2>1, <2>2, <2>3, <2>4, <2>5 DEF Arm9
<1>4. CASE Serve
  <2>1. CASE Test("loop", "BOOTBIN", "leave", "ifError")
    BY <2>1, <1>1
      DEF Test
  <2>2. CASE Test("ifError", "DISPERR", "error", "ifMbk")
    BY <2>2, <1>1
      DEF Test
  <2>3. CASE DisplayError
    <3>1. pc7 = "callAwait" /\ call7.ret = "confirm"
      BY <2>3 DEF DisplayError, TypeOK, ControlOK, Locations7
    <3>2. served' = served \o <<Asking("DISPERR")>>
      BY <2>3, <3>1, RequestsTyped, AppendIsConcat
        DEF DisplayError, Log, TypeOK, DataOK, Asking, Printing, Commands,
           MailboxInv
    <3>3. served = << >> /\ cart.loadError
      BY <2>3, <3>1 DEF DisplayError
    <3>4. served' = ForLoad
      BY <3>2, <3>3, RequestsTyped DEF ForLoad, Commands
    <3> QED
      BY <2>3, <1>1, <3>1, <3>4 DEF DisplayError
  <2>4. CASE Acknowledge("ackError", "ifMbk")
    BY <2>4, <1>1
      DEF Acknowledge
  <2>5. CASE Test("ifMbk", "SETMBK", "setMbk", "ifScfg")
    BY <2>5, <1>1
      DEF Test
  <2>6. CASE SetMbk
    <3>1. pc7 = "callAwait" /\ call7.ret = "protectGame"
      BY <2>6 DEF SetMbk, TypeOK, ControlOK, Locations7
    <3>2. served' = served \o <<Asking("SETMBK")>>
      BY <2>6, <3>1, RequestsTyped, AppendIsConcat
        DEF SetMbk, Log, TypeOK, DataOK, Asking, Printing, Commands, MailboxInv
    <3> QED
      BY <2>6, <1>1, <3>1, <3>2 DEF SetMbk, ForBanks
  <2>7. CASE Acknowledge("ackSetMbk", "ifScfg")
    BY <2>7, <1>1
      DEF Acknowledge
  <2>8. CASE Test("ifScfg", "SETSCFG", "scfgExt", "ifPrint")
    BY <2>8, <1>1
      DEF Test
  <2>9. CASE \/ SetScfgExt \/ SetScfgBoost \/ SetScfgClk
    BY <2>9, <1>1
      DEF SetScfgExt, SetScfgBoost, SetScfgClk
  <2>10. CASE SetScfgLast
    <3>1. pc7 = "callAwait" /\ call7.ret = "memory"
      BY <2>10 DEF SetScfgLast, TypeOK, ControlOK, Locations7
    <3>2. served' = served \o <<Asking("SETSCFG")>>
      BY <2>10, <3>1, RequestsTyped, AppendIsConcat
        DEF SetScfgLast, Log, TypeOK, DataOK, Asking, Printing, Commands,
          MailboxInv
    <3> QED
      BY <2>10, <1>1, <3>1, <3>2 DEF SetScfgLast, ForScfg
  <2>11. CASE Acknowledge("ackScfg", "ifPrint")
    BY <2>11, <1>1
      DEF Acknowledge
  <2>12. CASE Test("ifPrint", "PRINT_MEM", "print", "loop")
    BY <2>12, <1>1
      DEF Test
  <2>13. CASE PrintMemory
    <3>1. /\ pc7 = "callAwait" /\ call7.cmd = "PRINT_MEM"
          /\ mb.address = call7.arg
      BY <2>13 DEF PrintMemory, TypeOK, ControlOK, Locations7, MailboxInv
    <3>2. call7.arg \in {"arm9", "arm7"}
      BY <3>1
    <3>3. served' = served \o <<Printing(call7.arg)>>
      <4>1. Printing(call7.arg) \in Request
        BY <3>2, RequestsTyped
      <4>2. served' = Append(served, Printing(call7.arg))
        BY <2>13, <3>1 DEF PrintMemory, Log, Printing
      <4> QED
        BY <4>1, <4>2, AppendIsConcat DEF TypeOK, DataOK
    <3>4. CASE call7.arg = "arm9"
      BY <2>13, <1>1, <3>1, <3>3, <3>4 DEF PrintMemory, ForPrint9
    <3>5. CASE call7.arg = "arm7"
      BY <2>13, <1>1, <3>1, <3>3, <3>5 DEF PrintMemory, ForPrints
    <3> QED
      BY <3>2, <3>4, <3>5
  <2>14. CASE Acknowledge("ackPrint", "loop")
    BY <2>14, <1>1
      DEF Acknowledge
  <2>15. CASE LeaveLoop
    <3>1. pc7 = "awaitBoot"
      BY <2>15 DEF LeaveLoop, TypeOK, ControlOK, Locations7
    <3>2. served' = served \o <<Asking("BOOTBIN")>>
      BY <2>15, <3>1, RequestsTyped, AppendIsConcat
        DEF LeaveLoop, Log, TypeOK, DataOK, Asking, Printing, Commands,
          MailboxInv
    <3> QED
      BY <2>15, <1>1, <3>1, <3>2 DEF LeaveLoop, AllRequests
  <2>16. CASE Acknowledge("ackBoot", "vblank")
    BY <2>16, <1>1
      DEF Acknowledge
  <2> QED
    BY <1>4, <2>1, <2>2, <2>3, <2>4, <2>5, <2>6, <2>7, <2>8, <2>9, <2>10,
       <2>11, <2>12, <2>13, <2>14, <2>15, <2>16 DEF Serve
<1>5. CASE Ended \/ UNCHANGED vars
  BY <1>1, <1>5 DEF Ended, vars
<1> QED
  BY <1>2, <1>3, <1>4, <1>5 DEF Next, Arm9

(* A beginning of a sequence is one of what is longer.                     *)
LEMMA BeginningOf ==
  ASSUME NEW s \in Seq(Request), NEW t \in Seq(Request), s # << >>
  PROVE  s = SubSeq(s \o t, 1, Len(s))
<1>1. Len(s) \in Nat \ {0}
  BY EmptySeq
<1>2. SubSeq(s \o t, 1, Len(s)) = SubSeq(s, 1, Len(s))
  BY <1>1, SubSeqOfConcat1
<1> QED
  BY <1>2, SubSeqFull

(* What any part of the ARM7's path has asked for begins all it asks for.  *)
LEMMA Beginnings ==
  /\ \A s \in {ForLoad, ForBanks, ForScfg, ForPrints, AllRequests} :
       \E t \in Seq(Request) : AllRequests = s \o t
  /\ boot.debugPrints => \E t \in Seq(Request) : AllRequests = ForPrint9 \o t
<1> DEFINE R == Seq(Request)
           Begins(s) == \E t \in R : AllRequests = s \o t
<1>1. ASSUME NEW s \in R, NEW u \in R, Begins(s \o u) PROVE Begins(s)
  <2>1. PICK t \in R : AllRequests = (s \o u) \o t
    BY <1>1
  <2>2. (s \o u) \o t = s \o (u \o t) /\ u \o t \in R
    BY ConcatAssociative, ConcatProperties, SMTT(30)
  <2> QED
    BY <2>1, <2>2
<1>2. /\ <<Asking("SETMBK")>> \in R /\ <<Asking("SETSCFG")>> \in R
      /\ <<Asking("BOOTBIN")>> \in R /\ <<Printing("arm9")>> \in R
      /\ <<Printing("arm7")>> \in R /\ << >> \in R
  BY RequestsTyped DEF Commands
<1>3. /\ ForLoad \in R /\ ForBanks \in R /\ ForScfg \in R
      /\ ForPrint9 \in R /\ ForPrints \in R /\ AllRequests \in R
  BY RequestsTyped
<1>4. Begins(AllRequests)
  BY <1>2, <1>3, ConcatEmptySeq
<1>5. Begins(ForPrints)
  BY <1>2 DEF AllRequests
<1> HIDE DEF R, Begins
<1>6. boot.debugPrints => Begins(ForPrint9)
  <2>1. boot.debugPrints => ForPrints = ForPrint9 \o <<Printing("arm7")>>
    BY DEF ForPrints
  <2> QED
    BY <1>1, <1>2, <1>3, <1>5, <2>1, ZenonT(60)
<1>7. Begins(ForScfg)
  <2>1. ForPrint9 = ForScfg \o <<Printing("arm9")>>
    BY DEF ForPrint9
  <2>2. ~boot.debugPrints => ForPrints = ForScfg
    BY DEF ForPrints
  <2> QED
    BY <1>1, <1>2, <1>3, <1>5, <1>6, <2>1, <2>2
<1>8. Begins(ForBanks)
  <2>1. ForScfg = ForBanks \o <<Asking("SETSCFG")>>
    BY DEF ForScfg
  <2> QED
    BY <1>1, <1>2, <1>3, <1>7, <2>1
<1>9. Begins(ForLoad)
  <2>1. \E u \in R : ForBanks = ForLoad \o u
    BY <1>2 DEF ForBanks
  <2> QED
    BY <1>1, <1>3, <1>8, <2>1
<1> QED
  BY <1>4, <1>5, <1>6, <1>7, <1>8, <1>9 DEF R, Begins

-----------------------------------------------------------------------------
(* The invariants of the specification.                                    *)

LEMMA InitInvariants == Init => HandshakeInv /\ RegistersInv
<1> SUFFICES ASSUME Init PROVE HandshakeInv /\ RegistersInv
  OBVIOUS
<1> USE DEF Init, Calling, Stage7, FromBoot, FromMemory, FromLock, FromMap,
      FromPlant, FromHeader, FromProtect, Starting, Testing, Serving, Acking,
      Leaving
<1>1. TypeOK
  BY InitTyped
<1>2. CallOK
  BY DEF CallOK
<1>3. Sync
  BY DEF Sync, Working7, SawReady7
<1>4. MailboxInv
  BY DEF MailboxInv
<1>5. BanksInv
  BY DEF BanksInv
<1>6. Scfg7Inv
  BY DEF Scfg7Inv
<1>7. Scfg9Inv
  BY DEF Scfg9Inv, Pending
<1> QED
  BY <1>1, <1>2, <1>3, <1>4, <1>5, <1>6, <1>7 DEF HandshakeInv, RegistersInv

(* The two CPUs stay in step, and the mailbox holds what was decided.      *)
THEOREM HandshakeInvariant == Spec => []HandshakeInv
<1>1. Init => HandshakeInv
  BY InitInvariants
<1>2. HandshakeInv /\ [Next]_vars => HandshakeInv'
  BY ControlStep, WindowStep, DataStep, RegistersStep, CallStep, SyncStep,
    MailboxStep DEF HandshakeInv, TypeOK
<1> QED
  BY <1>1, <1>2, PTL DEF Spec

(* The registers hold what the path walked so far has written.             *)
THEOREM RegistersInvariant == Spec => []RegistersInv
<1>1. Init => RegistersInv
  BY InitInvariants
<1>2. HandshakeInv /\ RegistersInv /\ [Next]_vars => RegistersInv'
  BY BanksStep, Scfg7Step, Scfg9Step DEF RegistersInv
<1> QED
  BY <1>1, <1>2, HandshakeInvariant, PTL DEF Spec

-----------------------------------------------------------------------------
(* The safety properties.                                                  *)

(* Every variable keeps its type.                                          *)
THEOREM TypeCorrect == Spec => []TypeOK
<1>1. HandshakeInv => TypeOK
  BY DEF HandshakeInv
<1> QED
  BY <1>1, HandshakeInvariant, PTL

(* The ARM9 never runs code that is not there.                             *)
THEOREM ArmNineNeverLost == Spec => []NeverLost
<1>1. HandshakeInv => NeverLost
  BY DEF HandshakeInv, NeverLost, Sync, TypeOK, ControlOK, Locations7,
    Working7, SawReady7, Testing, Serving, Acking, Leaving
<1> QED
  BY <1>1, HandshakeInvariant, PTL

(* The ARM7 sees the second START before the ARM9 overwrites it.           *)
THEOREM SecondStartSeen == Spec => []StartNotMissed
<1>1. HandshakeInv => StartNotMissed
  BY DEF HandshakeInv, StartNotMissed, Sync
<1> QED
  BY <1>1, HandshakeInvariant, PTL

(* The ARM9 serves with the options and the decisions of the ARM7.         *)
THEOREM MailboxIsDelivered == Spec => []MailboxDelivered
<1>1. HandshakeInv => MailboxDelivered
  <2> SUFFICES ASSUME HandshakeInv PROVE MailboxDelivered
    OBVIOUS
  <2> USE DEF HandshakeInv, Sync, TypeOK, ControlOK, Locations7, CallOK,
        Calling, Working7, SawReady7, Testing, Serving, Acking, Leaving,
        ServesCmd
  <2>1. CASE pc9 \in {"setMbk", "scfgExt", "scfgBoost", "scfgClk", "scfgLast",
                      "leave"}
    <3>1. Stage7 \in {"protectGame", "memory", "awaitBoot"}
      BY <2>1 DEF Stage7
    <3> QED
      BY <2>1, <3>1 DEF MailboxDelivered, MailboxInv, FromBoot, FromMemory,
        FromLock, FromMap, FromPlant, FromHeader, FromProtect
  <2>2. CASE pc9 = "print"
    BY <2>2 DEF MailboxDelivered, MailboxInv
  <2> QED
    BY <2>1, <2>2 DEF MailboxDelivered
<1> QED
  BY <1>1, HandshakeInvariant, PTL

(* What has been performed follows from the ARM7's place.                  *)
THEOREM ServedInvariant == Spec => []ServedInv
<1>1. Init => ServedInv
  BY DEF Init, ServedInv, Stage7, Calling, FromHeader, FromPlant, FromMap,
  FromLock,
     FromMemory, FromBoot
<1> QED
  BY <1>1, ServedStep, HandshakeInvariant, PTL DEF Spec

(* Every request is performed once, in order and with its own argument.    *)
THEOREM RequestsServed == Spec => []ServedAsAsked
<1>1. HandshakeInv /\ ServedInv => ServedAsAsked
  <2> SUFFICES ASSUME HandshakeInv, ServedInv PROVE ServedAsAsked
    OBVIOUS
  <2>1. pc7 \in Locations7
    BY DEF HandshakeInv, TypeOK, ControlOK
  <2>2. served # << >> =>
          \/ served \in {ForLoad, ForBanks, ForScfg, ForPrints, AllRequests}
          \/ served = ForPrint9 /\ boot.debugPrints
    <3>1. Stage7 \notin {"confirm"} \union FromHeader => served = << >>
      BY DEF ServedInv
    <3>2. Stage7 \in {"confirm", "header", "extMem", "scfg", "plant", "params",
                       "mapGame"}
          => served \in {<< >>, ForLoad}
      BY DEF ServedInv
    <3>3. Stage7 \in {"protectGame", "lock"} => served \in {ForLoad, ForBanks}
      BY DEF ServedInv
    <3>4. Stage7 \in {"memory", "show9"} => served \in {ForBanks, ForScfg}
      BY DEF ServedInv
    <3>5. Stage7 = "show7" => \/ served = ForScfg
                              \/ served = ForPrint9 /\ boot.debugPrints
      BY DEF ServedInv
    <3>6. Stage7 = "start" => \/ served = ForPrints
                              \/ served = ForPrint9 /\ boot.debugPrints
      BY DEF ServedInv, Stage7, Pending, Calling
    <3>7. Stage7 \in FromBoot => served \in {ForPrints, AllRequests}
      BY DEF ServedInv, FromBoot
    <3> QED
      BY <3>1, <3>2, <3>3, <3>4, <3>5, <3>6, <3>7
        DEF FromHeader, FromPlant, FromMap, FromLock, FromMemory
  <2>3. pc9 \in Leaving => served = AllRequests
    BY <2>1 DEF HandshakeInv, ServedInv, Sync, Calling, Stage7, Locations7,
      Working7, SawReady7, Testing, Serving, Acking, Leaving
  <2>4. served # << >> => served = SubSeq(AllRequests, 1, Len(served))
    BY <2>2, Beginnings, BeginningOf, RequestsTyped, ZenonT(60)
  <2> QED
    BY <2>3, <2>4 DEF ServedAsAsked
<1> QED
  BY <1>1, HandshakeInvariant, ServedInvariant, PTL

(* Neither CPU starts the game while the other still boots.                *)
THEOREM CpusJumpTogether == Spec => []JumpTogether
<1>1. HandshakeInv => JumpTogether
  BY DEF HandshakeInv, JumpTogether, Sync, TypeOK, ControlOK, Locations7,
    Working7, SawReady7, Testing, Serving, Acking, Leaving
<1> QED
  BY <1>1, HandshakeInvariant, PTL

(* The ARM7 clears memory that the ARM9 has left to it.                    *)
THEOREM ClearsLeftMemory == Spec => []ClearsOnlyItsOwn
<1>1. HandshakeInv /\ RegistersInv => ClearsOnlyItsOwn
  BY DEF HandshakeInv, RegistersInv, ClearsOnlyItsOwn, Sync, BanksInv, Stage7,
    Calling, Working7, Testing, Entering, Starting, FromProtect, FromHeader,
    FromPlant, FromMap, FromLock, FromMemory, FromBoot
<1> QED
  BY <1>1, HandshakeInvariant, RegistersInvariant, PTL

(* Neither CPU gets ahead of the other from the passme loop to the game.   *)
THEOREM AlwaysInStep == Spec => []InStep
<1>1. NeverLost /\ StartNotMissed /\ ClearsOnlyItsOwn /\ JumpTogether => InStep
  BY DEF InStep
<1> QED
  BY <1>1, ArmNineNeverLost, SecondStartSeen, ClearsLeftMemory,
    CpusJumpTogether, PTL

(* The ARM9 is done only when the ARM7 has asked for the boot.             *)
LEMMA LeavingStage ==
  ASSUME HandshakeInv, pc9 \in Leaving
  PROVE  Stage7 \in FromBoot /\ pc7 \notin Calling
BY DEF HandshakeInv, Sync, TypeOK, ControlOK, Locations7, Working7, SawReady7,
  Testing, Serving, Acking, Leaving, Stage7, Calling, FromBoot

(* Both CPUs give the game the same memory banks.                          *)
THEOREM SameBanks == Spec => []BanksAgree
<1>1. HandshakeInv /\ RegistersInv => BanksAgree
  <2> SUFFICES ASSUME HandshakeInv, RegistersInv, pc9 \in Leaving
               PROVE  BanksAgree
    BY DEF BanksAgree
  <2>1. Stage7 \in FromLock
    BY LeavingStage DEF FromLock, FromMemory
  <2>2. banks \in Banks
    BY DEF HandshakeInv, TypeOK, RegistersOK
  <2>3. /\ banks.wram = IF GameBanks THEN "game" ELSE "arm7"
        /\ IF GameBanks
           THEN banks.slots = "game" /\ banks.windows = "game"
                /\ banks.protect = "game"
           ELSE banks.slots = "default" /\ banks.windows = Windows
                /\ banks.protect = "arm7"
    BY <2>1 DEF RegistersInv, BanksInv
  <2> QED
    BY <2>2, <2>3 DEF BanksAgree, Banks
<1> QED
  BY <1>1, HandshakeInvariant, RegistersInvariant, PTL

(* The game starts with the SCFG registers the options ask for.            *)
THEOREM ScfgAsConfigured == Spec => []BootedAsConfigured
<1>1. HandshakeInv /\ RegistersInv => BootedAsConfigured
  <2> SUFFICES ASSUME HandshakeInv, RegistersInv, pc9 \in Leaving
               PROVE  BootedAsConfigured
    BY DEF BootedAsConfigured
  <2>1. Stage7 \in FromMemory /\ Stage7 \in FromPlant /\ pc7 \notin Calling
    BY LeavingStage DEF FromMemory, FromPlant, FromMap, FromLock
  <2>2. ~Pending("memory", "ackScfg")
    BY <2>1 DEF Pending
  <2> QED
    BY <2>1, <2>2 DEF BootedAsConfigured, RegistersInv, Scfg7Inv, Scfg9Inv,
      Sealed, NtrExt
<1> QED
  BY <1>1, HandshakeInvariant, RegistersInvariant, PTL

-----------------------------------------------------------------------------
(* The handshake implements CommandMailbox.                                *)

LEMMA ServiceInit == Init => Service!Init
BY DEF Init, Service!Init, ServicePhase, Outstanding, Leaving, Acking, Testing,
  Serving

(* Steps of the ARM7: only a post changes what the mailbox shows.          *)
LEMMA ServiceStepArm7 ==
  ASSUME HandshakeInv, Arm7
  PROVE  [Service!Next]_(Service!mailboxVars)
<1> USE DEF HandshakeInv, Sync, CallOK, Calling, Working7, SawReady7, Testing,
      Serving, Acking, Leaving, ServesCmd, ServicePhase, Outstanding, Commands
<1> DEFINE Same == /\ ServicePhase' = ServicePhase
                   /\ Outstanding' = Outstanding /\ served' = served
<1>1. CASE CallPost
  <2>1. /\ pc9 \in Testing /\ flag = "READY" /\ pc9' = pc9 /\ mb' = mb
        /\ flag' = call7.cmd /\ served' = served
    BY <1>1 DEF CallPost
  <2>2. call7.cmd \in Commands \ {"BOOTBIN"}
    BY <1>1 DEF CallPost
  <2>3. ServicePhase = "idle" /\ ServicePhase' = "posted"
    BY <2>1, <2>2
  <2>4. Outstanding' = [cmd |-> call7.cmd,
                        arg |-> IF call7.cmd = "PRINT_MEM" THEN mb.address
                                ELSE "none"]
    BY <2>1, <2>2
  <2>5. Outstanding' \in Request
    BY <2>2, <2>4 DEF TypeOK, DataOK, Mailbox, Request
  <2> QED
    BY <2>1, <2>3, <2>5 DEF Service!Next, Service!Post
<1>2. CASE StartBinary
  <2>1. /\ pc9 \in Testing /\ flag = "READY" /\ pc9' = pc9 /\ mb' = mb
        /\ flag' = "BOOTBIN" /\ served' = served
    BY <1>2 DEF StartBinary
  <2>2. ServicePhase = "idle" /\ ServicePhase' = "posted"
    BY <2>1
  <2>3. Outstanding' = [cmd |-> "BOOTBIN", arg |-> "none"]
    BY <2>1
  <2>4. Outstanding' \in Request
    BY <2>3 DEF Request
  <2> QED
    BY <2>1, <2>2, <2>4 DEF Service!Next, Service!Post
<1>3. CASE CopyArm9Image \/ AskMbkStart
  <2>1. Same
    BY <1>3 DEF CopyArm9Image, AskMbkStart
  <2> QED
    BY <2>1 DEF Service!mailboxVars
<1>4. CASE CallArgument \/ SetArm9DsiMode \/ ConfirmDsiMode \/ LoadHeader
           \/ SetExtendedMemory \/ PublishOptions
  <2>1. Same
    BY <1>4 DEF CallArgument, SetArm9DsiMode, ConfirmDsiMode, LoadHeader,
      SetExtendedMemory, PublishOptions
  <2> QED
    BY <2>1 DEF Service!mailboxVars
<1>5. CASE UNCHANGED <<pc9, link>>
  <2>1. Same
    BY <1>5
  <2> QED
    BY <2>1 DEF Service!mailboxVars
<1>6. Arm7 => \/ CallPost \/ StartBinary \/ CopyArm9Image \/ AskMbkStart
              \/ CallArgument \/ SetArm9DsiMode \/ ConfirmDsiMode
              \/ LoadHeader \/ SetExtendedMemory \/ PublishOptions
              \/ UNCHANGED <<pc9, link>>
  BY DEF Arm7, ReleaseArm9, InitMbk, SeeArm9Start, PollStart, ProtectBanks,
    ResetMemory, LoadBinary, SetScfg7, PlantEngine, MapGameBanks,
    ProtectGameBanks,
    LockScfg7, SetMemoryAddress, ShowAddress, CallWait, CallReturn,
    SeeBootServed, JumpArm7
<1> QED
  BY <1>1, <1>2, <1>3, <1>4, <1>5, <1>6

(* Steps of the ARM9: opening, serving and acknowledging.                  *)
LEMMA ServiceStepArm9 ==
  ASSUME HandshakeInv, Arm9
  PROVE  [Service!Next]_(Service!mailboxVars)
<1> USE DEF HandshakeInv, Sync, CallOK, Calling, Working7, SawReady7, Testing,
      Serving, Acking, Leaving, ServesCmd, ServicePhase, Outstanding, Commands
<1> DEFINE Same == /\ ServicePhase' = ServicePhase
                   /\ Outstanding' = Outstanding /\ served' = served
<1> USE DEF TypeOK, ControlOK, Locations7
<1>1. CASE AnnounceReady
  <2>1. ServicePhase = "closed" /\ ServicePhase' = "idle"
    BY <1>1 DEF AnnounceReady
  <2>2. Outstanding' = Outstanding /\ served' = served
    BY <1>1 DEF AnnounceReady
  <2> QED
    BY <2>1, <2>2 DEF Service!Next, Service!Open
<1>2. CASE DisplayError \/ SetMbk \/ SetScfgLast \/ PrintMemory \/ LeaveLoop
  <2>1. flag = ServesCmd(pc9) /\ flag \in Commands /\ pc9 \in Serving
    BY <1>2 DEF DisplayError, SetMbk, SetScfgLast, PrintMemory, LeaveLoop
  <2>2. /\ pc9' \in Acking /\ flag' = flag /\ mb' = mb
        /\ served' = Append(served, [cmd |-> ServesCmd(pc9),
                     arg |-> IF ServesCmd(pc9) = "PRINT_MEM" THEN mb.address
                             ELSE "none"])
    BY <1>2 DEF DisplayError, SetMbk, SetScfgLast, PrintMemory, LeaveLoop, Log
  <2>3. ServicePhase = "posted" /\ ServicePhase' = "served"
    BY <2>1, <2>2
  <2>4. Outstanding' = Outstanding /\ served' = Append(served, Outstanding)
    BY <2>1, <2>2
  <2> QED
    BY <2>3, <2>4 DEF Service!Next, Service!Serve
<1>3. CASE \/ Acknowledge("ackError", "ifMbk")
           \/ Acknowledge("ackSetMbk", "ifScfg")
           \/ Acknowledge("ackScfg", "ifPrint")
           \/ Acknowledge("ackPrint", "loop")
  <2>1. /\ pc9 \in Acking \ {"ackBoot"} /\ pc9' \in Testing
        /\ flag \in Commands \ {"BOOTBIN"} /\ flag' = "READY"
        /\ served' = served
    BY <1>3 DEF Acknowledge
  <2>2. ServicePhase = "served" /\ ServicePhase' = "idle"
    BY <2>1
  <2>3. Outstanding' = NoCall /\ Outstanding.cmd # "BOOTBIN"
    BY <2>1
  <2> QED
    BY <2>1, <2>2, <2>3 DEF Service!Next, Service!Acknowledge
<1>4. CASE Acknowledge("ackBoot", "vblank")
  <2>1. /\ pc9 = "ackBoot" /\ pc9' = "vblank" /\ flag = "BOOTBIN"
        /\ served' = served
    BY <1>4 DEF Acknowledge
  <2>2. ServicePhase = "served" /\ ServicePhase' = "over"
    BY <2>1
  <2>3. Outstanding' = NoCall
        /\ Outstanding = [cmd |-> "BOOTBIN", arg |-> "none"]
    BY <2>1
  <2>4. Outstanding \in {r \in Request : r.cmd = "BOOTBIN"}
    BY <2>3 DEF Request
  <2> QED
    BY <2>1, <2>2, <2>3, <2>4 DEF Service!Next, Service!Acknowledge
<1>5. CASE \/ Test("loop", "BOOTBIN", "leave", "ifError")
           \/ Test("ifError", "DISPERR", "error", "ifMbk")
           \/ Test("ifMbk", "SETMBK", "setMbk", "ifScfg")
           \/ Test("ifScfg", "SETSCFG", "scfgExt", "ifPrint")
           \/ Test("ifPrint", "PRINT_MEM", "print", "loop")
  <2>1. /\ pc9 \in Testing /\ pc9' \in Testing \union Serving
        /\ UNCHANGED link
    BY <1>5 DEF Test
  <2>2. Same
    BY <2>1
  <2> QED
    BY <2>2 DEF Service!mailboxVars
<1>6. CASE SetScfgExt \/ SetScfgBoost \/ SetScfgClk \/ ClearTcm \/ JumpArm9
  <2>1. Same
    BY <1>6 DEF SetScfgExt, SetScfgBoost, SetScfgClk, ClearTcm, JumpArm9,
      MailboxInv, Stage7, FromHeader, FromPlant, FromMap, FromLock, FromMemory,
      FromBoot
  <2> QED
    BY <2>1 DEF Service!mailboxVars
<1>7. CASE \/ SetLoopVector \/ ResetArm7 \/ FetchEntry \/ ClearArm9Bss
           \/ HandOverWram \/ AnnounceStart \/ SeeMbkStart \/ InitMbkArm9
           \/ AckMbkStart \/ AnnounceMemClear
  <2>1. Same
    BY <1>7 DEF SetLoopVector, ResetArm7, FetchEntry, ClearArm9Bss,
      HandOverWram, AnnounceStart, SeeMbkStart, InitMbkArm9, AckMbkStart,
      AnnounceMemClear
  <2> QED
    BY <2>1 DEF Service!mailboxVars
<1> QED
  BY <1>1, <1>2, <1>3, <1>4, <1>5, <1>6, <1>7 DEF Arm9, Serve

(* Every request is served once, with its argument, before the next.       *)
THEOREM HandshakeImplementsMailbox == Spec => Service!SafeSpec
<1>1. HandshakeInv /\ [Next]_vars => [Service!Next]_(Service!mailboxVars)
  <2> SUFFICES ASSUME HandshakeInv, [Next]_vars
               PROVE  [Service!Next]_(Service!mailboxVars)
    OBVIOUS
  <2>1. CASE Ended \/ UNCHANGED vars
    BY <2>1 DEF Ended, vars, Service!mailboxVars, ServicePhase, Outstanding
  <2> QED
    BY <2>1, ServiceStepArm7, ServiceStepArm9 DEF Next
<1> QED
  BY <1>1, ServiceInit, HandshakeInvariant, PTL DEF Spec, Service!SafeSpec

=============================================================================
