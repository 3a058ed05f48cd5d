------------------------------ MODULE Handover -------------------------------
(***************************************************************************)
(* What the launcher leaves in video memory for the bootloader: which kind *)
(* of program it was started as, so that a reset can return to it          *)
(* (main.cpp), and the image of bootloader, parameters, card engine and    *)
(* path (launch_engine.c), which the bootloader's start-up clears a part   *)
(* of before it copies the engine to its place (launch_ds_crt0.s,          *)
(* main.arm7.c:1231).                                                      *)
(*                                                                         *)
(* A path is the sequence of the names between its separators, a name a    *)
(* byte that is not 0.                                                     *)
(***************************************************************************)
EXTENDS MemoryCopy

CONSTANTS
  Sd, Sdmc, Nand, Title, Content,  (* names in a path                       *)
  Apps,          (* the names that end in ".app"                            *)
  VramSize,      (* of bank D                                               *)
  LoadSize,      (* sizeof(bootloader_main_data_t)                          *)
  DataSize,      (* sizeof(cardengine_main_data_t)                          *)
  boot_type_at, boot_path_offset, boot_path_max_len

(* The bank is whole words; the type lies in the data, before the path     *)
(* (cardengine_defs.h).                                                    *)
ASSUME SizesAssumption ==
  /\ VramSize \in Nat /\ VramSize % 4 = 0
  /\ LoadSize \in Nat /\ DataSize \in Nat
  /\ boot_path_offset \in Nat /\ boot_path_max_len \in Nat
  /\ boot_type_at \in Nat /\ boot_type_at < DataSize /\ boot_type_at < boot_path_offset

(* The media have names of their own.                                      *)
ASSUME MediaAssumption == Nand \notin {Sd, Sdmc}

NOT_SUPPORTED == 0
DSIWARE == 1
SD == 2

Last(path) == path[Len(path)]

has_been_booted_from_sd(path) == Len(path) > 1 /\ path[1] \in {Sd, Sdmc}

has_been_booted_from_nand(path) ==
  /\ Len(path) > 2 /\ path[1] = Nand /\ path[2] = Title
  /\ Last(path) \in Apps

(* The path up to the directory "content" the file is in, or nothing.      *)
get_base_title_nand_path(path) ==
  IF Len(path) > 2 /\ path[Len(path) - 1] = Content
  THEN SubSeq(path, 1, Len(path) - 2) ELSE <<>>

(* path = <<>>: not started from a file, or not in DSi mode.               *)
base_title_nand_path(path) ==
  IF path # <<>> /\ has_been_booted_from_nand(path)
  THEN get_base_title_nand_path(path) ELSE <<>>

boot_type(path) ==
  CASE base_title_nand_path(path) # <<>> -> DSIWARE
    [] base_title_nand_path(path) = <<>> /\ path # <<>>
         /\ has_been_booted_from_sd(path) -> SD
    [] OTHER -> NOT_SUPPORTED

-----------------------------------------------------------------------------
Filled(n, byte) == <<>> \o [i \in 1..n |-> byte]
Copied(mem, dst, src, size) == After(mem, tonccpy(mem, dst, src, size))

(* Mutant: behind the file, and so in what start-up clears.                *)
cardEngineLocation_File(boot, copy_end) == ((Len(boot) + 3) \div 4) * 4

(* Behind all the memory of the bootloader.                                *)
cardEngineLocation(boot, copy_end) == ((copy_end + 3) \div 4) * 4

(* The sources of the copies lie behind the bank.  engine = <<>>: none is  *)
(* chosen, and cardengine_data is empty but for the type.                  *)
runLaunchEngine(boot, copy_end, params, engine, path) ==
  LET at == cardEngineLocation(boot, copy_end)
      data == [(IF engine = <<>> THEN Zeros(DataSize)
                ELSE SubSeq(engine, 1, DataSize))
                 EXCEPT ![boot_type_at + 1] = boot_type(path)]
      max_len == IF engine = <<>> THEN 0 ELSE boot_path_max_len
      offset == IF engine = <<>> THEN 0 ELSE boot_path_offset
      argv == path \o <<0>> \o Filled(boot_path_max_len, 99)
      fromBoot == VramSize
      fromParams == fromBoot + Len(boot)
      fromEngine == fromParams + LoadSize
      fromData == fromEngine + Len(engine)
      fromPath == fromData + DataSize
      m0 == Filled(VramSize, 98) \o boot \o params \o engine \o data \o argv
      m1 == After(m0, toncset(m0, 0, 0, VramSize))
      m2 == Copied(m1, 0, fromBoot, Len(boot))
      m3 == Copied(m2, 0, fromParams, LoadSize)
      m4 == Copied(m3, at, fromEngine, Len(engine))
      m5 == Copied(m4, at, fromData, DataSize)
      m6 == IF path # <<>> THEN Copied(m5, at + offset, fromPath, max_len)
            ELSE After(m5, toncset(m5, at + offset, 0, max_len))
  IN SubSeq(m6, 1, VramSize)

(* startUp's ClearMem: whole words.                                        *)
ClearBss(vram, boot, copy_end) ==
  Over(vram, Len(boot), Zeros(((copy_end - Len(boot) + 3) \div 4) * 4))

(* The engine as it is copied to its place, in memory of its own.          *)
Placed(vram, at, size) ==
  LET mem == vram \o Zeros(size)
  IN IF size = 0 THEN <<>>
     ELSE SubSeq(After(mem, copyLoop(mem, VramSize, at, size)),
                 VramSize + 1, VramSize + size)
=============================================================================
