---------------------------- MODULE SavedOptions ----------------------------
(***************************************************************************)
(* The options of the launcher as main.cpp keeps them in memory and in a   *)
(* file: structs of 32-bit words that grew from version to version, read   *)
(* by overlaying the file's bytes on the newest struct and converting one  *)
(* layout into the next in place.                                          *)
(*                                                                         *)
(* One word, "twl", stands for the seven from scfgUnlock to soundFreq,     *)
(* which lie together at the same offset of every layout and are read,     *)
(* converted and resolved alike; its values are those of twlmode, the      *)
(* others have one fewer (and soundFreq's default is 0 for every card).    *)
(***************************************************************************)
EXTENDS Integers, Sequences

DEFAULT_VALUE_GENERIC == -1

(* main_and_sub_version, the upper half of the first word.                 *)
V0 == 0
V1 == 256
V1_1 == 257
V1_2 == 258
SAVED_VERSION == 259

(* Where each version keeps each field.                                    *)
L1_0 == [version |-> 1, twl |-> 2, runCardEngine |-> 3, language |-> 4,
         autoboot |-> 5]
L1_1 == [version |-> 1, twl |-> 2, runCardEngine |-> 3, language |-> 4,
         sleepMode |-> 5, autoboot |-> 6]
L1_2 == [version |-> 1, twl |-> 2, runCardEngine |-> 3, language |-> 4,
         sleepMode |-> 5, redirectPowerButton |-> 6, autoboot |-> 7]
L == [version |-> 1, twl |-> 2, runCardEngine |-> 3, language |-> 4,
      sleepMode |-> 5, redirectPowerButton |-> 6, cartridge_read_type |-> 7,
      remove_debugger_monitor |-> 8, autoboot |-> 9]

(* The sizes of the four structs.                                          *)
Words1_0 == 5
Words1_1 == 6
Words1_2 == 7
Words == 9

Data == [1..Words -> Int]

(* reset_all_saved_data.                                                   *)
Defaults ==
  [i \in 1..Words |->
     CASE i = L.version -> SAVED_VERSION
       [] i \in {L.twl, L.language, L.cartridge_read_type}
            -> DEFAULT_VALUE_GENERIC
       [] i \in {L.sleepMode, L.autoboot} -> 1
       [] OTHER -> 0]

(* The three conversions.  Each copies the old struct out first, so every  *)
(* right-hand side is the old memory; words no assignment names keep what  *)
(* they hold.                                                              *)
ConvertTo1_1(m) ==
  [m EXCEPT ![L1_1.sleepMode] = 1,
            ![L1_1.autoboot] = m[L1_0.autoboot],
            ![L1_1.version] = SAVED_VERSION]

ConvertTo1_2(m) ==
  [m EXCEPT ![L.runCardEngine] = 0,
            ![L.sleepMode] = m[L1_1.sleepMode],
            ![L.redirectPowerButton] = 0,
            ![L.autoboot] = m[L1_1.autoboot],
            ![L.version] = SAVED_VERSION]

(* Mutant: autoboot is looked for where the new layout has it.             *)
ConvertTo1_3_NewPlace(m) ==
  [m EXCEPT ![L.sleepMode] = m[L1_2.sleepMode],
            ![L.redirectPowerButton] = m[L1_2.redirectPowerButton],
            ![L.cartridge_read_type] = DEFAULT_VALUE_GENERIC,
            ![L.remove_debugger_monitor] = 0,
            ![L.version] = SAVED_VERSION]

ConvertTo1_3(m) ==
  [m EXCEPT ![L.sleepMode] = m[L1_2.sleepMode],
            ![L.redirectPowerButton] = m[L1_2.redirectPowerButton],
            ![L.autoboot] = m[L1_2.autoboot],
            ![L.cartridge_read_type] = DEFAULT_VALUE_GENERIC,
            ![L.remove_debugger_monitor] = 0,
            ![L.version] = SAVED_VERSION]

(* The version found decides which conversions run.                        *)
ConvertFrom(version, m) ==
  LET m1 == IF version \in {V0, V1} THEN ConvertTo1_1(m) ELSE m
      m2 == IF version <= V1_1 THEN ConvertTo1_2(m1) ELSE m1
  IN  ConvertTo1_3(m2)

(* fread into memory that holds m: a short file leaves the rest alone.     *)
Overlay(file, m) ==
  [i \in 1..Words |-> IF i <= Len(file) THEN file[i] ELSE m[i]]

(* As many words as a struct has: 9 is also what fread reads of a longer   *)
(* file.                                                                   *)
KnownSize(file) == Len(file) \in {Words1_0, Words1_1, Words1_2} \/ Len(file) >= Words

(* read_data_from_path.  A missing file is the empty sequence: both leave  *)
(* the defaults in memory and report failure.                              *)
ReadFails(file) == ~KnownSize(file) \/ file[1] > SAVED_VERSION

ReadData(file, m) ==
  IF ReadFails(file) THEN Defaults
  ELSE IF file[1] = SAVED_VERSION THEN Overlay(file, m)
  ELSE ConvertFrom(file[1], Overlay(file, m))

-----------------------------------------------------------------------------
(* What a file means to the version that wrote it.                         *)

(* The values an option takes in the menu; every version had the same.     *)
TwlRange == -1..2
LanguageRange == -1..6
ReadTypeRange == -1..1
Switch == 0..1

(* Where the version that wrote a file keeps autoboot, its last word.      *)
SavedAutoboot(file) == file[Len(file)]

(* A file some version has written.                                        *)
WellFormed(file) ==
  /\ file \in Seq(Int)
  /\ \/ Len(file) = Words1_0 /\ file[1] \in {V0, V1}
     \/ Len(file) = Words1_1 /\ file[1] = V1_1
     \/ Len(file) = Words1_2 /\ file[1] = V1_2
     \/ /\ Len(file) = Words /\ file[1] = SAVED_VERSION
        /\ file[L.cartridge_read_type] \in ReadTypeRange
        /\ file[L.remove_debugger_monitor] \in Switch
  /\ file[L.twl] \in TwlRange
  /\ file[L.runCardEngine] \in Switch
  /\ file[L.language] \in LanguageRange
  /\ Len(file) > Words1_0 => file[L1_1.sleepMode] \in Switch
  /\ Len(file) > Words1_1 => file[L1_2.redirectPowerButton] \in Switch
  /\ SavedAutoboot(file) \in Switch

(* Versions up to 1.1: autoboot then passes two conversions that disagree  *)
(* about its place.  Their card engine switch is dropped on purpose, the   *)
(* later engine being another program.                                     *)
EarlyVersion(file) == file[1] <= V1_1

(* Memory m holds the options of the file, as its own version stored them. *)
KeepsOptions(file, m) ==
  /\ m[L.version] = SAVED_VERSION
  /\ m[L.twl] = file[L1_0.twl]
  /\ m[L.language] = file[L1_0.language]
  /\ file[1] = V1_1 => m[L.sleepMode] = file[L1_1.sleepMode]
  /\ ~EarlyVersion(file) =>
       /\ m[L.runCardEngine] = file[L1_2.runCardEngine]
       /\ m[L.sleepMode] = file[L1_2.sleepMode]
       /\ m[L.redirectPowerButton] = file[L1_2.redirectPowerButton]
       /\ m[L.autoboot] = SavedAutoboot(file)
  /\ file[1] = SAVED_VERSION =>
       /\ m[L.cartridge_read_type] = file[L.cartridge_read_type]
       /\ m[L.remove_debugger_monitor] = file[L.remove_debugger_monitor]
=============================================================================
