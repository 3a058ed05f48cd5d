--------------------------- MODULE SettingsProofs ---------------------------
(***************************************************************************)
(* Proofs about what keeps the user's choices: OptionsMenu, for every set  *)
(* of consoles, every well-formed content of the two media and every       *)
(* bound; and GameSetup, for every console, set of options and game, for   *)
(* every counter width and however often the settings were written.        *)
(***************************************************************************)
EXTENDS OptionsMenu, GameSetup, SequenceTheorems, TLAPS

-----------------------------------------------------------------------------
(* Reading a file.                                                         *)

(* Options as read, before a missing autoboot value is filled in.          *)
ReadOK(d) ==
  /\ d \in Data
  /\ d[L.version] = SAVED_VERSION
  /\ d[L.twl] \in TwlRange
  /\ d[L.runCardEngine] \in Switch
  /\ d[L.language] \in LanguageRange
  /\ d[L.sleepMode] \in Switch
  /\ d[L.redirectPowerButton] \in Switch
  /\ d[L.cartridge_read_type] \in ReadTypeRange
  /\ d[L.remove_debugger_monitor] \in Switch
  /\ d[L.autoboot] \in ReadTypeRange

LEMMA DefaultsOK == OptionsOK(Defaults)
BY DEF OptionsOK, Defaults, Data, L, Words, TwlRange, LanguageRange,
       ReadTypeRange, Switch, SAVED_VERSION, DEFAULT_VALUE_GENERIC

(* The words of a file.                                                    *)
LEMMA FileWords ==
  ASSUME NEW file \in Seq(Int)
  PROVE  /\ Len(file) \in Nat
         /\ \A i \in 1..9 : i <= Len(file) => file[i] \in Int
OBVIOUS

(* fread puts the file's words over the old ones.                          *)
LEMMA OverlayWords ==
  ASSUME NEW file \in Seq(Int), NEW m \in Data
  PROVE  /\ Overlay(file, m) \in Data
         /\ \A i \in 1..9 :
              Overlay(file, m)[i] = IF i <= Len(file) THEN file[i] ELSE m[i]
<1>1. /\ Len(file) \in Nat
      /\ \A i \in 1..9 : i <= Len(file) => file[i] \in Int
  BY FileWords
<1>2. \A i \in 1..9 : m[i] \in Int
  BY DEF Data, Words
<1>3. \A i \in 1..9 : (IF i <= Len(file) THEN file[i] ELSE m[i]) \in Int
  BY <1>1, <1>2
<1>4. QED
  BY <1>3 DEF Overlay, Data, Words

LEMMA WellFormedReads ==
  ASSUME NEW file, WellFormed(file)
  PROVE  ~ReadFails(file) /\ file # << >>
<1>1. file \in Seq(Int) /\ Len(file) \in {5, 6, 7, 9}
  BY DEF WellFormed, Words1_0, Words1_1, Words1_2, Words
<1>2. file[1] \in {0, 256, 257, 258, 259}
  BY DEF WellFormed, V0, V1, V1_1, V1_2, SAVED_VERSION
<1>3. KnownSize(file)
  <2>1. Len(file) \in {5, 6, 7} \/ Len(file) = 9
    BY <1>1
  <2>2. Len(file) = 9 => Len(file) >= 9
    OBVIOUS
  <2>3. QED
    BY <2>1, <2>2 DEF KnownSize, Words1_0, Words1_1, Words1_2, Words
<1>4. QED
  BY <1>1, <1>2, <1>3 DEF ReadFails, SAVED_VERSION

(* What each conversion does, word by word.                                *)
LEMMA Conversion1 ==
  ASSUME NEW m \in Data, NEW c, c = ConvertTo1_1(m)
  PROVE  /\ c \in Data
         /\ c[1] = 259 /\ c[2] = m[2] /\ c[3] = m[3] /\ c[4] = m[4]
         /\ c[5] = 1 /\ c[6] = m[5]
BY DEF Data, Words, ConvertTo1_1, L1_0, L1_1, SAVED_VERSION

LEMMA Conversion2 ==
  ASSUME NEW m \in Data, NEW c, c = ConvertTo1_2(m)
  PROVE  /\ c \in Data
         /\ c[1] = 259 /\ c[2] = m[2] /\ c[3] = 0 /\ c[4] = m[4]
         /\ c[5] = m[5] /\ c[6] = 0 /\ c[7] = m[7] /\ c[9] = m[6]
BY DEF Data, Words, ConvertTo1_2, L1_1, L, SAVED_VERSION

LEMMA Conversion3 ==
  ASSUME NEW m \in Data, NEW c, c = ConvertTo1_3(m)
  PROVE  /\ c \in Data
         /\ c[1] = 259 /\ c[2] = m[2] /\ c[3] = m[3] /\ c[4] = m[4]
         /\ c[5] = m[5] /\ c[6] = m[6] /\ c[7] = -1 /\ c[8] = 0
         /\ c[9] = m[7]
BY DEF Data, Words, ConvertTo1_3, L1_2, L, SAVED_VERSION,
       DEFAULT_VALUE_GENERIC

(* Whatever version wrote the file, its options are in memory afterwards.  *)
LEMMA ReadKeeps ==
  ASSUME NEW file, WellFormed(file), NEW m, OptionsOK(m)
  PROVE  /\ ReadOK(ReadData(file, m))
         /\ KeepsOptions(file, ReadData(file, m))
<1> DEFINE o == Overlay(file, m)
<1> DEFINE c1 == ConvertTo1_1(o)
<1> DEFINE r == ReadData(file, m)
<1> USE DEF L, L1_0, L1_1, L1_2, Words, Words1_0, Words1_1, Words1_2,
      V0, V1, V1_1, V1_2, SAVED_VERSION, DEFAULT_VALUE_GENERIC,
      TwlRange, LanguageRange, ReadTypeRange, Switch
<1>1. /\ o \in Data
      /\ \A i \in 1..9 : o[i] = IF i <= Len(file) THEN file[i] ELSE m[i]
  <2>1. file \in Seq(Int) /\ m \in Data
    BY DEF WellFormed, OptionsOK
  <2>2. QED
    BY <2>1, OverlayWords
<1>2. ~ReadFails(file)
  BY WellFormedReads
<1>3. ASSUME Len(file) = 5, file[1] \in {0, 256}
      PROVE  ReadOK(r) /\ KeepsOptions(file, r)
  <2> DEFINE c2 == ConvertTo1_2(c1)
  <2>1. r = ConvertTo1_3(c2)
    BY <1>2, <1>3 DEF ReadData, ConvertFrom
  <2>2. /\ o[2] = file[2] /\ o[3] = file[3]
        /\ o[4] = file[4] /\ o[5] = file[5]
        /\ o[7] = m[7] /\ m[7] \in -1..1
    BY <1>1, <1>3 DEF OptionsOK
  <2>3. /\ file[2] \in -1..2 /\ file[3] \in 0..1 /\ file[4] \in -1..6
        /\ file[5] \in 0..1
    BY <1>3 DEF WellFormed, SavedAutoboot
  <2> HIDE DEF r, o
  <2>4. /\ c1 \in Data
        /\ c1[2] = file[2] /\ c1[4] = file[4] /\ c1[5] = 1 /\ c1[6] = file[5]
    BY <1>1, <2>2, Conversion1
  <2>a. c1[7] = m[7]
    BY <1>1, <2>2 DEF ConvertTo1_1, Data
  <2> HIDE DEF c1
  <2>5. /\ c2 \in Data
        /\ c2[2] = file[2] /\ c2[3] = 0 /\ c2[4] = file[4] /\ c2[5] = 1
        /\ c2[6] = 0 /\ c2[7] = m[7]
    BY <2>4, <2>a, Conversion2
  <2> HIDE DEF c2
  <2>6. /\ r \in Data
        /\ r[1] = 259 /\ r[2] = file[2] /\ r[3] = 0 /\ r[4] = file[4]
        /\ r[5] = 1 /\ r[6] = 0 /\ r[7] = -1 /\ r[8] = 0 /\ r[9] = m[7]
    BY <2>1, <2>5, Conversion3
  <2>7. ReadOK(r)
    BY <2>2, <2>3, <2>6 DEF ReadOK
  <2>8. KeepsOptions(file, r)
    BY <1>3, <2>6 DEF KeepsOptions, EarlyVersion
  <2>9. QED
    BY <2>7, <2>8
<1>4. ASSUME Len(file) = 6, file[1] = 257
      PROVE  ReadOK(r) /\ KeepsOptions(file, r)
  <2> DEFINE c2 == ConvertTo1_2(o)
  <2>1. r = ConvertTo1_3(c2)
    BY <1>2, <1>4 DEF ReadData, ConvertFrom
  <2>2. /\ o[2] = file[2] /\ o[3] = file[3] /\ o[4] = file[4]
        /\ o[5] = file[5] /\ o[6] = file[6]
        /\ o[7] = m[7] /\ m[7] \in -1..1
    BY <1>1, <1>4 DEF OptionsOK
  <2>3. /\ file[2] \in -1..2 /\ file[3] \in 0..1 /\ file[4] \in -1..6
        /\ file[5] \in 0..1
    BY <1>4 DEF WellFormed
  <2> HIDE DEF r, o
  <2>5. /\ c2 \in Data
        /\ c2[2] = file[2] /\ c2[3] = 0 /\ c2[4] = file[4]
        /\ c2[5] = file[5] /\ c2[6] = 0 /\ c2[7] = m[7]
    BY <1>1, <2>2, Conversion2
  <2> HIDE DEF c2
  <2>6. /\ r \in Data
        /\ r[1] = 259 /\ r[2] = file[2] /\ r[3] = 0 /\ r[4] = file[4]
        /\ r[5] = file[5] /\ r[6] = 0 /\ r[7] = -1 /\ r[8] = 0
        /\ r[9] = m[7]
    BY <2>1, <2>5, Conversion3
  <2>7. ReadOK(r)
    BY <2>2, <2>3, <2>6 DEF ReadOK
  <2>8. KeepsOptions(file, r)
    BY <1>4, <2>6 DEF KeepsOptions, EarlyVersion
  <2>9. QED
    BY <2>7, <2>8
<1>5. ASSUME Len(file) = 7, file[1] = 258
      PROVE  ReadOK(r) /\ KeepsOptions(file, r)
  <2>1. r = ConvertTo1_3(o)
    BY <1>2, <1>5 DEF ReadData, ConvertFrom
  <2>2. /\ o[2] = file[2] /\ o[3] = file[3] /\ o[4] = file[4]
        /\ o[5] = file[5] /\ o[6] = file[6] /\ o[7] = file[7]
    BY <1>1, <1>5
  <2>3. /\ file[2] \in -1..2 /\ file[3] \in 0..1 /\ file[4] \in -1..6
        /\ file[5] \in 0..1 /\ file[6] \in 0..1 /\ file[7] \in 0..1
    BY <1>5 DEF WellFormed, SavedAutoboot
  <2> HIDE DEF r, o
  <2>6. /\ r \in Data
        /\ r[1] = 259 /\ r[2] = file[2] /\ r[3] = file[3] /\ r[4] = file[4]
        /\ r[5] = file[5] /\ r[6] = file[6] /\ r[7] = -1 /\ r[8] = 0
        /\ r[9] = file[7]
    BY <1>1, <2>1, <2>2, Conversion3
  <2>7. ReadOK(r)
    BY <2>3, <2>6 DEF ReadOK
  <2>8. KeepsOptions(file, r)
    BY <1>5, <2>6 DEF KeepsOptions, EarlyVersion, SavedAutoboot
  <2>9. QED
    BY <2>7, <2>8
<1>6. ASSUME Len(file) = 9, file[1] = 259
      PROVE  ReadOK(r) /\ KeepsOptions(file, r)
  <2>1. r = o
    BY <1>2, <1>6 DEF ReadData
  <2>2. \A i \in 1..9 : o[i] = file[i]
    BY <1>1, <1>6
  <2>3. /\ file[2] \in -1..2 /\ file[3] \in 0..1 /\ file[4] \in -1..6
        /\ file[5] \in 0..1 /\ file[6] \in 0..1 /\ file[7] \in -1..1
        /\ file[8] \in 0..1 /\ file[9] \in 0..1
    BY <1>6 DEF WellFormed, SavedAutoboot
  <2> HIDE DEF r, o
  <2>7. ReadOK(r)
    BY <1>1, <1>6, <2>1, <2>2, <2>3 DEF ReadOK
  <2>8. KeepsOptions(file, r)
    BY <1>6, <2>1, <2>2 DEF KeepsOptions, EarlyVersion, SavedAutoboot
  <2>9. QED
    BY <2>7, <2>8
<1>7. \/ Len(file) = 5 /\ file[1] \in {0, 256}
      \/ Len(file) = 6 /\ file[1] = 257
      \/ Len(file) = 7 /\ file[1] = 258
      \/ Len(file) = 9 /\ file[1] = 259
  BY DEF WellFormed
<1>8. QED
  BY <1>3, <1>4, <1>5, <1>6, <1>7

(* An absent or cut-off file reads as failure and leaves the defaults.     *)
LEMMA EmptyReads == ReadFails(<< >>)
BY DEF ReadFails, KnownSize, Words1_0, Words1_1, Words1_2, Words

(* What LoadOptions makes of a file, with an unset autoboot filled in.     *)
FillAutoboot(d) ==
  IF d[L.autoboot] = DEFAULT_VALUE_GENERIC
  THEN [d EXCEPT ![L.autoboot] = 1] ELSE d

LEMMA FilledKeeps ==
  ASSUME NEW file, WellFormed(file), NEW m, OptionsOK(m)
  PROVE  /\ OptionsOK(FillAutoboot(ReadData(file, m)))
         /\ KeepsOptions(file, FillAutoboot(ReadData(file, m)))
<1> DEFINE r == ReadData(file, m)
<1>1. ReadOK(r) /\ KeepsOptions(file, r)
  BY ReadKeeps
<1> HIDE DEF r
<1>2. OptionsOK(FillAutoboot(r))
  BY <1>1 DEF ReadOK, OptionsOK, FillAutoboot, Data, Words, L,
     DEFAULT_VALUE_GENERIC, ReadTypeRange, Switch
<1>3. ~EarlyVersion(file) => SavedAutoboot(file) \in 0..1
  BY DEF WellFormed, Switch
<1>4. ~EarlyVersion(file) => FillAutoboot(r) = r
  BY <1>1, <1>3 DEF KeepsOptions, FillAutoboot, DEFAULT_VALUE_GENERIC
<1>5. /\ r \in [1..9 -> Int]
      /\ \A i \in 1..8 : FillAutoboot(r)[i] = r[i]
  BY <1>1 DEF ReadOK, Data, Words, FillAutoboot, L
<1>6. CASE ~EarlyVersion(file)
  BY <1>1, <1>2, <1>4, <1>6 DEF r
<1>7. CASE EarlyVersion(file)
  <2>1. file[1] # SAVED_VERSION
    BY <1>7 DEF EarlyVersion, V1_1, SAVED_VERSION
  <2>2. KeepsOptions(file, FillAutoboot(r))
    BY <1>1, <1>5, <1>7, <2>1 DEF KeepsOptions, L
  <2>3. QED
    BY <1>2, <2>2 DEF r
<1>8. QED
  BY <1>6, <1>7

LEMMA FilledDefaults == FillAutoboot(Defaults) = Defaults
BY DEF FillAutoboot, Defaults, L, Words, DEFAULT_VALUE_GENERIC

(* Options that are in order make a well-formed file of the newest version.*)
LEMMA OptionsAreAFile ==
  ASSUME NEW d, OptionsOK(d)
  PROVE  WellFormed(d)
<1>1. d \in [1..9 -> Int]
  BY DEF OptionsOK, Data, Words
<1>2. d \in Seq(Int)
  BY <1>1, SeqDef
<1>3. Len(d) = 9
  <2>1. DOMAIN d = 1..9
    BY <1>1
  <2>2. DOMAIN d = 1..Len(d) /\ Len(d) \in Nat
    BY <1>2, LenProperties
  <2>3. 9 \in 1..Len(d) /\ Len(d) \in 1..9
    BY <2>1, <2>2
  <2>4. QED
    BY <2>2, <2>3
<1>4. QED
  BY <1>2, <1>3 DEF WellFormed, OptionsOK, SavedAutoboot, Words, Words1_0, Words1_1,
     Words1_2, L, L1_1, L1_2

-----------------------------------------------------------------------------
(* The invariant.  What is on a medium is what was last saved there, which *)
(* MenuTypeOK alone does not say; the ways a game can have been started are    *)
(* tied to the control point.                                              *)

MenuIInv ==
  /\ MenuTypeOK
  /\ DOMAIN files = Media /\ saved = files
  /\ pc = "writing" => target \in Media
  /\ how = "auto" => pc = "launched"
  /\ LoadedAsSaved
  /\ BlockFits
  /\ NoSurpriseLaunch

LEMMA MenuInitIInv == MenuInit => MenuIInv
<1> SUFFICES ASSUME MenuInit PROVE MenuIInv
  OBVIOUS
<1>1. /\ DOMAIN files = Media
      /\ \A m \in Media : files[m] = << >> \/ WellFormed(files[m])
  BY InitialFilesAssumption DEF MenuInit
<1>2. console \in Console
  BY ConsolesAssumption DEF MenuInit
<1>3. MenuTypeOK
  <2>1. OptionsOK(data) /\ header \in CardHeaders
    BY DefaultsOK DEF MenuInit, CardHeaders
  <2>2. saveTo \in -1..1 /\ resetTo \in -2..1
    BY DEF MenuInit, DEFAULT_VALUE_GENERIC
  <2>3. QED
    BY <1>1, <1>2, <2>1, <2>2 DEF MenuInit, MenuTypeOK
<1>4. QED
  BY <1>1, <1>3 DEF MenuInit, MenuIInv, LoadedAsSaved, BlockFits, NoSurpriseLaunch

(* The options memory holds after start-up.                                *)
LEMMA LoadedOK ==
  ASSUME MenuIInv, LoadOptions
  PROVE  OptionsOK(data') /\ LoadedAsSaved'
<1> DEFINE sdRead == sd /\ ~ReadFails(files["sd"])
<1> DEFINE nandRead == ~sdRead /\ console.nand /\ ~ReadFails(files["nand"])
<1>1. /\ sd' = sd /\ console' = console /\ saved' = saved /\ saved = files
      /\ OptionsOK(data)
      /\ \A m \in Media : files[m] = << >> \/ WellFormed(files[m])
  BY DEF MenuIInv, MenuTypeOK, LoadOptions
<1>2. data' = FillAutoboot(IF sdRead THEN ReadData(files["sd"], data)
                           ELSE IF nandRead THEN ReadData(files["nand"], data)
                           ELSE Defaults)
  BY DEF LoadOptions, FillAutoboot
<1>3. \A m \in Media : ReadFails(files[m]) <=> files[m] = << >>
  BY <1>1, WellFormedReads, EmptyReads
<1>4. BestCopy' = IF sdRead THEN files["sd"]
                  ELSE IF nandRead THEN files["nand"] ELSE << >>
  BY <1>1, <1>3 DEF BestCopy, Media
<1>5. CASE sdRead
  <2>1. WellFormed(files["sd"]) /\ files["sd"] # << >>
    BY <1>1, <1>3, <1>5 DEF Media
  <2>2. QED
    BY <1>1, <1>2, <1>4, <1>5, <2>1, FilledKeeps DEF LoadedAsSaved
<1>6. CASE nandRead
  <2>1. WellFormed(files["nand"]) /\ files["nand"] # << >>
    BY <1>1, <1>3, <1>6 DEF Media
  <2>2. QED
    BY <1>1, <1>2, <1>4, <1>6, <2>1, FilledKeeps DEF LoadedAsSaved
<1>7. CASE ~sdRead /\ ~nandRead
  <2>1. data' = Defaults /\ BestCopy' = << >>
    BY <1>2, <1>4, <1>7, FilledDefaults
  <2>2. QED
    BY <2>1, DefaultsOK DEF LoadedAsSaved
<1>8. QED
  BY <1>5, <1>6, <1>7

(* A launched game's block fits the console and the card.                  *)
LEMMA LaunchFits ==
  ASSUME OptionsOK(data), NEW h, h.crc, NEW reason, Launch(h, reason),
         header' = h, data' = data, console' = console
  PROVE  BlockFits'
<1>1. /\ data \in [1..9 -> Int]
      /\ data[L.twl] \in -1..2 /\ data[L.cartridge_read_type] \in -1..1
  BY DEF OptionsOK, Data, Words, TwlRange, ReadTypeRange
<1>2. block' = SetupDefaults(data, h)
  BY DEF Launch
<1>3. block'[2] = IF ~console.dsi THEN 0
                  ELSE IF data[2] = -1 THEN IF h.dsi THEN 1 ELSE 0 ELSE data[2]
  BY <1>1, <1>2 DEF SetupDefaults, L, DEFAULT_VALUE_GENERIC
<1>4. block'[6] = IF console.is3ds THEN 0 ELSE data[6]
  BY <1>1, <1>2 DEF SetupDefaults, L
<1>5. /\ block'[7] = IF ~console.debugger THEN 0
                     ELSE IF data[7] = -1 THEN 2 ELSE data[7]
      /\ block'[8] = IF ~console.debugger THEN 1 ELSE data[8]
  BY <1>1, <1>2 DEF SetupDefaults, L, DEFAULT_VALUE_GENERIC
<1>6. block'[2] \in 0..2
  BY <1>1, <1>3 DEF L
<1>7. console.debugger => block'[7] \in 0..2
  BY <1>1, <1>5 DEF L
<1>8. QED
  BY <1>3, <1>4, <1>5, <1>6, <1>7 DEF BlockFits, L, DEFAULT_VALUE_GENERIC

(* Steps within the menu launch nothing.                                   *)
LEMMA MenuFrame ==
  ASSUME MenuIInv, pc \in {"off", "menu", "writing"},
         pc' \in {"load", "menu", "writing"}, how' = how
  PROVE  /\ how' = "auto" => pc' = "launched"
         /\ LoadedAsSaved' /\ BlockFits' /\ NoSurpriseLaunch'
BY DEF MenuIInv, LoadedAsSaved, BlockFits, NoSurpriseLaunch

(* A value that is fixed is one the option has.                            *)
LEMMA FixInRange ==
  ASSUME NEW v \in Int
  PROVE  /\ Fix(L.twl, v) \in TwlRange
         /\ Fix(L.language, v) \in LanguageRange
         /\ Fix(L.cartridge_read_type, v) \in ReadTypeRange
         /\ \A f \in {L.runCardEngine, L.sleepMode, L.redirectPowerButton,
                       L.autoboot} : Fix(f, v) \in Switch
<1>1. FixDefault(v, 3) \in -1..2
  BY DEF FixDefault, DEFAULT_VALUE_GENERIC
<1>2. FixDefault(v, 7) \in -1..6
  BY DEF FixDefault, DEFAULT_VALUE_GENERIC
<1>3. FixDefault(v, 2) \in -1..1
  BY DEF FixDefault, DEFAULT_VALUE_GENERIC
<1>4. FixBool(v) \in 0..1
  BY DEF FixBool
<1>5. QED
  BY <1>1, <1>2, <1>3, <1>4
     DEF Fix, L, TwlRange, LanguageRange, ReadTypeRange, Switch

LEMMA DeltaValues ==
  ASSUME NEW keys
  PROVE  /\ Delta(keys) \in -1..2
         /\ UndoA(keys) \in 0..1
         /\ ~Sideways(keys) => Delta(keys) = UndoA(keys)
<1>1. ~Sideways(keys) => "LEFT" \notin keys /\ "RIGHT" \notin keys
  BY DEF Sideways
<1>2. QED
  BY <1>1 DEF Delta, UndoA

LEMMA EditInv ==
  ASSUME MenuIInv, NEW keys \in Chords, EditField(keys)
  PROVE  MenuIInv'
<1>1. PICK f \in Offered : data' = [data EXCEPT ![f] = Fix(f, @ + Delta(keys))]
  BY DEF EditField
<1>2. OptionsOK(data) /\ data \in [1..9 -> Int]
  BY DEF MenuIInv, MenuTypeOK, OptionsOK, Data, Words
<1>3. f \in {2, 3, 4, 5, 6, 7, 9}
  BY DEF Offered, L
<1>4. data[f] + Delta(keys) \in Int
  BY <1>2, <1>3, DeltaValues
<1>5. OptionsOK(data')
  <2> DEFINE v == Fix(f, data[f] + Delta(keys))
  <2>1. data' = [data EXCEPT ![f] = v]
    BY <1>1
  <2>2. /\ f = 2 => v \in -1..2
        /\ f = 4 => v \in -1..6
        /\ f = 7 => v \in -1..1
        /\ f \in {3, 5, 6, 9} => v \in 0..1
    BY <1>4, FixInRange DEF L, TwlRange, LanguageRange, ReadTypeRange, Switch
  <2> HIDE DEF v
  <2>3. v \in Int
    BY <1>3, <2>2
  <2>4. data' \in [1..9 -> Int]
    BY <1>2, <1>3, <2>1, <2>3
  <2>5. \A i \in 1..9 : data'[i] = IF i = f THEN v ELSE data[i]
    BY <1>2, <2>1
  <2>6. QED
    BY <1>2, <1>3, <2>2, <2>4, <2>5 DEF OptionsOK, Data, Words, L, TwlRange,
       LanguageRange, ReadTypeRange, Switch
<1>6. pc = "menu" /\ pc' = "menu" /\ how' = how
  BY DEF EditField, Pressed
<1>7. QED
  BY <1>5, <1>6, MenuFrame DEF MenuIInv, MenuTypeOK, EditField

(* The medium a press selects, and opening it for writing.                 *)
LEMMA SaveInv ==
  ASSUME MenuIInv, NEW keys \in Chords, SaveEntry(keys)
  PROVE  MenuIInv'
<1>1. saveTo \in -1..1 /\ saveTo' = SaveChoice(saveTo, keys)
  BY DEF MenuIInv, MenuTypeOK, SaveEntry
<1>2. saveTo' \in -1..1
  <2>1. CASE ~Sideways(keys)
    BY <1>1, <2>1, DeltaValues DEF SaveChoice
  <2>2. CASE Sideways(keys)
    <3>1. FixBool(saveTo + Delta(keys)) \in 0..1
      BY <1>1, DeltaValues DEF FixBool
    <3>2. QED
      BY <1>1, <2>2, <3>1, DeltaValues DEF SaveChoice
  <2>3. QED
    BY <2>1, <2>2
<1>3. pc = "menu"
  BY DEF SaveEntry, Pressed
<1>4. \/ \E m \in Media :
           /\ pc' = "writing" /\ target' = m
           /\ files' = [files EXCEPT ![m] = << >>]
           /\ saved' = [saved EXCEPT ![m] = << >>]
      \/ UNCHANGED <<pc, target, files, saved>>
  BY DEF SaveEntry, OpenForWrite, Media
<1>5. /\ pc' \in {"menu", "writing"}
      /\ pc' = "writing" => target' \in Media
      /\ target' \in Media \union {"none"}
  BY <1>3, <1>4 DEF MenuIInv, MenuTypeOK
<1>6. /\ DOMAIN files' = Media /\ saved' = files'
      /\ \A m \in Media : files'[m] = << >> \/ WellFormed(files'[m])
  BY <1>4 DEF MenuIInv, MenuTypeOK
<1>7. how' = how /\ data' = data
  BY DEF SaveEntry
<1>8. MenuTypeOK'
  BY <1>2, <1>5, <1>6, <1>7 DEF MenuIInv, MenuTypeOK, SaveEntry
<1>9. QED
  BY <1>3, <1>5, <1>6, <1>7, <1>8, MenuFrame DEF MenuIInv

(* The file a completed write leaves is the options in memory.             *)
LEMMA WriteInv ==
  ASSUME MenuIInv, FinishWrite
  PROVE  MenuIInv'
<1>1. /\ OptionsOK(data) /\ target \in Media /\ pc = "writing"
      /\ pc' = "menu" /\ how' = how
  BY DEF MenuIInv, MenuTypeOK, FinishWrite
<1>2. data' = data
  <2>1. data \in [1..9 -> Int] /\ data[1] = 259
    BY <1>1 DEF OptionsOK, Data, Words, L, SAVED_VERSION
  <2>2. data' = [data EXCEPT ![1] = 259]
    BY DEF FinishWrite, L, SAVED_VERSION
  <2>3. QED
    BY <2>1, <2>2
<1>3. WellFormed(data)
  BY <1>1, OptionsAreAFile
<1>4. \/ /\ files' = [files EXCEPT ![target] = data]
         /\ saved' = [saved EXCEPT ![target] = data]
      \/ UNCHANGED <<files, saved>>
  BY <1>2 DEF FinishWrite
<1>5. /\ DOMAIN files' = Media /\ saved' = files'
      /\ \A m \in Media : files'[m] = << >> \/ WellFormed(files'[m])
  BY <1>1, <1>3, <1>4 DEF MenuIInv, MenuTypeOK
<1>6. MenuTypeOK'
  BY <1>1, <1>2, <1>5 DEF MenuIInv, MenuTypeOK, FinishWrite
<1>7. QED
  BY <1>1, <1>5, <1>6, MenuFrame DEF MenuIInv

LEMMA ResetInv ==
  ASSUME MenuIInv, NEW keys \in Chords, ResetEntry(keys)
  PROVE  MenuIInv'
<1> DEFINE moved == resetTo + Delta(keys)
<1> DEFINE fixed == IF ~Sideways(keys) THEN moved
                    ELSE IF ~console.dsi THEN DEFAULT_VALUE_GENERIC
                    ELSE FixDefault(moved, 2)
<1> DEFINE choice == fixed - UndoA(keys)
<1>1. /\ OptionsOK(data) /\ resetTo \in -2..1 /\ pc = "menu" /\ pc' = "menu"
      /\ how' = how
  BY DEF MenuIInv, MenuTypeOK, ResetEntry, Pressed
<1>2. choice \in -2..1
  <2>1. CASE ~Sideways(keys)
    BY <1>1, <2>1, DeltaValues
  <2>2. CASE Sideways(keys)
    <3>1. FixDefault(moved, 2) \in -1..1
      BY <1>1, DeltaValues DEF FixDefault, DEFAULT_VALUE_GENERIC
    <3>2. QED
      BY <1>1, <2>2, <3>1, DeltaValues DEF DEFAULT_VALUE_GENERIC
  <2>3. QED
    BY <2>1, <2>2
<1>3. /\ resetTo' = choice
      /\ \/ data' = data
         \/ \E b \in BOOLEAN : data' = ResetToDsx(data, b)
         \/ data' = Defaults
  BY DEF ResetEntry
<1> HIDE DEF choice
<1>4. ASSUME NEW b \in BOOLEAN PROVE OptionsOK(ResetToDsx(data, b))
  <2> DEFINE r == ResetToDsx(data, b)
  <2>1. data \in [1..9 -> Int]
    BY <1>1 DEF OptionsOK, Data, Words
  <2>2. /\ r \in [1..9 -> Int] /\ r[1] = data[1] /\ r[2] \in {0, 1}
        /\ r[3] = 0 /\ r[4] = data[4] /\ r[5] = 1 /\ r[6] = 0 /\ r[7] = -1
        /\ r[8] = 0 /\ r[9] = data[9]
    BY <2>1 DEF ResetToDsx, L, DEFAULT_VALUE_GENERIC
  <2> HIDE DEF r
  <2>3. OptionsOK(r)
    BY <1>1, <2>2 DEF OptionsOK, Data, Words, L, TwlRange, LanguageRange,
       ReadTypeRange, Switch
  <2>4. QED
    BY <2>3 DEF r
<1>5. OptionsOK(data')
  BY <1>1, <1>3, <1>4, DefaultsOK
<1>6. MenuTypeOK'
  BY <1>1, <1>2, <1>3, <1>5 DEF MenuIInv, MenuTypeOK, ResetEntry
<1>7. QED
  BY <1>1, <1>6, MenuFrame DEF MenuIInv, ResetEntry

(* The launch that needs no key.                                           *)
LEMMA AutobootInv ==
  ASSUME MenuIInv, TryAutoboot
  PROVE  MenuIInv'
<1>1. /\ OptionsOK(data) /\ data' = data /\ console' = console /\ sd' = sd
      /\ keyB' = keyB /\ saved' = saved /\ header' \in CardHeaders /\ pc = "card"
  BY DEF MenuIInv, MenuTypeOK, TryAutoboot
<1>2. ASSUME Launch(header', "auto"), ~keyB, data[L.autoboot] # 0, header'.crc,
             ~header'.self
      PROVE  MenuIInv'
  <2>1. pc' = "launched" /\ how' = "auto"
    BY <1>2 DEF Launch
  <2>2. BlockFits'
    BY <1>1, <1>2, LaunchFits
  <2>3. BestCopy # << >> => KeepsOptions(BestCopy, data)
    BY <1>1 DEF MenuIInv, LoadedAsSaved
  <2>4. BestCopy' = BestCopy
    BY <1>1 DEF BestCopy
  <2>5. NoSurpriseLaunch'
    BY <1>1, <1>2, <2>3, <2>4 DEF NoSurpriseLaunch, KeepsOptions
  <2>6. MenuTypeOK'
    BY <1>1, <2>1 DEF MenuIInv, MenuTypeOK, TryAutoboot
  <2>7. QED
    BY <2>1, <2>2, <2>5, <2>6 DEF MenuIInv, LoadedAsSaved, TryAutoboot
<1>3. ASSUME pc' = "menu", UNCHANGED <<block, how>>
      PROVE  MenuIInv'
  <2>1. how # "auto"
    BY <1>1 DEF MenuIInv
  <2>2. MenuTypeOK'
    BY <1>1, <1>3 DEF MenuIInv, MenuTypeOK, TryAutoboot
  <2>3. QED
    BY <1>3, <2>1, <2>2 DEF MenuIInv, LoadedAsSaved, BlockFits, NoSurpriseLaunch,
       TryAutoboot
<1>4. QED
  BY <1>2, <1>3 DEF TryAutoboot

LEMMA StartInv ==
  ASSUME MenuIInv, PressStart
  PROVE  MenuIInv'
<1>1. /\ OptionsOK(data) /\ data' = data /\ console' = console
      /\ header' \in CardHeaders /\ pc = "menu"
  BY DEF MenuIInv, MenuTypeOK, PressStart
<1>2. ASSUME Launch(header', "start"), header'.crc
      PROVE  MenuIInv'
  <2>1. pc' = "launched" /\ how' = "start"
    BY <1>2 DEF Launch
  <2>2. BlockFits'
    BY <1>1, <1>2, LaunchFits
  <2>3. MenuTypeOK'
    BY <1>1, <2>1 DEF MenuIInv, MenuTypeOK, PressStart
  <2>4. QED
    BY <2>1, <2>2, <2>3 DEF MenuIInv, LoadedAsSaved, NoSurpriseLaunch, PressStart
<1>3. ASSUME UNCHANGED <<pc, block, how>>
      PROVE  MenuIInv'
  <2>1. MenuTypeOK'
    BY <1>1, <1>3 DEF MenuIInv, MenuTypeOK, PressStart
  <2>2. QED
    BY <1>1, <1>3, <2>1, MenuFrame DEF MenuIInv, PressStart
<1>4. QED
  BY <1>2, <1>3 DEF PressStart

LEMMA StepIInv == MenuIInv /\ [MenuNext]_menuVars => MenuIInv'
<1> SUFFICES ASSUME MenuIInv, [MenuNext]_menuVars PROVE MenuIInv'
  OBVIOUS
<1>1. CASE PowerOn
  <2>1. sd' \in BOOLEAN /\ keyB' \in BOOLEAN /\ pc = "off" /\ pc' = "load"
    BY <1>1 DEF PowerOn
  <2>2. MenuTypeOK'
    BY <1>1, <2>1 DEF MenuIInv, MenuTypeOK, PowerOn
  <2>3. QED
    BY <1>1, <2>1, <2>2, MenuFrame DEF MenuIInv, PowerOn
<1>2. CASE LoadOptions
  <2>1. OptionsOK(data') /\ LoadedAsSaved'
    BY <1>2, LoadedOK
  <2>2. pc = "load" /\ pc' = "card" /\ saveTo' \in -1..1 /\ how' = how
    BY <1>2 DEF LoadOptions
  <2>3. MenuTypeOK'
    BY <1>2, <2>1, <2>2 DEF MenuIInv, MenuTypeOK, LoadOptions
  <2>4. BlockFits' /\ NoSurpriseLaunch' /\ how' # "auto"
    BY <2>2 DEF MenuIInv, BlockFits, NoSurpriseLaunch
  <2>5. QED
    BY <1>2, <2>1, <2>2, <2>3, <2>4 DEF MenuIInv, LoadOptions
<1>3. CASE TryAutoboot
  BY <1>3, AutobootInv
<1>4. ASSUME NEW keys \in Chords,
             EditField(keys) \/ SaveEntry(keys) \/ ResetEntry(keys)
      PROVE  MenuIInv'
  BY <1>4, EditInv, SaveInv, ResetInv
<1>5. CASE FinishWrite
  BY <1>5, WriteInv
<1>6. CASE UpdateInformation
  <2>1. MenuTypeOK' /\ pc = "menu" /\ pc' = "menu" /\ how' = how
    BY <1>6 DEF MenuIInv, MenuTypeOK, UpdateInformation
  <2>2. QED
    BY <1>6, <2>1, MenuFrame DEF MenuIInv, UpdateInformation
<1>7. CASE PressStart
  BY <1>7, StartInv
<1>8. CASE PowerOff
  <2>1. OptionsOK(data') /\ header' \in CardHeaders
    BY <1>8, DefaultsOK DEF PowerOff, CardHeaders
  <2>2. saveTo' \in -1..1 /\ resetTo' \in -2..1
    BY <1>8 DEF PowerOff, DEFAULT_VALUE_GENERIC
  <2>3. pc' = "off" /\ how' = "none" /\ target' = "none"
    BY <1>8 DEF PowerOff
  <2>4. MenuTypeOK'
    BY <1>8, <2>1, <2>2, <2>3 DEF MenuIInv, MenuTypeOK, PowerOff
  <2>5. LoadedAsSaved' /\ BlockFits' /\ NoSurpriseLaunch'
    BY <2>3 DEF LoadedAsSaved, BlockFits, NoSurpriseLaunch
  <2>6. QED
    BY <1>8, <2>3, <2>4, <2>5 DEF MenuIInv, PowerOff
<1>9. CASE UNCHANGED menuVars
  BY <1>9 DEF MenuIInv, MenuTypeOK, LoadedAsSaved, BlockFits, NoSurpriseLaunch,
     BestCopy, menuVars
<1>10. QED
  BY <1>1, <1>2, <1>3, <1>4, <1>5, <1>6, <1>7, <1>8, <1>9 DEF MenuNext

(* The invariant holds in every reachable state of MenuSpec.                   *)
THEOREM MenuInvariance == MenuSpec => []MenuIInv
BY MenuInitIInv, StepIInv, PTL DEF MenuSpec

(* Every option stays among the values the menu offers.                    *)
THEOREM MenuTypeCorrect == MenuSpec => []MenuTypeOK
<1>1. MenuIInv => MenuTypeOK
  BY DEF MenuIInv
<1>2. QED
  BY <1>1, MenuInvariance, PTL

(* Start-up brings back what was last saved completely, field by field,    *)
(* from any version's file, across power losses during a save.             *)
THEOREM LoadsWhatWasSaved == MenuSpec => []LoadedAsSaved
<1>1. MenuIInv => LoadedAsSaved
  BY DEF MenuIInv
<1>2. QED
  BY <1>1, MenuInvariance, PTL

(* The bootloader gets resolved options this console can carry out.        *)
THEOREM BlockAlwaysFits == MenuSpec => []BlockFits
<1>1. MenuIInv => BlockFits
  BY DEF MenuIInv
<1>2. QED
  BY <1>1, MenuInvariance, PTL

(* No game starts by itself against what the user saved.                   *)
THEOREM NeverSurprised == MenuSpec => []NoSurpriseLaunch
<1>1. MenuIInv => NoSurpriseLaunch
  BY DEF MenuIInv
<1>2. QED
  BY <1>1, MenuInvariance, PTL

-----------------------------------------------------------------------------
(* What the game is given (GameSetup).                                     *)

After == {"copyInfo", "hook", "setScfg", "setMemoryAddress", "game"}

Other == IF newest = 1 THEN 2 ELSE 1

(* The slot last written is whole, and one ahead of the other.             *)
FirmwareInv ==
  /\ newest = 0 => ~slots[1].good /\ ~slots[2].good
  /\ newest # 0 =>
       /\ slots[newest].good
       /\ slots[Other].good =>
            slots[newest].count = (slots[Other].count + 1) % CountMod

Whole == IF setup.dsi THEN MB16 ELSE IF setup.doubleRAM THEN MB8 ELSE MB4

(* How much memory there is, and when less than at first.                  *)
VisibleInv ==
  /\ visible = IF /\ stage \in {"setMemoryAddress", "game"}
                  /\ setup.dsi /\ ~dsiModeConfirmed /\ ~extended
               THEN MB4 ELSE Whole
  /\ dsiModeConfirmed /\ stage \in After \ {"copyInfo"} => extended

Language == IF setup.language = Default THEN setup.twlCfg ELSE setup.language

LanguageInv ==
  /\ stage \notin After => language = setup.language
  /\ stage \in After /\ newest # 0 => language = Language
  /\ stage \notin {"setScfg", "setMemoryAddress", "game"} => engine = NoEngine
  /\ engine # NoEngine => engine.language = language

(* What the game is to find in a page.                                     *)
Settled(page) ==
  newest # 0 =>
    mem[page]["settings"] = Settings(slots[newest].version, Wanted)

Marked(page) ==
  LET given == mem[page]["header"]
  IN /\ given \in Headers /\ given.crc = given.ique
     /\ given.ique => setup.ique /\ (newest = 0 \/ Wanted = Chinese)

(* Before the memory's size changes it is where the header was put and,    *)
(* for a game that will see less, in the last of four megabytes too.       *)
PlaceInv ==
  /\ stage = "readUserSettings" =>
       mem[At(base)]["header"] = Header(setup.ique, setup.ique)
  /\ stage \in After => Settled(At(base)) /\ Marked(At(base))
  /\ stage \in {"hook", "setScfg"} /\ setup.dsi /\ ~extended =>
       Settled(Last4) /\ Marked(Last4)

DsiInv ==
  dsiModeConfirmed /\ stage \in After \cup {"readUserSettings"} =>
    mem[At(base - 1)]["body"] = DsiHeader

IdsInv ==
  stage = "game" =>
    /\ mem[At(base)]["ids"] = Ids(mem[At(base)]["header"].crc)
    /\ setup.dsiCapable => mem[At(NewPage)]["copy"] = mem[At(base)]["header"]

IInv == /\ setup \in Setups /\ TypeOK /\ FirmwareInv /\ VisibleInv
        /\ LanguageInv /\ PlaceInv /\ DsiInv /\ IdsInv

-----------------------------------------------------------------------------
(* Setups, pages and counters.                                             *)

(* What is found of the game's SDK is right.                               *)
LEMMA SdkFound ==
  ASSUME setup \in Setups
  PROVE  /\ setup \in SetupType /\ Possible(setup)
         /\ isSdk5 = setup.sdk5
         /\ base = IF setup.sdk5 THEN NewPage ELSE OldPage
         /\ GamePage = At(base)
<1>1. setup \in SetupType /\ Possible(setup)
  BY GameSetupAssumption
<1>2. /\ setup.sdk5 \in BOOLEAN /\ setup.params \in BOOLEAN
      /\ setup.dsiCapable \in BOOLEAN
  BY <1>1 DEF SetupType
<1>3. isSdk5 = setup.sdk5
  BY <1>1, <1>2 DEF Possible, isSdk5
<1> QED BY <1>1, <1>3 DEF base, GamePage

(* Where the pages are that are written.                                   *)
LEMMA PagesFound ==
  ASSUME visible \in {MB4, MB8, MB16}
  PROVE  /\ At(OldPage) = IF visible = MB4 THEN 1023 ELSE 2047
         /\ At(NewPage) = IF visible = MB4 THEN 1023
                          ELSE IF visible = MB8 THEN 2047 ELSE 4095
         /\ At(OldPage - 1) = IF visible = MB4 THEN 1022 ELSE 2046
         /\ At(NewPage - 1) = IF visible = MB4 THEN 1022
                              ELSE IF visible = MB8 THEN 2046 ELSE 4094
         /\ {1023, 2047, 4095, 1022, 2046, 4094} \subseteq Pages
<1>1. /\ 2047 % 1024 = 1023 /\ 2047 % 2048 = 2047 /\ 2047 % 4096 = 2047
      /\ 4095 % 1024 = 1023 /\ 4095 % 2048 = 2047 /\ 4095 % 4096 = 4095
      /\ 2046 % 1024 = 1022 /\ 2046 % 2048 = 2046 /\ 2046 % 4096 = 2046
      /\ 4094 % 1024 = 1022 /\ 4094 % 2048 = 2046 /\ 4094 % 4096 = 4094
  OBVIOUS
<1>2. \A p \in {Temp, OldPage, OldPage - 1, NewPage, NewPage - 1},
         s \in {MB4, MB8, MB16} : p % s \in Pages
  BY DEF Pages
<1>3. /\ 2047 \in {Temp, OldPage, OldPage - 1, NewPage, NewPage - 1}
      /\ 4095 \in {Temp, OldPage, OldPage - 1, NewPage, NewPage - 1}
      /\ 2046 \in {Temp, OldPage, OldPage - 1, NewPage, NewPage - 1}
      /\ 4094 \in {Temp, OldPage, OldPage - 1, NewPage, NewPage - 1}
      /\ 1024 \in {MB4, MB8, MB16} /\ 4096 \in {MB4, MB8, MB16}
  BY DEF Temp, OldPage, NewPage, MB4, MB8, MB16
<1>4. /\ 2047 % 1024 \in Pages /\ 2047 % 4096 \in Pages
      /\ 4095 % 4096 \in Pages /\ 2046 % 1024 \in Pages
      /\ 2046 % 4096 \in Pages /\ 4094 % 4096 \in Pages
  BY <1>2, <1>3
<1>5. {1023, 2047, 4095, 1022, 2046, 4094} \subseteq Pages
  BY <1>1, <1>4
<1>6. OldPage = 2047 /\ NewPage = 4095 /\ OldPage - 1 = 2046 /\ NewPage - 1 = 4094
  BY DEF OldPage, NewPage
<1> QED BY <1>1, <1>5, <1>6 DEF At, MB4, MB8, MB16

(* A counter is one ahead of another only if that is not one ahead of it.  *)
LEMMA OneAhead ==
  ASSUME NEW a \in 0..CountMod - 1, NEW b \in 0..CountMod - 1,
         a = (b + 1) % CountMod
  PROVE  b # (a + 1) % CountMod
<1>1. CountMod \in Nat /\ CountMod > 2
  BY GameSetupAssumption
<1>2. ASSUME NEW m \in Nat, m > 2, NEW n \in 0..m - 1
      PROVE  (n + 1) % m = IF n = m - 1 THEN 0 ELSE n + 1
  <2>1. CASE n = m - 1
    <3>1. m % m = 0
      BY <1>2
    <3> QED BY <2>1, <3>1
  <2>2. CASE n # m - 1
    <3>1. n + 1 \in 0..m - 1
      BY <2>2
    <3>2. ASSUME NEW k \in 0..m - 1 PROVE k % m = k
      BY <3>2, <1>2
    <3> QED BY <2>2, <3>1, <3>2
  <2> QED BY <2>1, <2>2
<1>3. (b + 1) % CountMod = IF b = CountMod - 1 THEN 0 ELSE b + 1
  BY <1>1, <1>2
<1>4. (a + 1) % CountMod = IF a = CountMod - 1 THEN 0 ELSE a + 1
  BY <1>1, <1>2
<1> QED BY <1>1, <1>3, <1>4

(* The launcher takes the slot that was last written completely.           *)
LEMMA NewestTaken ==
  ASSUME TypeOK, FirmwareInv
  PROVE  CurrentSlot = newest
<1>1. /\ newest \in 0..2 /\ slots[1].good \in BOOLEAN /\ slots[2].good \in BOOLEAN
      /\ slots[1].count \in 0..CountMod - 1 /\ slots[2].count \in 0..CountMod - 1
  BY DEF TypeOK, Slot
<1>2. CASE newest = 0
  BY <1>1, <1>2 DEF FirmwareInv, CurrentSlot
<1>3. CASE newest = 1
  <2>1. slots[1].good /\ (slots[2].good =>
            slots[1].count = (slots[2].count + 1) % CountMod)
    BY <1>3 DEF FirmwareInv, Other
  <2>2. slots[2].good => slots[2].count # (slots[1].count + 1) % CountMod
    BY <1>1, <2>1, OneAhead
  <2> QED BY <1>1, <1>3, <2>1, <2>2 DEF CurrentSlot
<1>4. CASE newest = 2
  <2>1. slots[2].good /\ (slots[1].good =>
            slots[2].count = (slots[1].count + 1) % CountMod)
    BY <1>4 DEF FirmwareInv, Other
  <2> QED BY <1>1, <1>4, <2>1 DEF CurrentSlot
<1> QED BY <1>1, <1>2, <1>3, <1>4

-----------------------------------------------------------------------------
(* What does not change with the console, and with the firmware.           *)

LEMMA SetupFixed ==
  ASSUME UNCHANGED setup
  PROVE  /\ base' = base /\ dsiModeConfirmed' = dsiModeConfirmed
         /\ Whole' = Whole /\ Language' = Language
BY DEF base, isSdk5, dsiModeConfirmed, Whole, Language

LEMMA PlacesFixed ==
  ASSUME UNCHANGED <<setup, visible>>
  PROVE  /\ At(base)' = At(base) /\ At(base - 1)' = At(base - 1)
         /\ At(NewPage)' = At(NewPage)
BY SetupFixed DEF At, NewPage

LEMMA FirmwareFixed ==
  ASSUME UNCHANGED <<setup, slots, newest>>, FirmwareInv
  PROVE  FirmwareInv' /\ Wanted' = Wanted
BY DEF FirmwareInv, Other, Wanted

(* A page that is a copy of a good one is good.                            *)
LEMMA Copied ==
  ASSUME UNCHANGED <<setup, slots, newest>>, NEW p, NEW q,
         mem'[q]["settings"] = mem[p]["settings"],
         mem'[q]["header"] = mem[p]["header"],
         Settled(p), Marked(p)
  PROVE  Settled(q)' /\ Marked(q)'
BY DEF Settled, Marked, Wanted

-----------------------------------------------------------------------------
(* The firmware and the launcher's part.                                   *)

LEMMA InitHolds == Init => IInv
<1> SUFFICES ASSUME Init PROVE IInv
  OBVIOUS
<1>1. setup \in Setups /\ setup \in SetupType
  BY GameSetupAssumption DEF Init
<1>2. TypeOK
  <2>1. setup.language \in Languages \cup {Default} /\ setup.dsi \in BOOLEAN
        /\ setup.doubleRAM \in BOOLEAN
    BY <1>1 DEF SetupType
  <2>2. slots \in [{1, 2} -> Slot] /\ newest \in 0..2
    BY GameSetupAssumption DEF Init, Slot
  <2>3. mem \in [Pages -> [Fields -> Values]]
    BY DEF Init, Values
  <2>4. version \in 0..MaxWrites
    BY GameSetupAssumption DEF Init
  <2> QED BY <1>1, <2>1, <2>2, <2>3, <2>4 DEF Init, TypeOK, Stages, Engines
<1>3. FirmwareInv
  <2>1. PICK count \in 0..CountMod - 1, lang \in Languages, good \in BOOLEAN :
          /\ slots = [i \in {1, 2} |->
                       [good |-> good /\ i = 1, count |-> count, version |-> 0,
                        language |-> lang]]
          /\ newest = IF good THEN 1 ELSE 0
    BY DEF Init
  <2>2. CASE good
    <3>1. (good /\ 1 = 1) = TRUE /\ (good /\ 2 = 1) = FALSE
      BY <2>2
    <3>2. slots[1].good = (good /\ 1 = 1) /\ slots[2].good = (good /\ 2 = 1)
      BY <2>1, Zenon
    <3>3. slots[1].good /\ ~slots[2].good
      BY <3>1, <3>2, Zenon
    <3> QED BY <2>1, <2>2, <3>3 DEF FirmwareInv, Other
  <2>3. CASE ~good
    <3>1. ~slots[1].good /\ ~slots[2].good
      BY <2>1, <2>3
    <3> QED BY <2>1, <2>3, <3>1 DEF FirmwareInv
  <2> QED BY <2>2, <2>3
<1>4. VisibleInv
  BY DEF Init, VisibleInv, Whole, After
<1>5. LanguageInv /\ PlaceInv /\ DsiInv /\ IdsInv
  BY DEF Init, LanguageInv, PlaceInv, DsiInv, IdsInv, After
<1> QED BY <1>1, <1>2, <1>3, <1>4, <1>5 DEF IInv

LEMMA WriteHolds == IInv /\ WriteSettings => IInv'
<1> SUFFICES ASSUME IInv, WriteSettings PROVE IInv'
  OBVIOUS
<1> USE DEF IInv
<1>1. PICK complete \in BOOLEAN, lang \in Languages :
        /\ slots' = [slots EXCEPT ![Older] =
                       [good |-> complete, count |-> NextCount,
                        version |-> version', language |-> lang]]
        /\ newest' = IF complete THEN Older ELSE newest
  BY DEF WriteSettings
<1>2. /\ slots \in [{1, 2} -> Slot] /\ newest \in 0..2
      /\ slots[1] \in Slot /\ slots[2] \in Slot
  BY DEF TypeOK
<1>3. Older \in {1, 2} /\ NextCount \in 0..CountMod - 1
  <2>1. ASSUME NEW n \in Nat PROVE (n + 1) % CountMod \in 0..CountMod - 1
    <3>1. CountMod \in Nat /\ CountMod > 0
      BY GameSetupAssumption
    <3> QED BY <3>1
  <2>2. newest # 0 => slots[newest].count \in Nat
    BY <1>2, GameSetupAssumption DEF Slot
  <2> QED BY <2>1, <2>2, GameSetupAssumption DEF Older, NextCount
<1>4. version' \in 0..MaxWrites
  BY GameSetupAssumption DEF WriteSettings, TypeOK
<1> DEFINE new == [good |-> complete, count |-> NextCount,
                   version |-> version', language |-> lang]
<1>5. new \in Slot
  BY <1>3, <1>4 DEF Slot
<1>6. slots' \in [{1, 2} -> Slot] /\ newest' \in 0..2
  BY <1>1, <1>2, <1>3, <1>5
<1>7. TypeOK'
  BY <1>4, <1>6 DEF WriteSettings, TypeOK
<1>8. FirmwareInv'
  <2>1. slots'[Older] = new /\ \A i \in {1, 2} : i # Older => slots'[i] = slots[i]
    BY <1>1, <1>2, <1>3
  <2>2. new.good = complete /\ new.count = NextCount
    OBVIOUS
  <2>3. newest = 1 \/ newest = 2 \/ newest = 0
    BY <1>2
  <2> HIDE DEF new
  <2>4. CASE newest = 0
    BY <1>1, <2>1, <2>2, <2>4 DEF FirmwareInv, Other, Older
  <2>5. CASE newest = 1
    BY <1>1, <2>1, <2>2, <2>5 DEF FirmwareInv, Other, Older, NextCount
  <2>6. CASE newest = 2
    BY <1>1, <2>1, <2>2, <2>6 DEF FirmwareInv, Other, Older, NextCount
  <2> QED BY <2>3, <2>4, <2>5, <2>6
<1>9. stage' = stage /\ stage = "off" /\ setup' = setup /\ UNCHANGED <<visible, language, engine>>
  BY DEF WriteSettings
<1>10. VisibleInv'
  BY <1>9, SetupFixed DEF VisibleInv, After
<1>11. LanguageInv' /\ PlaceInv' /\ DsiInv' /\ IdsInv'
  BY <1>9 DEF LanguageInv, PlaceInv, DsiInv, IdsInv, After
<1> QED BY <1>7, <1>8, <1>9, <1>10, <1>11

LEMMA ResetHolds == IInv /\ ResetMemory => IInv'
<1> SUFFICES ASSUME IInv, ResetMemory PROVE IInv'
  OBVIOUS
<1> USE DEF IInv
<1>1. UNCHANGED <<setup, slots, newest, version, visible, language, extended,
                  engine>> /\ stage = "off" /\ stage' = "loadHeader"
  BY DEF ResetMemory
<1>2. TypeOK'
  <2>1. mem' \in [Pages -> [Fields -> Values]]
    BY DEF ResetMemory, TypeOK, Values
  <2> QED BY <1>1, <2>1 DEF TypeOK, Stages
<1>3. VisibleInv'
  BY <1>1, SetupFixed DEF VisibleInv, After
<1>4. LanguageInv' /\ PlaceInv' /\ DsiInv' /\ IdsInv'
  BY <1>1 DEF LanguageInv, PlaceInv, DsiInv, IdsInv, After
<1> QED BY <1>1, <1>2, <1>3, <1>4, FirmwareFixed

LEMMA HeaderHolds == IInv /\ loadHeader => IInv'
<1> SUFFICES ASSUME IInv, loadHeader PROVE IInv'
  OBVIOUS
<1> USE DEF IInv
<1>1. UNCHANGED <<setup, slots, newest, version, visible, language, extended,
                  engine>> /\ stage = "loadHeader"
      /\ stage' = "readUserSettings"
  BY DEF loadHeader
<1>2. setup.ique \in BOOLEAN /\ visible \in {MB4, MB8, MB16}
  BY DEF TypeOK, SetupType
<1>3. At(base) \in Pages /\ At(base - 1) \in Pages
  BY <1>2, SdkFound, PagesFound
<1>4. TypeOK'
  <2>1. Header(setup.ique, setup.ique) \in Values /\ DsiHeader \in Values
    BY <1>2 DEF Values, Headers
  <2>2. mem' \in [Pages -> [Fields -> Values]]
    BY <2>1 DEF loadHeader, TypeOK
  <2> QED BY <1>1, <2>2 DEF TypeOK, Stages
<1>5. VisibleInv'
  BY <1>1, SetupFixed DEF VisibleInv, After
<1>6. LanguageInv' /\ IdsInv'
  BY <1>1 DEF LanguageInv, IdsInv, After
<1>7. mem'[At(base)]["header"] = Header(setup.ique, setup.ique)
  BY <1>3 DEF loadHeader, Fields
<1>8. PlaceInv'
  BY <1>1, <1>7, PlacesFixed DEF PlaceInv, After
<1>9. dsiModeConfirmed => mem'[At(base - 1)]["body"] = DsiHeader
  BY <1>3 DEF loadHeader, Fields
<1>10. DsiInv'
  BY <1>1, <1>9, PlacesFixed, SetupFixed DEF DsiInv
<1> QED BY <1>1, <1>4, <1>5, <1>6, <1>8, <1>10, FirmwareFixed

LEMMA SettingsHold == IInv /\ readUserSettings => IInv'
<1> SUFFICES ASSUME IInv, readUserSettings PROVE IInv'
  OBVIOUS
<1> USE DEF IInv
<1>1. UNCHANGED <<setup, slots, newest, version, visible, extended, engine>>
      /\ stage = "readUserSettings" /\ stage' = "copyInfo"
  BY DEF readUserSettings
<1>2. /\ setup \in SetupType /\ visible \in {MB4, MB8, MB16}
      /\ language \in Languages \cup {Default}
      /\ slots \in [{1, 2} -> Slot] /\ newest \in 0..2
      /\ mem \in [Pages -> [Fields -> Values]]
  BY DEF TypeOK
<1>3. At(base) \in Pages
  BY <1>2, SdkFound, PagesFound
<1>4. CurrentSlot = newest
  BY NewestTaken
<1>5. language = setup.language /\ ChosenLanguage = Language
  BY <1>1 DEF LanguageInv, After, ChosenLanguage, Language
<1>6. Language \in Languages \cup {Default}
  BY <1>2 DEF Language, SetupType
<1>7. mem[At(base)]["header"] = Header(setup.ique, setup.ique)
  BY <1>1 DEF PlaceInv
<1> DEFINE slot == slots[newest]
           lang == IF ChosenLanguage \in Languages THEN ChosenLanguage
                   ELSE slot.language
           given == IF lang # Chinese /\ setup.ique THEN Header(FALSE, FALSE)
                     ELSE Header(setup.ique, setup.ique)
<1>8. CASE newest = 0
  <2>1. UNCHANGED <<mem, language>>
    BY <1>4, <1>8 DEF readUserSettings
  <2>2. TypeOK'
    BY <1>1, <2>1 DEF TypeOK, Stages
  <2>3. VisibleInv'
    BY <1>1, SetupFixed DEF VisibleInv, After
  <2>4. LanguageInv'
    BY <1>1, <1>8, <2>1 DEF LanguageInv, After
  <2>5. Settled(At(base)) /\ Marked(At(base))
    BY <1>2, <1>7, <1>8 DEF Settled, Marked, Header, Headers, SetupType
  <2>6. PlaceInv'
    <3>1. Settled(At(base))' /\ Marked(At(base))'
      BY <1>1, <2>1, <2>5, PlacesFixed, FirmwareFixed DEF Settled, Marked
    <3> QED BY <1>1, <3>1 DEF PlaceInv
  <2>7. DsiInv' /\ IdsInv'
    BY <1>1, <2>1, PlacesFixed, SetupFixed DEF DsiInv, IdsInv
  <2> QED BY <1>1, <2>2, <2>3, <2>4, <2>6, <2>7, FirmwareFixed
<1>9. CASE newest # 0
  <2>1. slot \in Slot
    BY <1>2, <1>9
  <2>2. lang \in Languages /\ lang = Wanted
    BY <1>2, <1>5, <1>6, <2>1, GameSetupAssumption
       DEF Slot, Wanted, Language, SetupType
  <2>3. given \in Headers /\ given.crc = given.ique
        /\ (given.ique => setup.ique /\ lang = Chinese)
        /\ setup.ique \in BOOLEAN
    <3>1. setup.ique \in BOOLEAN
      BY <1>2 DEF SetupType
    <3>2. \A i \in BOOLEAN : Header(i, i) \in Headers /\ Header(i, i).ique = i
                            /\ Header(i, i).crc = i
      BY DEF Header, Headers
    <3>3. CASE lang # Chinese /\ setup.ique
      BY <3>1, <3>2, <3>3
    <3>4. CASE ~(lang # Chinese /\ setup.ique)
      BY <3>1, <3>2, <3>4
    <3> QED BY <3>3, <3>4
  <2>4. /\ language' = Language
        /\ mem' = [mem EXCEPT ![At(base)] =
                     [@ EXCEPT !["settings"] = Settings(slot.version, lang),
                               !["header"] = given]]
    BY <1>4, <1>5, <1>7, <1>9 DEF readUserSettings, Header
  <2> HIDE DEF lang, given, slot
  <2>5. /\ mem'[At(base)]["settings"] = Settings(slot.version, lang)
        /\ mem'[At(base)]["header"] = given
        /\ \A p \in Pages : mem'[p]["body"] = mem[p]["body"]
    BY <1>2, <1>3, <2>4 DEF Fields
  <2>6. TypeOK'
    <3>1. Settings(slot.version, lang) \in Values /\ given \in Values
      BY <2>1, <2>2, <2>3 DEF Slot, Settings, Values
    <3>2. mem' \in [Pages -> [Fields -> Values]]
      BY <1>2, <2>4, <3>1
    <3> QED BY <1>1, <1>6, <2>4, <3>2 DEF TypeOK, Stages
  <2>7. VisibleInv'
    BY <1>1, SetupFixed DEF VisibleInv, After
  <2>8. LanguageInv'
    BY <1>1, <2>4, SetupFixed DEF LanguageInv, After
  <2>9. PlaceInv'
    <3>1. Settled(At(base))'
      BY <1>1, <2>2, <2>5, PlacesFixed, FirmwareFixed DEF Settled, slot
    <3>2. Marked(At(base))'
      BY <1>1, <2>2, <2>3, <2>5, PlacesFixed, FirmwareFixed DEF Marked
    <3> QED BY <1>1, <3>1, <3>2 DEF PlaceInv
  <2>10. DsiInv'
    <3>1. At(base - 1) \in Pages
      BY <1>2, SdkFound, PagesFound
    <3> QED BY <1>1, <2>5, <3>1, PlacesFixed, SetupFixed DEF DsiInv
  <2>11. IdsInv'
    BY <1>1 DEF IdsInv
  <2> QED BY <1>1, <2>6, <2>7, <2>8, <2>9, <2>10, <2>11, FirmwareFixed
<1> QED BY <1>8, <1>9

LEMMA CopyHolds == IInv /\ CopyInfo => IInv'
<1> SUFFICES ASSUME IInv, CopyInfo PROVE IInv'
  OBVIOUS
<1> USE DEF IInv
<1>1. UNCHANGED <<setup, slots, newest, version, visible, language, engine>>
      /\ stage = "copyInfo" /\ stage' = "hook"
  BY DEF CopyInfo
<1>2. /\ setup \in SetupType /\ visible \in {MB4, MB8, MB16}
      /\ mem \in [Pages -> [Fields -> Values]]
  BY DEF TypeOK
<1>3. At(base) \in Pages /\ At(OldPage) \in Pages /\ Last4 \in Pages
      /\ At(base - 1) \in Pages
  BY <1>2, SdkFound, PagesFound DEF Last4
<1> DEFINE keep == dsiModeConfirmed \/ (setup.dsi /\ setup.browser)
<1>4. /\ mem' = IF keep THEN mem
                ELSE [mem EXCEPT ![Last4] = mem[At(base)],
                                 ![At(OldPage)] = mem[At(base)]]
      /\ extended' \in BOOLEAN
      /\ keep => extended'
      /\ dsiModeConfirmed => keep
  BY <1>2 DEF CopyInfo, SetupType, dsiModeConfirmed
<1>5. Settled(At(base)) /\ Marked(At(base))
  BY <1>1 DEF PlaceInv, After
<1> HIDE DEF keep
<1>6. mem'[At(base)] = mem[At(base)] /\ (~keep => mem'[Last4] = mem[At(base)])
  BY <1>2, <1>3, <1>4
<1>7. TypeOK'
  <2>1. mem' \in [Pages -> [Fields -> Values]]
    BY <1>2, <1>3, <1>4
  <2> QED BY <1>1, <1>4, <2>1 DEF TypeOK, Stages
<1>8. VisibleInv'
  BY <1>1, <1>4, SetupFixed DEF VisibleInv, After
<1>9. LanguageInv'
  BY <1>1, SetupFixed DEF LanguageInv, After
<1>10. PlaceInv'
  <2>1. Settled(At(base))' /\ Marked(At(base))'
    BY <1>1, <1>5, <1>6, PlacesFixed, FirmwareFixed DEF Settled, Marked
  <2>2. ~keep => Settled(Last4)' /\ Marked(Last4)'
    BY <1>1, <1>5, <1>6, Copied
  <2> QED BY <1>1, <1>4, <2>1, <2>2 DEF PlaceInv
<1>11. DsiInv'
  BY <1>1, <1>4, PlacesFixed, SetupFixed DEF DsiInv, After
<1>12. IdsInv'
  BY <1>1 DEF IdsInv
<1> QED BY <1>1, <1>7, <1>8, <1>9, <1>10, <1>11, <1>12, FirmwareFixed

-----------------------------------------------------------------------------
(* The card engine, the memory's size and the game.                        *)

LEMMA HookHolds == IInv /\ HookCardEngine => IInv'
<1> SUFFICES ASSUME IInv, HookCardEngine PROVE IInv'
  OBVIOUS
<1> USE DEF IInv
<1>1. UNCHANGED <<setup, slots, newest, version, visible, mem, language,
                  extended>> /\ stage = "hook" /\ stage' = "setScfg"
      /\ (engine' = NoEngine
          \/ engine' = [is |-> "engine", language |-> language])
  BY DEF HookCardEngine
<1>2. TypeOK'
  BY <1>1 DEF TypeOK, Stages, Engines
<1>3. VisibleInv'
  BY <1>1, SetupFixed DEF VisibleInv, After
<1>4. LanguageInv'
  BY <1>1, SetupFixed DEF LanguageInv, After
<1>5. PlaceInv'
  BY <1>1, PlacesFixed, FirmwareFixed DEF PlaceInv, After, Settled, Marked
<1>6. DsiInv' /\ IdsInv'
  BY <1>1, PlacesFixed, SetupFixed DEF DsiInv, IdsInv, After
<1> QED BY <1>1, <1>2, <1>3, <1>4, <1>5, <1>6, FirmwareFixed

(* Where the game will look is where its values were put, or else they     *)
(* were copied there.                                                      *)
LEMMA ScfgHolds == IInv /\ SetScfg => IInv'
<1> SUFFICES ASSUME IInv, SetScfg PROVE IInv'
  OBVIOUS
<1> USE DEF IInv
<1> DEFINE narrow == setup.dsi /\ ~dsiModeConfirmed /\ ~extended
<1>1. UNCHANGED <<setup, slots, newest, version, mem, language, extended,
                  engine>> /\ stage = "setScfg" /\ stage' = "setMemoryAddress"
      /\ visible' = IF narrow THEN MB4 ELSE visible
  BY DEF SetScfg
<1>2. /\ setup \in SetupType /\ visible \in {MB4, MB8, MB16}
      /\ visible' \in {MB4, MB8, MB16} /\ setup' \in Setups
  BY <1>1 DEF TypeOK
<1>3. TypeOK'
  BY <1>1, <1>2 DEF TypeOK, Stages
<1>4. VisibleInv'
  <2>1. visible = Whole
    BY <1>1 DEF VisibleInv
  <2> QED BY <1>1, <2>1, SetupFixed DEF VisibleInv, After
<1>5. LanguageInv'
  BY <1>1, SetupFixed DEF LanguageInv, After
<1>6. CASE narrow
  <2>1. visible' = MB4
    BY <1>1, <1>6
  <2>2. At(OldPage)' = 1023 /\ At(NewPage)' = 1023
    BY <2>1, PagesFound DEF At, MB4, MB8, MB16, OldPage, NewPage
  <2>3. At(base)' = Last4
    BY <1>2, <2>2, SdkFound, SetupFixed, <1>1 DEF At, Last4
  <2>4. Settled(Last4) /\ Marked(Last4)
    BY <1>1, <1>6 DEF PlaceInv
  <2>5. PlaceInv'
    BY <1>1, <2>3, <2>4, FirmwareFixed DEF PlaceInv, Settled, Marked
  <2>6. DsiInv' /\ IdsInv'
    BY <1>1, <1>6, SetupFixed DEF DsiInv, IdsInv
  <2> QED BY <1>1, <1>3, <1>4, <1>5, <2>5, <2>6, FirmwareFixed
<1>7. CASE ~narrow
  <2>1. visible' = visible
    BY <1>1, <1>7
  <2>2. PlaceInv'
    BY <1>1, <2>1, PlacesFixed, FirmwareFixed
       DEF PlaceInv, After, Settled, Marked
  <2>3. DsiInv' /\ IdsInv'
    BY <1>1, <2>1, PlacesFixed, SetupFixed DEF DsiInv, IdsInv, After
  <2> QED BY <1>1, <1>3, <1>4, <1>5, <2>2, <2>3, FirmwareFixed
<1> QED BY <1>6, <1>7

LEMMA AddressHolds == IInv /\ setMemoryAddress => IInv'
<1> SUFFICES ASSUME IInv, setMemoryAddress PROVE IInv'
  OBVIOUS
<1> USE DEF IInv
<1>1. UNCHANGED <<setup, slots, newest, version, visible, language, extended,
                  engine>> /\ stage = "setMemoryAddress" /\ stage' = "game"
  BY DEF setMemoryAddress
<1>2. /\ setup \in SetupType /\ visible \in {MB4, MB8, MB16}
      /\ mem \in [Pages -> [Fields -> Values]]
  BY DEF TypeOK
<1>3. At(base) \in Pages /\ At(NewPage) \in Pages /\ At(base - 1) \in Pages
  BY <1>2, SdkFound, PagesFound
<1>4. mem[At(base)]["header"] \in Headers
  BY <1>1 DEF PlaceInv, After, Marked
<1>5. /\ \A p \in Pages : /\ mem'[p]["header"] = mem[p]["header"]
                          /\ mem'[p]["settings"] = mem[p]["settings"]
                          /\ mem'[p]["body"] = mem[p]["body"]
      /\ mem'[At(base)]["ids"] = Ids(mem[At(base)]["header"].crc)
      /\ setup.dsiCapable => mem'[At(NewPage)]["copy"] = mem[At(NewPage)]["header"]
  BY <1>3 DEF setMemoryAddress, Fields
<1>6. TypeOK'
  <2>1. Ids(mem[At(base)]["header"].crc) \in Values
    BY <1>4 DEF Headers, Header, Values
  <2>2. mem[At(NewPage)]["header"] \in Values
    BY <1>2, <1>3 DEF Fields
  <2>3. mem' \in [Pages -> [Fields -> Values]]
    BY <1>2, <2>1, <2>2 DEF setMemoryAddress
  <2> QED BY <1>1, <2>3 DEF TypeOK, Stages
<1>7. VisibleInv'
  BY <1>1, SetupFixed DEF VisibleInv, After
<1>8. LanguageInv'
  BY <1>1, SetupFixed DEF LanguageInv, After
<1>9. PlaceInv'
  <2>1. Settled(At(base)) /\ Marked(At(base))
    BY <1>1 DEF PlaceInv, After
  <2> QED BY <1>1, <1>3, <1>5, <2>1, PlacesFixed, FirmwareFixed
         DEF PlaceInv, Settled, Marked
<1>10. DsiInv'
  BY <1>1, <1>3, <1>5, PlacesFixed, SetupFixed DEF DsiInv, After
<1>11. IdsInv'
  <2>1. setup.dsiCapable => At(base) = At(NewPage)
    BY <1>2, SdkFound DEF Possible, SetupType
  <2> QED BY <1>1, <1>3, <1>5, <2>1, PlacesFixed DEF IdsInv
<1> QED BY <1>1, <1>6, <1>7, <1>8, <1>9, <1>10, <1>11, FirmwareFixed

(* The engine writes the language that is there already, or elsewhere.     *)
LEMMA LanguageHolds == IInv /\ ChangeLanguage => IInv'
<1> SUFFICES ASSUME IInv, ChangeLanguage PROVE IInv'
  OBVIOUS
<1> USE DEF IInv
<1> DEFINE there == mem[At(OldPage)]["settings"]
           new == IF there.is = "settings"
                  THEN [there EXCEPT !.language = engine.language] ELSE Stray
<1>1. /\ UNCHANGED <<setup, slots, newest, version, stage, visible, language,
                     extended, engine>> /\ stage = "game"
      /\ engine # NoEngine /\ engine.language \in Languages
      /\ mem' = [mem EXCEPT ![At(OldPage)]["settings"] = new]
  BY DEF ChangeLanguage, Put
<1>2. /\ setup \in SetupType /\ visible \in {MB4, MB8, MB16}
      /\ mem \in [Pages -> [Fields -> Values]]
  BY DEF TypeOK
<1>3. At(base) \in Pages /\ At(NewPage) \in Pages /\ At(base - 1) \in Pages
      /\ At(OldPage) \in Pages
  BY <1>2, SdkFound, PagesFound
<1>4. there \in Values
  BY <1>2, <1>3 DEF Fields
<1>5. new \in Values
  <2>1. CASE there.is = "settings"
    <3>1. there \in [is: {"settings"}, version: 0..MaxWrites, language: Languages]
      BY <1>4, <2>1 DEF Values, Left, Blank, DsiHeader, Stray, Headers, Header, Ids
    <3>2. new \in [is: {"settings"}, version: 0..MaxWrites, language: Languages]
      BY <1>1, <2>1, <3>1
    <3> QED BY <3>2 DEF Values
  <2>2. CASE there.is # "settings"
    BY <2>2 DEF Values
  <2> QED BY <2>1, <2>2
<1>6. newest # 0 /\ there = Settings(slots[newest].version, Wanted) => new = there
  <2> SUFFICES ASSUME newest # 0, there = Settings(slots[newest].version, Wanted)
               PROVE  new = there
    OBVIOUS
  <2>1. engine.language = Wanted
    <3>1. engine.language = Language
      BY <1>1 DEF LanguageInv, After
    <3>2. Language # Default
      BY <1>1, <3>1, GameSetupAssumption
    <3> QED BY <3>1, <3>2 DEF Language, Wanted
  <2> QED BY <2>1 DEF Settings
<1> HIDE DEF new, there
<1>7. \A p \in Pages : /\ mem'[p]["header"] = mem[p]["header"]
                      /\ mem'[p]["ids"] = mem[p]["ids"]
                      /\ mem'[p]["copy"] = mem[p]["copy"]
                      /\ mem'[p]["body"] = mem[p]["body"]
                      /\ mem'[p]["settings"] = IF p = At(OldPage) THEN new
                                              ELSE mem[p]["settings"]
  BY <1>1, <1>2, <1>3 DEF Fields
<1>8. TypeOK'
  <2>1. mem' \in [Pages -> [Fields -> Values]]
    BY <1>1, <1>2, <1>3, <1>5
  <2> QED BY <1>1, <2>1 DEF TypeOK
<1>9. VisibleInv'
  BY <1>1, SetupFixed DEF VisibleInv
<1>10. LanguageInv'
  BY <1>1, SetupFixed DEF LanguageInv
<1>11. PlaceInv'
  <2>1. Settled(At(base)) /\ Marked(At(base))
    BY <1>1 DEF PlaceInv, After
  <2>2. Settled(At(base))'
    BY <1>1, <1>3, <1>6, <1>7, <2>1, PlacesFixed, FirmwareFixed DEF Settled, there
  <2>3. Marked(At(base))'
    BY <1>1, <1>3, <1>7, <2>1, PlacesFixed, FirmwareFixed DEF Marked
  <2> QED BY <1>1, <2>2, <2>3 DEF PlaceInv
<1>12. DsiInv'
  BY <1>1, <1>3, <1>7, PlacesFixed, SetupFixed DEF DsiInv
<1>13. IdsInv'
  BY <1>1, <1>3, <1>7, PlacesFixed DEF IdsInv
<1> QED BY <1>1, <1>8, <1>9, <1>10, <1>11, <1>12, <1>13, FirmwareFixed

-----------------------------------------------------------------------------
(* The theorems.                                                           *)

(* The settings are in a slot that is one ahead of the other, the language *)
(* of the engine is the one in them, and header and settings are where the *)
(* game will look for them once the memory's size is set.                  *)
THEOREM Invariance == Spec => []IInv
<1>1. IInv /\ [Next]_vars => IInv'
  <2> SUFFICES ASSUME IInv, [Next]_vars PROVE IInv'
    OBVIOUS
  <2>1. CASE UNCHANGED vars
    <3>1. UNCHANGED <<setup, slots, newest, version, stage, visible, mem,
                      language, extended, engine>>
      BY <2>1 DEF vars
    <3>2. TypeOK' /\ VisibleInv' /\ LanguageInv' /\ FirmwareInv'
      BY <3>1, SetupFixed, FirmwareFixed
         DEF IInv, TypeOK, VisibleInv, LanguageInv
    <3>3. PlaceInv' /\ DsiInv' /\ IdsInv'
      BY <3>1, PlacesFixed, SetupFixed, FirmwareFixed
         DEF IInv, PlaceInv, DsiInv, IdsInv, Settled, Marked
    <3> QED BY <3>1, <3>2, <3>3 DEF IInv
  <2> QED BY <2>1, WriteHolds, ResetHolds, HeaderHolds, SettingsHold, CopyHolds,
             HookHolds, ScfgHolds, AddressHolds, LanguageHolds DEF Next
<1> QED BY <1>1, InitHolds, PTL DEF Spec

(* Every variable keeps its type, and memory holds only what the           *)
(* bootloader, the engine and the launcher put there.                      *)
THEOREM TypeCorrect == Spec => []TypeOK
BY Invariance, PTL DEF IInv

(* The game finds the settings last written completely (main.arm7.c:309),  *)
(* for every width of the counter and any number of writes and power       *)
(* losses, on every console and in every mode.                             *)
THEOREM FindsSettings == Spec => []SettingsCurrent
<1>1. IInv => SettingsCurrent
  <2> SUFFICES ASSUME IInv, stage = "game", newest # 0
               PROVE  mem[GamePage]["settings"]
                        = Settings(slots[newest].version, Wanted)
    BY DEF SettingsCurrent
  <2>1. Settled(At(base)) /\ GamePage = At(base)
    BY SdkFound DEF IInv, PlaceInv, After
  <2> QED BY <2>1 DEF Settled
<1> QED BY <1>1, Invariance, PTL

(* The game finds its header, its checksum and the values beside it        *)
(* (main.arm7.c:1136 and 1006).                                            *)
THEOREM FindsHeader == Spec => []GameSees
<1>1. IInv => GameSees
  <2> SUFFICES ASSUME IInv, stage = "game" PROVE GameSees
    BY DEF GameSees
  <2>1. /\ setup \in SetupType /\ Possible(setup) /\ GamePage = At(base)
        /\ base = IF setup.sdk5 THEN NewPage ELSE OldPage
    BY SdkFound DEF IInv
  <2>2. Marked(At(base))
    BY DEF IInv, PlaceInv, After
  <2>3. /\ mem[At(base)]["ids"] = Ids(mem[At(base)]["header"].crc)
        /\ setup.dsiCapable => mem[At(NewPage)]["copy"] = mem[At(base)]["header"]
    BY DEF IInv, IdsInv
  <2>4. dsiModeConfirmed =>
          mem[At(IF setup.sdk5 THEN NewPage - 1 ELSE OldPage - 1)]["body"]
            = DsiHeader
    BY <2>1 DEF IInv, DsiInv, After
  <2> QED BY <2>1, <2>2, <2>3, <2>4 DEF GameSees, Marked
<1> QED BY <1>1, Invariance, PTL

-----------------------------------------------------------------------------
(* What the clearing spares.                                               *)

Spared == {0, CodePage}
            \cup (IF setup.removeMonitor THEN {} ELSE {Monitor(setup)})

Written == {1020, 1022, 1023, 2044, 2046, 2047, 4092, 4094, 4095}

DebuggerKept == setup.onDebugger /\ ~setup.removeMonitor

KeptInv ==
  /\ stage = "off" => mem = [page \in Pages |-> [f \in Fields |-> Left]]
  /\ stage # "off" =>
       /\ \A page \in Pages, f \in Fields \ {"handler"} :
            Exists(page) => (mem[page][f] = Left <=> page \in Spared)
       /\ DebuggerKept => mem[At(NewPage)]["handler"] = Left
  /\ stage \in After \ {"copyInfo"} /\ setup.dsi /\ DebuggerKept => extended

(* The pages that matter, by number.                                       *)
LEMMA AllPages == Pages \subseteq {0, 986, 1792, 7936} \cup Written
<1>1. /\ 4092 % 1024 = 1020 /\ 4092 % 2048 = 2044 /\ 4092 % 4096 = 4092
      /\ 2047 % 1024 = 1023 /\ 2047 % 2048 = 2047 /\ 2047 % 4096 = 2047
      /\ 4095 % 1024 = 1023 /\ 4095 % 2048 = 2047 /\ 4095 % 4096 = 4095
      /\ 2046 % 1024 = 1022 /\ 2046 % 2048 = 2046 /\ 2046 % 4096 = 2046
      /\ 4094 % 1024 = 1022 /\ 4094 % 2048 = 2046 /\ 4094 % 4096 = 4094
  OBVIOUS
<1>2. \A p \in {4092, 2047, 2046, 4095, 4094}, s \in {1024, 2048, 4096} :
        p % s \in Written
  BY <1>1 DEF Written
<1>3. Monitor([dsi |-> TRUE]) = 7936 /\ Monitor([dsi |-> FALSE]) = 1792
  BY DEF Monitor, MB16
<1>4. {page % size : page \in {Temp, OldPage, OldPage - 1, NewPage, NewPage - 1},
                     size \in {MB4, MB8, MB16}} \subseteq Written
  <2>1. /\ Temp = 4092 /\ OldPage = 2047 /\ OldPage - 1 = 2046
        /\ NewPage = 4095 /\ NewPage - 1 = 4094
        /\ MB4 = 1024 /\ MB8 = 2048 /\ MB16 = 4096
    BY DEF Temp, OldPage, NewPage, MB4, MB8, MB16
  <2> QED BY <1>2, <2>1
<1> QED BY <1>3, <1>4 DEF Pages, CodePage

(* Nothing that is written to is spared, and all of it exists.             *)
LEMMA WrittenPages ==
  ASSUME setup \in SetupType, visible \in {MB4, MB8, MB16},
         setup.dsi \/ visible # MB16
  PROVE  /\ Spared \cap Written = {}
         /\ \A page \in {1022, 1023} : Exists(page)
         /\ \A page \in {At(OldPage), At(NewPage), At(OldPage - 1), At(NewPage - 1)} :
              page \in Written /\ Exists(page)
<1>1. Monitor(setup) \in {7936, 1792}
  BY DEF Monitor, MB16
<1>2. Spared \cap Written = {}
  BY <1>1 DEF Spared, Written, CodePage
<1>3. \A page \in {1022, 1023} : Exists(page)
  BY DEF Exists, MB4, MB8, MB16
<1>4. \A page \in {At(OldPage), At(NewPage), At(OldPage - 1), At(NewPage - 1)} :
        page \in Written /\ Exists(page)
  BY PagesFound DEF Written, Exists, MB4, MB8, MB16
<1> QED BY <1>2, <1>3, <1>4

(* The clearing itself: of the pages that exist, all others are cleared.   *)
LEMMA ClearsTheRest ==
  ASSUME setup \in SetupType, visible = Whole, NEW page \in Pages, Exists(page)
  PROVE  Cleared(page) <=> page \notin Spared
<1>1. page \in {0, 986, 1792, 7936} \cup Written
  BY AllPages
<1>2. /\ setup.dsi \in BOOLEAN /\ setup.doubleRAM \in BOOLEAN
      /\ setup.removeMonitor \in BOOLEAN
  BY DEF SetupType
<1>3. CASE setup.dsi
  BY <1>1, <1>2, <1>3
     DEF Cleared, Spared, Written, Exists, Monitor, CodePage, MB4, MB8, MB16
<1>4. CASE ~setup.dsi
  BY <1>1, <1>2, <1>4
     DEF Cleared, Spared, Written, Exists, Monitor, CodePage, Whole, MB4, MB8, MB16
<1> QED BY <1>3, <1>4

(* What a step leaves of the invariant if it writes nothing that is as the *)
(* launcher left it.                                                       *)
LEMMA StillKept ==
  ASSUME KeptInv, UNCHANGED <<setup, visible>>, stage # "off", stage' # "off",
         \A page \in Pages, f \in Fields \ {"handler"} :
           Exists(page) =>
             \/ mem'[page][f] = mem[page][f]
             \/ mem'[page][f] # Left /\ page \notin Spared,
         DebuggerKept => mem'[At(NewPage)]["handler"] = Left,
         stage' \in After \ {"copyInfo"} /\ setup.dsi /\ DebuggerKept => extended'
  PROVE  KeptInv'
<1>1. /\ Spared' = Spared /\ DebuggerKept' = DebuggerKept
      /\ At(NewPage)' = At(NewPage)
      /\ \A page : Exists(page)' = Exists(page)
  BY PlacesFixed DEF Spared, DebuggerKept, Exists
<1>2. \A page \in Pages, f \in Fields \ {"handler"} :
        Exists(page) => (mem'[page][f] = Left <=> page \in Spared)
  BY DEF KeptInv
<1> QED BY <1>1, <1>2 DEF KeptInv

(* Each step of it.                                                        *)
LEMMA KeptSteps == IInv /\ KeptInv /\ [Next]_vars => KeptInv'
<1> SUFFICES ASSUME IInv, KeptInv, [Next]_vars PROVE KeptInv'
  OBVIOUS
<1>1. /\ setup \in Setups /\ setup \in SetupType
      /\ visible \in {MB4, MB8, MB16}
      /\ mem \in [Pages -> [Fields -> Values]]
      /\ setup.dsi \in BOOLEAN /\ setup.doubleRAM \in BOOLEAN
      /\ setup.onDebugger \in BOOLEAN /\ setup.removeMonitor \in BOOLEAN
  BY DEF IInv, TypeOK, SetupType
<1>2. setup.dsi \/ visible # MB16
  BY <1>1 DEF IInv, VisibleInv, Whole, MB4, MB8, MB16
<1>3. /\ Spared \cap Written = {}
      /\ Last4 \in Pages /\ Last4 \in Written /\ Exists(Last4)
      /\ \A page \in {At(OldPage), At(NewPage), At(OldPage - 1), At(NewPage - 1)} :
           page \in Pages /\ page \in Written /\ Exists(page)
  BY <1>1, <1>2, WrittenPages, PagesFound DEF Last4, Written
<1>4. /\ At(base) \in Pages /\ At(base) \in Written /\ Exists(At(base))
      /\ At(base - 1) \in Pages /\ At(base - 1) \in Written
  BY <1>1, <1>3, SdkFound
<1>5. stage # "off" =>
        /\ \A f \in Fields \ {"handler"} : mem[At(base)][f] # Left
        /\ mem[At(NewPage)]["header"] # Left
        /\ DebuggerKept => mem[At(NewPage)]["handler"] = Left
  BY <1>3, <1>4 DEF KeptInv, Fields
<1>6. /\ Blank # Left /\ DsiHeader # Left /\ Stray # Left
      /\ \A i, c : Header(i, c) # Left
      /\ \A c : Ids(c) # Left
      /\ \A v, l : Settings(v, l) # Left
  <2>1. /\ Left.is = "left" /\ Blank.is = "blank" /\ DsiHeader.is = "dsiHeader"
        /\ Stray.is = "stray"
    BY DEF Left, Blank, DsiHeader, Stray
  <2>2. /\ \A i, c : Header(i, c).is = "header"
        /\ \A c : Ids(c).is = "ids"
        /\ \A v, l : Settings(v, l).is = "settings"
    BY DEF Header, Ids, Settings
  <2> QED BY <2>1, <2>2
<1>7. CASE WriteSettings
  <2>1. UNCHANGED <<setup, stage, mem>> /\ stage = "off"
    BY <1>7 DEF WriteSettings
  <2> QED BY <2>1 DEF KeptInv, After
<1>8. CASE ResetMemory
  <2>1. UNCHANGED <<setup, visible, extended>> /\ stage = "off"
        /\ stage' = "loadHeader"
        /\ mem = [page \in Pages |-> [f \in Fields |-> Left]]
    BY <1>8 DEF ResetMemory, KeptInv
  <2>2. visible = Whole
    BY <2>1 DEF IInv, VisibleInv
  <2>3. \A page \in Pages, f \in Fields \ {"handler"} :
          Exists(page) => (mem'[page][f] = Left <=> page \in Spared)
    <3> SUFFICES ASSUME NEW page \in Pages, NEW f \in Fields \ {"handler"},
                        Exists(page)
                 PROVE  mem'[page][f] = Left <=> page \in Spared
      OBVIOUS
    <3>1. Cleared(page) <=> page \notin Spared
      BY <1>1, <2>2, ClearsTheRest
    <3>2. mem'[page][f] = IF Cleared(page) THEN Blank ELSE Left
      BY <1>8, <2>1 DEF ResetMemory
    <3> QED BY <1>6, <3>1, <3>2
  <2>4. DebuggerKept => mem'[At(NewPage)]["handler"] = Left
    BY <1>3, <1>8, <2>1 DEF ResetMemory, DebuggerKept, Fields
  <2>5. /\ Spared' = Spared /\ DebuggerKept' = DebuggerKept
        /\ At(NewPage)' = At(NewPage)
        /\ \A page : Exists(page)' = Exists(page)
    BY <2>1, PlacesFixed DEF Spared, DebuggerKept, Exists
  <2> QED BY <2>1, <2>3, <2>4, <2>5 DEF KeptInv, After
<1>9. CASE loadHeader
  <2>1. UNCHANGED <<setup, visible, extended>> /\ stage = "loadHeader"
        /\ stage' = "readUserSettings"
    BY <1>9 DEF loadHeader
  <2>2. \A page \in Pages, f \in Fields :
          \/ mem'[page][f] = mem[page][f]
          \/ mem'[page][f] # Left /\ page \notin Spared /\ f # "handler"
    BY <1>3, <1>4, <1>6, <1>9 DEF loadHeader
  <2> QED BY <1>3, <1>5, <2>1, <2>2, StillKept DEF After, Fields
<1>10. CASE readUserSettings
  <2>1. UNCHANGED <<setup, visible, extended>> /\ stage = "readUserSettings"
        /\ stage' = "copyInfo"
    BY <1>10 DEF readUserSettings
  <2>2. \A page \in Pages, f \in Fields :
          \/ mem'[page][f] = mem[page][f]
          \/ mem'[page][f] # Left /\ page \notin Spared /\ f # "handler"
    <3>1. CASE UNCHANGED mem
      BY <3>1
    <3>2. CASE ~UNCHANGED mem
      <4>1. PICK settings, given :
              /\ mem' = [mem EXCEPT ![At(base)] =
                           [@ EXCEPT !["settings"] = settings,
                                     !["header"] = given]]
              /\ settings # Left
              /\ given # Left
        <5> DEFINE slot == slots[CurrentSlot]
                   lang == IF ChosenLanguage \in Languages THEN ChosenLanguage
                           ELSE slot.language
                   old == mem[At(base)]["header"]
                   new == IF lang # Chinese /\ old.ique THEN Header(FALSE, FALSE)
                          ELSE old
        <5>1. mem' = [mem EXCEPT ![At(base)] =
                       [@ EXCEPT !["settings"] = Settings(slot.version, lang),
                                 !["header"] = new]]
          BY <1>10, <3>2 DEF readUserSettings
        <5>2. Settings(slot.version, lang) # Left
          BY <1>6
        <5>3. new # Left
          BY <1>5, <1>6, <2>1 DEF Fields
        <5> HIDE DEF slot, lang, old, new
        <5> QED BY <5>1, <5>2, <5>3
      <4> QED BY <1>1, <1>3, <1>4, <4>1
    <3> QED BY <3>1, <3>2
  <2> QED BY <1>3, <1>5, <2>1, <2>2, StillKept DEF After, Fields
<1>11. CASE CopyInfo
  <2> DEFINE keep == dsiModeConfirmed \/ (setup.dsi /\ setup.browser)
  <2>1. /\ UNCHANGED <<setup, visible>> /\ stage = "copyInfo" /\ stage' = "hook"
        /\ mem' = IF keep THEN mem
                  ELSE [mem EXCEPT ![Last4] = mem[At(base)],
                                   ![At(OldPage)] = mem[At(base)]]
        /\ setup.dsi /\ DebuggerKept => extended'
    BY <1>11 DEF CopyInfo, DebuggerKept
  <2> HIDE DEF keep
  <2>2. \A page \in Pages : mem'[page] = mem[page]
                         \/ (mem'[page] = mem[At(base)] /\ page \in Written)
    BY <1>1, <1>3, <1>4, <2>1
  <2>3. DebuggerKept => mem'[At(NewPage)]["handler"] = Left
    <3>1. CASE setup.dsi
      <4>1. visible = MB16
        BY <2>1, <3>1 DEF IInv, VisibleInv, Whole
      <4>2. At(NewPage) # Last4 /\ At(NewPage) # At(OldPage)
        BY <1>1, <4>1, PagesFound DEF Last4, MB4, MB8, MB16
      <4>3. mem'[At(NewPage)] = mem[At(NewPage)]
        BY <1>1, <1>3, <2>1, <4>2
      <4> QED BY <1>5, <2>1, <4>3
    <3>2. CASE ~setup.dsi
      <4>1. At(NewPage) = At(OldPage)
        BY <1>1, <1>2, <3>2, PagesFound DEF MB4, MB8, MB16
      <4>2. At(base) = At(NewPage)
        BY <1>1, <4>1, SdkFound
      <4>3. mem'[At(NewPage)] = mem[At(NewPage)]
        BY <1>1, <1>3, <2>1, <4>2
      <4> QED BY <1>5, <2>1, <4>3
    <3> QED BY <1>1, <3>1, <3>2
  <2>4. \A page \in Pages, f \in Fields \ {"handler"} :
          \/ mem'[page][f] = mem[page][f]
          \/ mem'[page][f] # Left /\ page \notin Spared
    BY <1>3, <1>5, <2>1, <2>2
  <2> QED BY <2>1, <2>3, <2>4, StillKept
<1>12. CASE HookCardEngine
  <2>1. UNCHANGED <<setup, visible, mem, extended>> /\ stage = "hook"
        /\ stage' = "setScfg"
    BY <1>12 DEF HookCardEngine
  <2>2. setup.dsi /\ DebuggerKept => extended
    BY <2>1 DEF KeptInv, After
  <2> QED BY <1>5, <2>1, <2>2, StillKept
<1>13. CASE SetScfg
  <2>1. /\ UNCHANGED <<setup, mem, extended>> /\ stage = "setScfg"
        /\ stage' = "setMemoryAddress"
        /\ visible' = IF setup.dsi /\ ~dsiModeConfirmed /\ ~extended THEN MB4
                      ELSE visible
    BY <1>13 DEF SetScfg
  <2>2. setup.dsi /\ DebuggerKept => extended
    BY <2>1 DEF KeptInv, After
  <2>3. DebuggerKept => visible' = visible
    BY <2>1, <2>2
  <2>4. /\ Spared' = Spared /\ DebuggerKept' = DebuggerKept
        /\ \A page : Exists(page)' = Exists(page)
    BY <1>1, <2>1 DEF Spared, DebuggerKept, Exists
  <2>5. DebuggerKept => mem'[At(NewPage)']["handler"] = Left
    BY <1>5, <2>1, <2>3, PlacesFixed
  <2>6. \A page \in Pages, f \in Fields \ {"handler"} :
          Exists(page) => (mem'[page][f] = Left <=> page \in Spared)
    BY <2>1 DEF KeptInv
  <2> QED BY <2>1, <2>2, <2>4, <2>5, <2>6 DEF KeptInv
<1>14. CASE setMemoryAddress
  <2>1. UNCHANGED <<setup, visible, extended>> /\ stage = "setMemoryAddress"
        /\ stage' = "game"
    BY <1>14 DEF setMemoryAddress
  <2>2. \A page \in Pages, f \in Fields :
          \/ mem'[page][f] = mem[page][f]
          \/ mem'[page][f] # Left /\ page \notin Spared /\ f # "handler"
    BY <1>3, <1>4, <1>5, <1>6, <1>14, <2>1 DEF setMemoryAddress
  <2>3. setup.dsi /\ DebuggerKept => extended
    BY <2>1 DEF KeptInv, After
  <2> QED BY <1>3, <1>5, <2>1, <2>2, <2>3, StillKept DEF Fields
<1>15. CASE ChangeLanguage
  <2> DEFINE there == mem[At(OldPage)]["settings"]
             new == IF there.is = "settings"
                    THEN [there EXCEPT !.language = engine.language] ELSE Stray
  <2>1. /\ UNCHANGED <<setup, stage, visible, extended>> /\ stage = "game"
        /\ mem' = [mem EXCEPT ![At(OldPage)]["settings"] = new]
    BY <1>15 DEF ChangeLanguage, Put
  <2>2. new # Left
    <3>1. there \in Values
      BY <1>1, <1>3 DEF Fields
    <3>2. CASE there.is = "settings"
      <4>1. there \in [is: {"settings"}, version: 0..MaxWrites, language: Languages]
        BY <3>1, <3>2 DEF Values, Left, Blank, DsiHeader, Stray, Headers, Header, Ids
      <4>2. [there EXCEPT !.language = engine.language].is = "settings"
        BY <4>1
      <4> QED BY <3>2, <4>2 DEF Left
    <3>3. CASE there.is # "settings"
      BY <1>6, <3>3
    <3> QED BY <3>2, <3>3
  <2> HIDE DEF new
  <2>3. \A page \in Pages, f \in Fields :
          \/ mem'[page][f] = mem[page][f]
          \/ mem'[page][f] # Left /\ page \notin Spared /\ f # "handler"
    BY <1>1, <1>3, <2>1, <2>2
  <2>4. setup.dsi /\ DebuggerKept => extended
    BY <2>1 DEF KeptInv, After
  <2> QED BY <1>3, <1>5, <2>1, <2>3, <2>4, StillKept DEF Fields
<1>16. CASE UNCHANGED vars
  <2>1. UNCHANGED <<setup, stage, visible, mem, extended>>
    BY <1>16 DEF vars
  <2>2. /\ Spared' = Spared /\ DebuggerKept' = DebuggerKept
        /\ At(NewPage)' = At(NewPage)
        /\ \A page : Exists(page)' = Exists(page)
    BY <2>1, PlacesFixed DEF Spared, DebuggerKept, Exists
  <2> QED BY <2>1, <2>2 DEF KeptInv
<1> QED BY <1>7, <1>8, <1>9, <1>10, <1>11, <1>12, <1>13, <1>14, <1>15, <1>16
        DEF Next

(* The page the ARM9 runs in, the bottom of memory, where the DSi keeps its *)
(* settings, and the debugger's memory and handler are spared by clearing  *)
(* (main.arm7.c:426) and by every write after it; all else is cleared.     *)
THEOREM SparesTheRest == Spec => []LeftAlone
<1>1. Init => KeptInv
  BY DEF Init, KeptInv, After
<1>2. IInv /\ KeptInv => LeftAlone
  BY DEF KeptInv, LeftAlone, Spared, DebuggerKept
<1> QED BY <1>1, <1>2, KeptSteps, Invariance, PTL DEF Spec
=============================================================================
