--------------------------- MODULE CartridgeProofs ---------------------------
(***************************************************************************)
(* Proofs about what is read from the cartridge: CardReader, for every set *)
(* of cards, and BinaryLoader, for all cards, games and block sizes.       *)
(***************************************************************************)
EXTENDS CardReader, BinaryLoader, SequenceTheorems, TLAPS

-----------------------------------------------------------------------------
(* The card.                                                               *)

(* The secure area is read block by block.                                 *)
LEMMA AppendBlock ==
  ASSUME NEW a \in Areas, a # SecureBlocks
  PROVE  LET read == Append(a, Len(a) + 4)
         IN  /\ read \in Areas
             /\ Len(read) = Len(a) + 1
             /\ Len(a) \in 0..3
             /\ Len(read) = 4 <=> read = SecureBlocks
<1>1. CASE a = << >>
  BY <1>1 DEF Areas, SecureBlocks
<1>2. CASE a = <<4>>
  <2>1. <<4>> \in Seq(Nat) /\ <<4, 5>> \in Seq(Nat)
    OBVIOUS
  <2>2. /\ Append(<<4>>, 5) \in Seq(Nat) /\ Len(Append(<<4>>, 5)) = 2
        /\ \A i \in 1..2 : Append(<<4>>, 5)[i] = <<4, 5>>[i]
    OBVIOUS
  <2>3. Append(<<4>>, 5) = <<4, 5>>
    BY <2>1, <2>2, SeqEqual
  <2>4. Len(a) = 1 /\ Len(<<4, 5>>) = 2 /\ a[1] = 4
    BY <1>2
  <2>5. QED
    BY <1>2, <2>3, <2>4 DEF Areas, SecureBlocks
<1>3. CASE a = <<4, 5>>
  <2>1. <<4, 5>> \in Seq(Nat) /\ <<4, 5, 6>> \in Seq(Nat)
    OBVIOUS
  <2>2. /\ Append(<<4, 5>>, 6) \in Seq(Nat) /\ Len(Append(<<4, 5>>, 6)) = 3
        /\ \A i \in 1..3 : Append(<<4, 5>>, 6)[i] = <<4, 5, 6>>[i]
    OBVIOUS
  <2>3. Append(<<4, 5>>, 6) = <<4, 5, 6>>
    BY <2>1, <2>2, SeqEqual
  <2>4. Len(a) = 2 /\ Len(<<4, 5, 6>>) = 3 /\ a[1] = 4
    BY <1>3
  <2>5. QED
    BY <1>3, <2>3, <2>4 DEF Areas, SecureBlocks
<1>4. CASE a = <<4, 5, 6>>
  <2>1. <<4, 5, 6>> \in Seq(Nat) /\ <<4, 5, 6, 7>> \in Seq(Nat)
    OBVIOUS
  <2>2. /\ Append(<<4, 5, 6>>, 7) \in Seq(Nat) /\ Len(Append(<<4, 5, 6>>, 7)) = 4
        /\ \A i \in 1..4 : Append(<<4, 5, 6>>, 7)[i] = <<4, 5, 6, 7>>[i]
    OBVIOUS
  <2>3. Append(<<4, 5, 6>>, 7) = <<4, 5, 6, 7>>
    BY <2>1, <2>2, SeqEqual
  <2>4. Len(a) = 3 /\ Len(<<4, 5, 6, 7>>) = 4 /\ a[1] = 4
    BY <1>4
  <2>5. QED
    BY <1>4, <2>3, <2>4 DEF Areas, SecureBlocks
<1>5. QED
  BY <1>1, <1>2, <1>3, <1>4 DEF Areas

-----------------------------------------------------------------------------
(* The invariant.                                                          *)

KindOpen == cartridgeType \in {Kind(card), AUTODETECT}

(* Attempts, headers and the kind of card.                                 *)
AttemptInv ==
  /\ attempt = 0 => pc = "init"
  /\ pc = "init" => attempt \in 0..1
  /\ attempt = 0 \/ (attempt = 1 /\ pc = "header") => ndsHeader.ext = "zero"
  /\ pc = "detect" /\ attempt = 1 /\ card.extended => ndsHeader.ext = card.ext
  /\ pc \in {"init", "header", "failed", "detect"} => KindOpen
  /\ pc \in {"unread", "rubbish", "over"} => attempt = 2
  /\ Settled => cartridgeType \in {RETAIL, EMULATED}
  /\ Settled /\ attempt = 1 => cartridgeType = Kind(card)
  /\ Settled \/ pc = "detect" => /\ ndsHeader.first = "card"
                                 /\ headerData.first = "card"

(* Counters and buffers, whatever card it is.                              *)
PassInv ==
  /\ pc = "key2" => key1.counter = 0 /\ slot.counter = 0
  /\ pc = "chipid" => key1.counter = 1 /\ slot.counter = 1
  /\ pc = "secure" => /\ Area # SecureBlocks
                      /\ key1.counter = 2 + Len(Area)
                      /\ slot.counter = 2 + Len(Area)
  /\ pc = "datamode" => /\ Area = SecureBlocks
                        /\ key1.counter = 6 /\ slot.counter = 6
  /\ pc \in {"key2", "chipid", "secure", "datamode"} =>
       cartridgeType # EMULATED /\ slot.table = key1.table
  /\ pc = "final" => key1.table = "ntr"
  /\ pc = "twl" => dsiMode /\ card.dsi
  /\ pc = "rubbish" => dsiMode

(* What a card taken for what it is sees.                                  *)
CardInv ==
  KindOpen =>
    /\ confused => pc \in {"rubbish", "over"} /\ dsiMode
    /\ pc = "header" => slot.mode = "raw" /\ ~chipRead
    /\ pc \in {"detect", "key1"} => slot.mode = "raw"
    /\ pc \in {"detect", "key1", "key2", "chipid", "secure", "datamode",
               "final", "twl"} => normalChip = card.oneT
    /\ pc = "key2" => slot.mode = "key1"
    /\ pc \in {"chipid", "secure", "datamode"} => slot.mode = "key2"
    /\ pc = "final" => TakesDataRead
    /\ pc = "plainmode" => card.emulated /\ dsiMode
    /\ pc \in {"banner", "load", "loadi"} => TakesDataRead
    /\ pc \in {"plainmode", "banner", "load", "loadi"} /\ dsiMode /\ card.dsi
         => twlBlowfish /\ slot.table = "twl"

(* What has been read of it.                                               *)
AreaInv ==
  /\ Settled /\ key1.table = "twl" =>
       /\ dsiMode /\ card.dsi
       /\ KindOpen => secureArea = [blocks |-> SecureBlocks, plain |-> TRUE]
  /\ pc \in {"key1", "final"} /\ key1.table = "ntr" /\ card.emulated /\ KindOpen
       => secureArea.blocks = SecureBlocks
  /\ pc = "final" /\ KindOpen => secureArea.blocks = SecureBlocks
  /\ pc \in {"twl", "plainmode", "banner", "load", "loadi", "done"} /\ KindOpen
       => secureArea = [blocks |-> SecureBlocks, plain |-> TRUE]
  /\ pc \in {"plainmode", "banner", "load", "loadi", "done"} /\ KindOpen
       /\ dsiMode /\ card.dsi /\ (card.emulated => card.twlRegion)
       => secureAreaTWL = SecureBlocks

ReaderInv == ReaderTypeOK /\ AttemptInv /\ PassInv /\ CardInv /\ AreaInv

USE DEF RETAIL, EMULATED, AUTODETECT

LEMMA KindCases == Kind(card) \in {RETAIL, EMULATED}
BY DEF Kind

LEMMA InitReaderInv == ReaderInit => ReaderInv
<1> SUFFICES ASSUME ReaderInit PROVE ReaderInv
  OBVIOUS
<1>1. card \in CardType
  BY CardsAssumption DEF ReaderInit
<1>2. ReaderTypeOK
  <2>1. ndsHeader \in Headers /\ headerData \in Headers
    BY DEF ReaderInit, Headers, FirstParts, ExtParts
  <2>2. /\ key1 \in [table: Tables, counter: 0..7]
        /\ slot \in [mode: Modes, table: Tables, counter: 0..7]
    BY DEF ReaderInit, Tables, Modes
  <2>3. /\ secureArea \in [blocks: Areas, plain: BOOLEAN]
        /\ secureAreaTWL \in Areas
    BY DEF ReaderInit, Areas
  <2>4. cartridgeType \in {RETAIL, EMULATED, AUTODETECT}
    BY KindCases DEF ReaderInit
  <2>5. /\ chipRead \in BOOLEAN /\ normalChip \in BOOLEAN
        /\ twlBlowfish \in BOOLEAN /\ confused \in BOOLEAN
        /\ dsiMode \in BOOLEAN
    BY Zenon DEF ReaderInit
  <2>6. attempt \in 0..2 /\ pc = "init"
    BY DEF ReaderInit
  <2>7. QED
    BY <1>1, <2>1, <2>2, <2>3, <2>4, <2>5, <2>6 DEF ReaderTypeOK
<1>3. AttemptInv
  BY DEF ReaderInit, AttemptInv, KindOpen, Settled
<1>4. PassInv /\ CardInv
  BY DEF ReaderInit, PassInv, CardInv
<1>5. AreaInv
  BY DEF ReaderInit, AreaInv, Settled
<1>6. QED
  BY <1>2, <1>3, <1>4, <1>5 DEF ReaderInv

LEMMA ResetSlotInv ==
  ASSUME ReaderInv, ResetSlot
  PROVE  ReaderInv'
<1> USE DEF ResetSlot, setup, areas
<1>1. ReaderTypeOK'
  <2>1. slot' \in [mode: Modes, table: Tables, counter: 0..7]
    BY DEF RawSlot, Modes, Tables
  <2>2. attempt' \in 0..2
    BY DEF ReaderInv, AttemptInv
  <2>3. QED
    BY <2>1, <2>2 DEF ReaderInv, ReaderTypeOK
<1>2. AttemptInv'
  BY DEF ReaderInv, AttemptInv, KindOpen, Kind, Settled, ReaderTypeOK
<1>3. PassInv'
  BY DEF PassInv
<1>4. CardInv'
  BY DEF ReaderInv, AttemptInv, CardInv, KindOpen, Kind, RawSlot
<1>5. AreaInv'
  BY DEF AreaInv, Settled
<1>6. QED
  BY <1>1, <1>2, <1>3, <1>4, <1>5 DEF ReaderInv

LEMMA ReadHeaderInv ==
  ASSUME ReaderInv, ReadHeader
  PROVE  ReaderInv'
<1>0. PICK got \in {"ff", "noise", "card"}, extNoise \in BOOLEAN,
           idNoise \in BOOLEAN :
        LET ext == Extended(got, extNoise)
        IN /\ HeadersRead(got, ext)
           /\ IF (ext \/ got = "card") /\ ~chipRead
              THEN normalChip' = ChipId(got, idNoise) /\ chipRead' = TRUE
              ELSE UNCHANGED <<normalChip, chipRead>>
           /\ pc' = IF got = "card" THEN "detect" ELSE "failed"
  BY DEF ReadHeader, FirstParts
<1> DEFINE ext == Extended(got, extNoise)
<1>1. /\ pc = "header" /\ pc' \in {"detect", "failed"}
      /\ pc' = "detect" => got = "card"
      /\ card' = card /\ dsiMode' = dsiMode /\ attempt' = attempt
      /\ cartridgeType' = cartridgeType /\ slot' = slot /\ key1' = key1
      /\ secureArea' = secureArea /\ secureAreaTWL' = secureAreaTWL
      /\ twlBlowfish' = twlBlowfish
  BY <1>0 DEF ReadHeader, setup, areas
<1>2. /\ card \in CardType /\ ndsHeader \in Headers /\ headerData \in Headers
      /\ attempt \in 1..2
  BY <1>1 DEF ReaderInv, ReaderTypeOK, AttemptInv
<1>3. /\ card.ext \in {"data", "ff"} /\ card.oneT \in BOOLEAN
      /\ card.extended \in BOOLEAN
  BY <1>2 DEF CardType
<1>4. ext \in BOOLEAN /\ (got = "card" => ext = card.extended)
  BY <1>0, <1>3 DEF Extended
<1>5. /\ ndsHeader' \in Headers /\ headerData' \in Headers
      /\ ndsHeader'.first = got /\ headerData'.first = got
      /\ got = "card" /\ card.extended /\ ndsHeader.ext = "zero"
           => ndsHeader'.ext = card.ext
  <2>1. CASE ~ext
    BY <1>0, <1>2, <1>4, <2>1 DEF HeadersRead, Headers, FirstParts
  <2>2. CASE ext
    <3> DEFINE e == IF ndsHeader.ext = "ff" THEN "zero"
                    ELSE IF got = "card" THEN card.ext ELSE got
    <3>1. ndsHeader' = [first |-> got, ext |-> e] /\ headerData' = ndsHeader'
      BY <1>0, <2>2 DEF HeadersRead
    <3>2. e \in ExtParts
      BY <1>3 DEF ExtParts
    <3>3. QED
      BY <3>1, <3>2 DEF Headers, FirstParts
  <2>3. QED
    BY <1>4, <2>1, <2>2
<1>6. /\ normalChip' \in BOOLEAN /\ chipRead' \in BOOLEAN
      /\ got = "card" /\ ~chipRead => normalChip' = card.oneT
  BY <1>0, <1>3 DEF ChipId, ReaderInv, ReaderTypeOK
<1>7. KindOpen => ~confused' /\ slot.mode = "raw" /\ ~chipRead
  BY <1>1 DEF ReadHeader, Sent, TakesHeaderRead, ReaderInv, CardInv
<1>8. ReaderTypeOK'
  <2>1. confused' \in BOOLEAN
    BY DEF ReadHeader, Sent, TakesHeaderRead
  <2>2. QED
    BY <1>1, <1>5, <1>6, <2>1 DEF ReaderInv, ReaderTypeOK
<1>9. AttemptInv'
  BY <1>1, <1>2, <1>5 DEF ReaderInv, AttemptInv, KindOpen, Kind, Settled
<1>10. PassInv' /\ AreaInv'
  BY <1>1 DEF PassInv, AreaInv, Settled
<1>11. CardInv'
  BY <1>1, <1>6, <1>7 DEF CardInv, KindOpen, Kind
<1>12. QED
  BY <1>8, <1>9, <1>10, <1>11 DEF ReaderInv

LEMMA DetectTypeInv ==
  ASSUME ReaderInv, DetectType
  PROVE  ReaderInv'
<1>1. /\ pc = "detect" /\ pc' = "key1" /\ KindOpen
      /\ card' = card /\ dsiMode' = dsiMode /\ attempt' = attempt
      /\ UNCHANGED header /\ slot' = slot /\ secureAreaTWL' = secureAreaTWL
      /\ twlBlowfish' = twlBlowfish
      /\ key1' = [table |-> "ntr", counter |-> 0]
  BY DEF DetectType, setup, ReaderInv, AttemptInv
<1>2. card \in CardType
  BY DEF ReaderInv, ReaderTypeOK
<1>3. cartridgeType' \in {RETAIL, EMULATED}
  BY <1>1, KindCases DEF DetectType, KindOpen
<1>4. attempt = 1 => IsCartridgeEmulated = card.emulated
  BY <1>1, <1>2 DEF ReaderInv, AttemptInv, IsCartridgeEmulated, CardType
<1>5. attempt = 1 => cartridgeType' = Kind(card)
  BY <1>1, <1>4 DEF DetectType, KindOpen, Kind
<1>6. /\ secureArea' \in [blocks: Areas, plain: BOOLEAN]
      /\ card.emulated /\ cartridgeType' = EMULATED
           => secureArea'.blocks = SecureBlocks
  BY DEF DetectType, ReaderInv, ReaderTypeOK, Areas
<1>7. confused' = confused /\ slot.mode = "raw"
  BY <1>1 DEF DetectType, Sent, TakesHeaderRead, ReaderInv, CardInv, ReaderTypeOK
<1>8. ReaderTypeOK'
  BY <1>1, <1>3, <1>6, <1>7 DEF ReaderInv, ReaderTypeOK, header, Tables
<1>9. AttemptInv'
  <2>1. attempt # 0
    BY <1>1 DEF ReaderInv, AttemptInv
  <2>2. QED
    BY <1>1, <1>3, <1>5, <2>1 DEF ReaderInv, AttemptInv, Settled, header, Kind
<1>10. PassInv'
  BY <1>1 DEF PassInv
<1>11. CardInv'
  BY <1>1, <1>7 DEF ReaderInv, CardInv, header, KindOpen, Kind
<1>12. AreaInv'
  BY <1>1, <1>3, <1>6 DEF AreaInv, KindOpen, Kind
<1>13. QED
  BY <1>8, <1>9, <1>10, <1>11, <1>12 DEF ReaderInv

LEMMA ActivateKey1Inv ==
  ASSUME ReaderInv, ActivateKey1
  PROVE  ReaderInv'
<1>1. /\ pc = "key1" /\ pc' \in {"key2", "final", "plainmode"}
      /\ card' = card /\ dsiMode' = dsiMode /\ attempt' = attempt
      /\ UNCHANGED header /\ cartridgeType' = cartridgeType
      /\ secureArea' = secureArea
      /\ key1' = [key1 EXCEPT !.counter = 0]
      /\ slot' = [mode |-> "key1", table |-> key1.table, counter |-> 0]
      /\ Settled /\ Settled'
  BY DEF ActivateKey1, setup, Settled
<1>2. /\ pc' = "key2" <=> cartridgeType # EMULATED
      /\ pc' = "final" => cartridgeType = EMULATED /\ key1.table = "ntr"
      /\ pc' = "plainmode" => /\ cartridgeType = EMULATED /\ key1.table = "twl"
                              /\ card.twlRegion /\ card.emulated
                                   => secureAreaTWL' = SecureBlocks
  BY DEF ActivateKey1, ReaderInv, ReaderTypeOK, Tables
<1>3. /\ key1 \in [table: Tables, counter: 0..7]
      /\ key1'.table = key1.table /\ key1'.counter = 0
      /\ slot'.mode = "key1" /\ slot'.table = key1.table /\ slot'.counter = 0
  BY <1>1 DEF ReaderInv, ReaderTypeOK
<1>4. KindOpen => ~confused'
  BY <1>1 DEF ActivateKey1, Sent, ReaderInv, CardInv, AreaInv
<1>5. KindOpen => (cartridgeType = EMULATED <=> card.emulated)
  BY <1>1 DEF KindOpen, Kind, ReaderInv, AttemptInv
<1>6. ReaderTypeOK'
  <2>1. key1' \in [table: Tables, counter: 0..7]
    BY <1>1, <1>3
  <2>2. slot' \in [mode: Modes, table: Tables, counter: 0..7]
    BY <1>1, <1>3 DEF Modes
  <2>3. secureAreaTWL' \in Areas /\ twlBlowfish' \in BOOLEAN
    BY DEF ActivateKey1, ReaderInv, ReaderTypeOK, Areas
  <2>4. confused' \in BOOLEAN
    BY DEF ActivateKey1, Sent
  <2>5. QED
    BY <1>1, <2>1, <2>2, <2>3, <2>4 DEF ReaderInv, ReaderTypeOK, header
<1>7. AttemptInv'
  BY <1>1 DEF ReaderInv, AttemptInv, header, Kind
<1>8. PassInv'
  BY <1>1, <1>2, <1>3 DEF PassInv
<1>9. CardInv'
  <2>1. KindOpen' = KindOpen
    BY <1>1 DEF KindOpen, Kind
  <2>2. KindOpen => normalChip' = card.oneT
    BY <1>1 DEF ReaderInv, CardInv, header
  <2>3. KindOpen /\ pc' = "final" => TakesDataRead'
    BY <1>1, <1>2, <1>3, <1>5 DEF TakesDataRead
  <2>4. pc' = "plainmode" => dsiMode /\ twlBlowfish' /\ slot'.table = "twl"
    BY <1>1, <1>2, <1>3 DEF ReaderInv, AreaInv, ActivateKey1
  <2>5. QED
    BY <1>1, <1>2, <1>3, <1>4, <1>5, <2>1, <2>2, <2>3, <2>4 DEF CardInv
<1>10. AreaInv'
  <2>1. KindOpen' = KindOpen
    BY <1>1 DEF KindOpen, Kind
  <2>2. KindOpen /\ pc' = "final" => secureArea.blocks = SecureBlocks
    BY <1>1, <1>2, <1>5 DEF ReaderInv, AreaInv
  <2>3. KindOpen /\ key1.table = "twl"
          => secureArea = [blocks |-> SecureBlocks, plain |-> TRUE]
    BY <1>1 DEF ReaderInv, AreaInv
  <2>4. key1.table = "twl" => dsiMode /\ card.dsi
    BY <1>1 DEF ReaderInv, AreaInv
  <2>5. QED
    BY <1>1, <1>2, <1>3, <1>5, <2>1, <2>2, <2>3, <2>4 DEF AreaInv
<1>11. QED
  BY <1>6, <1>7, <1>8, <1>9, <1>10 DEF ReaderInv

(* A command in the right mode is taken, and both counters move on.        *)
LEMMA KeyCommandTaken ==
  ASSUME ReaderInv, pc \in {"key2", "chipid", "secure", "datamode"},
         NEW before, NEW after \in Modes, KeyCommand(before, after),
         KindOpen => slot.mode = before
  PROVE  /\ KindOpen => ~confused'
         /\ confused' \in BOOLEAN
         /\ key1' \in [table: Tables, counter: 0..7]
         /\ slot' \in [mode: Modes, table: Tables, counter: 0..7]
         /\ key1.counter = slot.counter
         /\ key1'.counter = key1.counter + 1 /\ slot'.counter = slot.counter + 1
         /\ key1'.table = key1.table /\ slot'.table = slot.table
         /\ slot'.mode = after
         /\ slot.table = key1.table
<1>1. /\ key1 \in [table: Tables, counter: 0..7]
      /\ slot \in [mode: Modes, table: Tables, counter: 0..7]
      /\ confused \in BOOLEAN
  BY DEF ReaderInv, ReaderTypeOK
<1>2. /\ key1.counter = slot.counter /\ key1.counter \in 0..6
      /\ slot.table = key1.table /\ cartridgeType # EMULATED
  <2>1. pc = "secure" => Len(Area) \in 0..3
    <3>1. Area \in Areas
      BY DEF Area, ReaderInv, ReaderTypeOK
    <3>2. QED
      BY <3>1, AppendBlock DEF ReaderInv, PassInv
  <2>2. /\ pc = "key2" => key1.counter = 0 /\ slot.counter = 0
        /\ pc = "chipid" => key1.counter = 1 /\ slot.counter = 1
        /\ pc = "secure" => /\ key1.counter = 2 + Len(Area)
                            /\ slot.counter = 2 + Len(Area)
        /\ pc = "datamode" => key1.counter = 6 /\ slot.counter = 6
        /\ slot.table = key1.table /\ cartridgeType # EMULATED
    BY DEF ReaderInv, PassInv
  <2>3. CASE pc \in {"key2", "chipid", "datamode"}
    BY <2>2, <2>3
  <2>4. CASE pc = "secure"
    <3> DEFINE n == Len(Area)
    <3>1. n \in 0..3 /\ key1.counter = 2 + n /\ slot.counter = 2 + n
      BY <2>1, <2>2, <2>4
    <3> HIDE DEF n
    <3>2. QED
      BY <2>2, <3>1
  <2>5. QED
    BY <2>3, <2>4
<1>3. /\ key1' = [key1 EXCEPT !.counter = @ + 1]
      /\ slot' = [slot EXCEPT !.mode = after, !.counter = @ + 1]
  BY DEF KeyCommand
<1>4. KindOpen => ~card.emulated
  BY <1>2 DEF KindOpen, Kind, ReaderInv, AttemptInv, Settled
<1>5. KindOpen => ~confused'
  BY <1>2, <1>4 DEF KeyCommand, Sent, ReaderInv, CardInv
<1>6. confused' \in BOOLEAN
  BY DEF KeyCommand, Sent
<1>7. key1' \in [table: Tables, counter: 0..7]
  BY <1>1, <1>2, <1>3
<1>8. slot' \in [mode: Modes, table: Tables, counter: 0..7]
  <2>1. slot.counter + 1 \in 0..7
    BY <1>2
  <2>2. QED
    BY <1>1, <1>3, <2>1
<1>9. QED
  BY <1>1, <1>2, <1>3, <1>5, <1>6, <1>7, <1>8

LEMMA ActivateKey2Inv ==
  ASSUME ReaderInv, ActivateKey2
  PROVE  ReaderInv'
<1>1. /\ pc = "key2" /\ pc' = "chipid" /\ KeyCommand("key1", "key2")
      /\ card' = card /\ dsiMode' = dsiMode /\ attempt' = attempt
      /\ UNCHANGED header /\ cartridgeType' = cartridgeType
      /\ secureArea' = secureArea /\ secureAreaTWL' = secureAreaTWL
      /\ twlBlowfish' = twlBlowfish
  BY DEF ActivateKey2, setup, areas
<1>2. /\ KindOpen => ~confused'
      /\ confused' \in BOOLEAN
      /\ key1' \in [table: Tables, counter: 0..7]
      /\ slot' \in [mode: Modes, table: Tables, counter: 0..7]
      /\ key1'.counter = 1 /\ slot'.counter = 1
      /\ key1'.table = key1.table /\ slot'.mode = "key2"
      /\ slot'.table = key1'.table
  <2>1. KindOpen => slot.mode = "key1"
    BY <1>1 DEF ReaderInv, CardInv
  <2>2. key1.counter = 0 /\ "key2" \in Modes
    BY <1>1 DEF ReaderInv, PassInv, Modes
  <2>3. QED
    BY <1>1, <2>1, <2>2, KeyCommandTaken
<1>3. ReaderTypeOK'
  BY <1>1, <1>2 DEF ReaderInv, ReaderTypeOK, header
<1>4. AttemptInv'
  BY <1>1 DEF ReaderInv, AttemptInv, header, Kind, Settled
<1>5. PassInv'
  BY <1>1, <1>2 DEF ReaderInv, PassInv
<1>6. CardInv'
  BY <1>1, <1>2 DEF ReaderInv, CardInv, KindOpen, Kind, header
<1>7. AreaInv'
  BY <1>1, <1>2 DEF ReaderInv, AreaInv, KindOpen, Kind, Settled
<1>8. QED
  BY <1>3, <1>4, <1>5, <1>6, <1>7 DEF ReaderInv

LEMMA SecureChipIdInv ==
  ASSUME ReaderInv, SecureChipId
  PROVE  ReaderInv'
<1>1. /\ pc = "chipid" /\ pc' = "secure" /\ KeyCommand("key2", "key2")
      /\ card' = card /\ dsiMode' = dsiMode /\ attempt' = attempt
      /\ UNCHANGED header /\ cartridgeType' = cartridgeType
      /\ twlBlowfish' = twlBlowfish
  BY DEF SecureChipId, setup
<1>2. /\ KindOpen => ~confused'
      /\ confused' \in BOOLEAN
      /\ key1' \in [table: Tables, counter: 0..7]
      /\ slot' \in [mode: Modes, table: Tables, counter: 0..7]
      /\ key1'.counter = 2 /\ slot'.counter = 2
      /\ key1'.table = key1.table /\ slot'.mode = "key2"
      /\ slot'.table = key1'.table
  <2>1. KindOpen => slot.mode = "key2"
    BY <1>1 DEF ReaderInv, CardInv
  <2>2. key1.counter = 1 /\ "key2" \in Modes
    BY <1>1 DEF ReaderInv, PassInv, Modes
  <2>3. QED
    BY <1>1, <2>1, <2>2, KeyCommandTaken
<1>3. /\ secureArea' \in [blocks: Areas, plain: BOOLEAN]
      /\ secureAreaTWL' \in Areas
      /\ key1.table = "twl" => secureArea' = secureArea
  <2>1. << >> \in Areas
    BY DEF Areas
  <2>2. /\ secureArea \in [blocks: Areas, plain: BOOLEAN]
        /\ secureAreaTWL \in Areas
    BY DEF ReaderInv, ReaderTypeOK
  <2>3. CASE key1.table = "ntr"
    <3>1. /\ secureArea' = [blocks |-> << >>, plain |-> FALSE]
          /\ secureAreaTWL' = secureAreaTWL
      BY <2>3 DEF SecureChipId
    <3>2. QED
      BY <2>1, <2>2, <2>3, <3>1
  <2>4. CASE key1.table # "ntr"
    <3>1. secureArea' = secureArea /\ secureAreaTWL' = << >>
      BY <2>4 DEF SecureChipId
    <3>2. QED
      BY <2>1, <2>2, <3>1
  <2>5. QED
    BY <2>3, <2>4
<1>4. Area' = << >>
  BY <1>2 DEF SecureChipId, Area
<1>5. Len(<< >>) = 0 /\ << >> # SecureBlocks
  BY DEF SecureBlocks
<1>6. ReaderTypeOK'
  BY <1>1, <1>2, <1>3 DEF ReaderInv, ReaderTypeOK, header
<1>7. AttemptInv'
  BY <1>1 DEF ReaderInv, AttemptInv, header, Kind, Settled
<1>8. PassInv'
  BY <1>1, <1>2, <1>4, <1>5 DEF ReaderInv, PassInv
<1>9. CardInv'
  BY <1>1, <1>2 DEF ReaderInv, CardInv, KindOpen, Kind, header
<1>10. AreaInv'
  BY <1>1, <1>2, <1>3 DEF ReaderInv, AreaInv, KindOpen, Kind, Settled
<1>11. QED
  BY <1>6, <1>7, <1>8, <1>9, <1>10 DEF ReaderInv

LEMMA ReadSecureBlockInv ==
  ASSUME ReaderInv, ReadSecureBlock
  PROVE  ReaderInv'
<1> DEFINE read == Append(Area, Len(Area) + 4)
<1>1. /\ pc = "secure" /\ KeyCommand("key2", "key2")
      /\ pc' = IF Len(read) = 4 THEN "datamode" ELSE "secure"
      /\ card' = card /\ dsiMode' = dsiMode /\ attempt' = attempt
      /\ UNCHANGED header /\ cartridgeType' = cartridgeType
      /\ twlBlowfish' = twlBlowfish
  BY DEF ReadSecureBlock, setup
<1>2. /\ Area \in Areas /\ Area # SecureBlocks
      /\ key1.counter = 2 + Len(Area)
  BY <1>1 DEF Area, ReaderInv, ReaderTypeOK, PassInv
<1>3. /\ read \in Areas /\ Len(read) = Len(Area) + 1 /\ Len(Area) \in 0..3
      /\ Len(read) = 4 <=> read = SecureBlocks
  BY <1>2, AppendBlock
<1> HIDE DEF read
<1>4. /\ KindOpen => ~confused'
      /\ confused' \in BOOLEAN
      /\ key1' \in [table: Tables, counter: 0..7]
      /\ slot' \in [mode: Modes, table: Tables, counter: 0..7]
      /\ key1'.counter = 2 + Len(read) /\ slot'.counter = 2 + Len(read)
      /\ key1'.table = key1.table /\ slot'.mode = "key2"
      /\ slot'.table = key1'.table
  <2>1. KindOpen => slot.mode = "key2"
    BY <1>1 DEF ReaderInv, CardInv
  <2>2. "key2" \in Modes
    BY DEF Modes
  <2>3. /\ KindOpen => ~confused'
        /\ confused' \in BOOLEAN
        /\ key1' \in [table: Tables, counter: 0..7]
        /\ slot' \in [mode: Modes, table: Tables, counter: 0..7]
        /\ key1.counter = slot.counter
        /\ key1'.counter = key1.counter + 1 /\ slot'.counter = slot.counter + 1
        /\ key1'.table = key1.table /\ slot'.table = slot.table
        /\ slot'.mode = "key2" /\ slot.table = key1.table
    BY <1>1, <2>1, <2>2, KeyCommandTaken
  <2>4. 2 + Len(Area) + 1 = 2 + Len(read)
    BY <1>3
  <2>5. QED
    BY <1>2, <2>3, <2>4
<1>5. /\ secureArea \in [blocks: Areas, plain: BOOLEAN]
      /\ secureAreaTWL \in Areas /\ key1.table \in Tables
  BY DEF ReaderInv, ReaderTypeOK
<1>6. /\ secureArea' \in [blocks: Areas, plain: BOOLEAN]
      /\ secureAreaTWL' \in Areas
      /\ key1.table = "twl" => secureArea' = secureArea
      /\ Area' = read
  BY <1>3, <1>4, <1>5 DEF ReadSecureBlock, Area, read
<1>7. pc' \in {"datamode", "secure"}
  BY <1>1
<1>8. ReaderTypeOK'
  BY <1>1, <1>4, <1>6, <1>7 DEF ReaderInv, ReaderTypeOK, header
<1>9. AttemptInv'
  BY <1>1, <1>7 DEF ReaderInv, AttemptInv, header, Kind, Settled
<1>10. PassInv'
  <2>1. cartridgeType # EMULATED
    BY <1>1 DEF ReaderInv, PassInv
  <2>2. CASE Len(read) = 4
    <3>1. pc' = "datamode" /\ 2 + Len(read) = 6
      BY <1>1, <2>2
    <3>2. QED
      BY <1>1, <1>3, <1>4, <1>6, <2>1, <2>2, <3>1 DEF PassInv
  <2>3. CASE Len(read) # 4
    BY <1>1, <1>3, <1>4, <1>6, <2>1, <2>3 DEF PassInv
  <2>4. QED
    BY <2>2, <2>3
<1>11. CardInv'
  BY <1>1, <1>4, <1>7 DEF ReaderInv, CardInv, KindOpen, Kind, header
<1>12. AreaInv'
  BY <1>1, <1>4, <1>6, <1>7 DEF ReaderInv, AreaInv, KindOpen, Kind, Settled
<1>13. QED
  BY <1>8, <1>9, <1>10, <1>11, <1>12 DEF ReaderInv

LEMMA EnterDataModeInv ==
  ASSUME ReaderInv, EnterDataMode
  PROVE  ReaderInv'
<1>1. /\ pc = "datamode" /\ KeyCommand("key2", "data")
      /\ pc' = IF key1.table = "ntr" THEN "final" ELSE "banner"
      /\ twlBlowfish' = (key1.table = "twl")
      /\ card' = card /\ dsiMode' = dsiMode /\ attempt' = attempt
      /\ UNCHANGED header /\ cartridgeType' = cartridgeType
      /\ secureArea' = secureArea /\ secureAreaTWL' = secureAreaTWL
  BY DEF EnterDataMode, setup, areas
<1>2. /\ KindOpen => ~confused'
      /\ confused' \in BOOLEAN
      /\ key1' \in [table: Tables, counter: 0..7]
      /\ slot' \in [mode: Modes, table: Tables, counter: 0..7]
      /\ key1'.table = key1.table /\ slot'.mode = "data"
      /\ slot'.table = key1'.table
  <2>1. KindOpen => slot.mode = "key2"
    BY <1>1 DEF ReaderInv, CardInv
  <2>2. "data" \in Modes
    BY DEF Modes
  <2>3. QED
    BY <1>1, <2>1, <2>2, KeyCommandTaken
<1>3. /\ Area = SecureBlocks /\ key1.table \in {"ntr", "twl"}
      /\ pc' \in {"final", "banner"} /\ cartridgeType # EMULATED
  BY <1>1 DEF ReaderInv, PassInv, ReaderTypeOK, Tables
<1>4. ReaderTypeOK'
  BY <1>1, <1>2, <1>3 DEF ReaderInv, ReaderTypeOK, header
<1>5. AttemptInv'
  BY <1>1, <1>3 DEF ReaderInv, AttemptInv, header, Kind, Settled
<1>6. PassInv'
  BY <1>1, <1>2, <1>3 DEF PassInv
<1>7. CardInv'
  <2>1. KindOpen' = KindOpen
    BY <1>1 DEF KindOpen, Kind
  <2>2. TakesDataRead'
    BY <1>2 DEF TakesDataRead
  <2>3. KindOpen => normalChip' = card.oneT
    BY <1>1 DEF ReaderInv, CardInv, header
  <2>4. pc' = "banner" => twlBlowfish' /\ slot'.table = "twl"
    BY <1>1, <1>2, <1>3
  <2>5. QED
    BY <1>1, <1>2, <1>3, <2>1, <2>2, <2>3, <2>4 DEF CardInv
<1>8. AreaInv'
  <2>1. KindOpen' = KindOpen /\ Settled
    BY <1>1 DEF KindOpen, Kind, Settled
  <2>2. key1.table = "ntr" => secureArea.blocks = SecureBlocks
    BY <1>3 DEF Area
  <2>3. key1.table = "twl" =>
          /\ secureAreaTWL = SecureBlocks
          /\ dsiMode /\ card.dsi
          /\ KindOpen => secureArea = [blocks |-> SecureBlocks, plain |-> TRUE]
    BY <1>3, <2>1 DEF Area, ReaderInv, AreaInv
  <2>4. QED
    BY <1>1, <1>2, <1>3, <2>1, <2>2, <2>3 DEF AreaInv
<1>9. QED
  BY <1>4, <1>5, <1>6, <1>7, <1>8 DEF ReaderInv

LEMMA FinalSetupInv ==
  ASSUME ReaderInv, FinalSetup
  PROVE  ReaderInv'
<1>1. /\ pc = "final" /\ pc' \in {"twl", "plainmode", "banner"}
      /\ pc' = "twl" <=> dsiMode /\ card.dsi
      /\ pc' = "plainmode" => dsiMode /\ cartridgeType = EMULATED
      /\ card' = card /\ dsiMode' = dsiMode /\ attempt' = attempt
      /\ UNCHANGED header /\ cartridgeType' = cartridgeType
      /\ secureArea' = [secureArea EXCEPT !.plain = TRUE]
      /\ secureAreaTWL' = secureAreaTWL /\ twlBlowfish' = twlBlowfish
      /\ key1' = key1 /\ slot' = slot /\ confused' = confused
  BY DEF FinalSetup, setup
<1>2. /\ secureArea' \in [blocks: Areas, plain: BOOLEAN]
      /\ KindOpen => secureArea' = [blocks |-> SecureBlocks, plain |-> TRUE]
  BY <1>1 DEF ReaderInv, ReaderTypeOK, AreaInv
<1>3. key1.table = "ntr" /\ Settled
  BY <1>1 DEF ReaderInv, PassInv, Settled
<1>4. KindOpen => (cartridgeType = EMULATED <=> card.emulated)
  BY <1>3 DEF KindOpen, Kind, ReaderInv, AttemptInv
<1>5. KindOpen' = KindOpen
  BY <1>1 DEF KindOpen, Kind
<1>6. ReaderTypeOK'
  BY <1>1, <1>2 DEF ReaderInv, ReaderTypeOK, header
<1>7. AttemptInv'
  BY <1>1, <1>3 DEF ReaderInv, AttemptInv, header, Kind, Settled
<1>8. PassInv'
  BY <1>1 DEF PassInv
<1>9. CardInv'
  <2>1. KindOpen => ~confused /\ TakesDataRead /\ normalChip = card.oneT
    BY <1>1 DEF ReaderInv, CardInv
  <2>2. TakesDataRead' = TakesDataRead
    BY <1>1 DEF TakesDataRead
  <2>3. QED
    BY <1>1, <1>4, <1>5, <2>1, <2>2 DEF CardInv, header
<1>10. AreaInv'
  BY <1>1, <1>2, <1>3, <1>5 DEF AreaInv
<1>11. QED
  BY <1>6, <1>7, <1>8, <1>9, <1>10 DEF ReaderInv

LEMMA SwitchToTwlInv ==
  ASSUME ReaderInv, SwitchToTwl
  PROVE  ReaderInv'
<1>1. /\ pc = "twl" /\ pc' = "key1"
      /\ card' = card /\ dsiMode' = dsiMode /\ attempt' = attempt
      /\ UNCHANGED header /\ cartridgeType' = cartridgeType
      /\ secureArea' = secureArea /\ secureAreaTWL' = secureAreaTWL
      /\ twlBlowfish' = twlBlowfish /\ confused' = confused
      /\ key1' = [key1 EXCEPT !.table = "twl"] /\ slot' = RawSlot
  BY DEF SwitchToTwl, setup, areas
<1>2. /\ key1' \in [table: Tables, counter: 0..7] /\ key1'.table = "twl"
      /\ slot' \in [mode: Modes, table: Tables, counter: 0..7]
      /\ slot'.mode = "raw"
  <2>1. "twl" \in Tables /\ key1 \in [table: Tables, counter: 0..7]
    BY DEF Tables, ReaderInv, ReaderTypeOK
  <2>2. slot' = [mode |-> "raw", table |-> "ntr", counter |-> 0]
    BY <1>1 DEF RawSlot
  <2>3. QED
    BY <1>1, <2>1, <2>2 DEF Modes, Tables
<1>3. ReaderTypeOK'
  BY <1>1, <1>2 DEF ReaderInv, ReaderTypeOK, header
<1>4. AttemptInv'
  BY <1>1 DEF ReaderInv, AttemptInv, header, Kind, Settled
<1>5. PassInv'
  BY <1>1 DEF PassInv
<1>6. KindOpen' = KindOpen
  BY <1>1 DEF KindOpen, Kind
<1>7. CardInv'
  <2>1. KindOpen => ~confused /\ normalChip = card.oneT
    BY <1>1 DEF ReaderInv, CardInv
  <2>2. QED
    BY <1>1, <1>2, <1>6, <2>1 DEF CardInv, header
<1>8. AreaInv'
  <2>1. dsiMode /\ card.dsi
    BY <1>1 DEF ReaderInv, PassInv
  <2>2. KindOpen => secureArea = [blocks |-> SecureBlocks, plain |-> TRUE]
    BY <1>1 DEF ReaderInv, AreaInv
  <2>3. QED
    BY <1>1, <1>2, <1>6, <2>1, <2>2 DEF AreaInv
<1>9. QED
  BY <1>3, <1>4, <1>5, <1>7, <1>8 DEF ReaderInv

LEMMA PlainDataModeInv ==
  ASSUME ReaderInv, PlainDataMode
  PROVE  ReaderInv'
<1>1. /\ pc = "plainmode" /\ pc' = "banner"
      /\ card' = card /\ dsiMode' = dsiMode /\ attempt' = attempt
      /\ UNCHANGED header /\ cartridgeType' = cartridgeType
      /\ secureArea' = secureArea /\ secureAreaTWL' = secureAreaTWL
      /\ twlBlowfish' = twlBlowfish /\ key1' = key1
      /\ slot' = [slot EXCEPT !.mode = "data"]
  BY DEF PlainDataMode, setup, areas
<1>2. /\ slot' \in [mode: Modes, table: Tables, counter: 0..7]
      /\ slot'.mode = "data" /\ slot'.table = slot.table
  BY <1>1 DEF ReaderInv, ReaderTypeOK, Modes
<1>3. confused' \in BOOLEAN /\ (KindOpen => ~confused')
  BY <1>1 DEF PlainDataMode, Sent, ReaderInv, CardInv
<1>4. ReaderTypeOK'
  BY <1>1, <1>2, <1>3 DEF ReaderInv, ReaderTypeOK, header
<1>5. AttemptInv'
  BY <1>1 DEF ReaderInv, AttemptInv, header, Kind, Settled
<1>6. PassInv'
  BY <1>1 DEF PassInv
<1>7. KindOpen' = KindOpen
  BY <1>1 DEF KindOpen, Kind
<1>8. CardInv'
  <2>1. KindOpen /\ dsiMode /\ card.dsi => twlBlowfish /\ slot.table = "twl"
    BY <1>1 DEF ReaderInv, CardInv
  <2>2. QED
    BY <1>1, <1>2, <1>3, <1>7, <2>1 DEF CardInv, TakesDataRead
<1>9. AreaInv'
  BY <1>1, <1>7 DEF ReaderInv, AreaInv, Settled
<1>10. QED
  BY <1>4, <1>5, <1>6, <1>8, <1>9 DEF ReaderInv

(* The reads in main data mode change nothing but the place in the code.   *)
LEMMA ReadsInv ==
  ASSUME ReaderInv, ReadBanner \/ LoadBinaries \/ LoadTwlBinaries
  PROVE  ReaderInv'
<1>1. /\ pc \in {"banner", "load", "loadi"} /\ pc' \in {"load", "loadi", "done"}
      /\ card' = card /\ dsiMode' = dsiMode /\ attempt' = attempt
      /\ UNCHANGED header /\ cartridgeType' = cartridgeType
      /\ secureArea' = secureArea /\ secureAreaTWL' = secureAreaTWL
      /\ twlBlowfish' = twlBlowfish /\ key1' = key1 /\ slot' = slot
  BY DEF ReadBanner, LoadBinaries, LoadTwlBinaries, setup, areas
<1>2. KindOpen =>
        /\ ~confused /\ TakesDataRead
        /\ dsiMode /\ card.dsi => twlBlowfish /\ slot.table = "twl"
  BY <1>1 DEF ReaderInv, CardInv
<1>3. confused' \in BOOLEAN /\ (KindOpen => ~confused')
  <2>1. CASE ReadBanner \/ LoadBinaries
    BY <1>2, <2>1 DEF ReadBanner, LoadBinaries, Sent
  <2>2. CASE LoadTwlBinaries
    BY <1>2, <2>2 DEF LoadTwlBinaries, Sent
  <2>3. QED
    BY <2>1, <2>2
<1>4. ReaderTypeOK'
  BY <1>1, <1>3 DEF ReaderInv, ReaderTypeOK, header
<1>5. AttemptInv'
  BY <1>1 DEF ReaderInv, AttemptInv, header, Kind, Settled
<1>6. PassInv'
  BY <1>1 DEF PassInv
<1>7. KindOpen' = KindOpen /\ TakesDataRead' = TakesDataRead
  BY <1>1 DEF KindOpen, Kind, TakesDataRead
<1>8. CardInv'
  BY <1>1, <1>2, <1>3, <1>7 DEF CardInv
<1>9. AreaInv'
  BY <1>1, <1>7 DEF ReaderInv, AreaInv, Settled
<1>10. QED
  BY <1>4, <1>5, <1>6, <1>8, <1>9 DEF ReaderInv

LEMMA RetryInv ==
  ASSUME ReaderInv, Retry
  PROVE  ReaderInv'
<1>1. /\ pc = "failed" /\ pc' = (IF attempt < 2 THEN "init" ELSE "unread")
      /\ pc' \in {"init", "unread"} /\ attempt \in 1..2
      /\ card' = card /\ dsiMode' = dsiMode /\ attempt' = attempt
      /\ UNCHANGED header /\ cartridgeType' = cartridgeType
      /\ secureArea' = secureArea /\ secureAreaTWL' = secureAreaTWL
      /\ twlBlowfish' = twlBlowfish /\ key1' = key1 /\ slot' = slot
      /\ confused' = confused
  BY DEF Retry, setup, areas, ReaderInv, AttemptInv, ReaderTypeOK
<1>2. ReaderTypeOK'
  BY <1>1 DEF ReaderInv, ReaderTypeOK, header
<1>3. AttemptInv'
  BY <1>1 DEF ReaderInv, AttemptInv, header, Kind, KindOpen, Settled
<1>4. PassInv' /\ AreaInv'
  BY <1>1 DEF PassInv, AreaInv, Settled
<1>5. CardInv'
  BY <1>1 DEF ReaderInv, CardInv, KindOpen, Kind
<1>6. QED
  BY <1>2, <1>3, <1>4, <1>5 DEF ReaderInv

(* A boot that goes on without a header: all that can go wrong with the    *)
(* card goes wrong here.                                                   *)
LEMMA GoOnInv ==
  ASSUME ReaderInv, GoOn
  PROVE  ReaderInv'
<1>1. /\ pc = "unread" /\ pc' \in {"rubbish", "over"} /\ (pc' = "rubbish" => dsiMode)
      /\ card' = card /\ dsiMode' = dsiMode /\ attempt' = attempt
      /\ UNCHANGED header /\ cartridgeType' = cartridgeType
      /\ secureArea' = secureArea /\ secureAreaTWL' = secureAreaTWL
      /\ twlBlowfish' = twlBlowfish /\ key1' = key1 /\ slot' = slot
      /\ confused' = confused
  BY DEF GoOn, setup, areas
<1>2. ReaderTypeOK'
  BY <1>1 DEF ReaderInv, ReaderTypeOK, header
<1>3. AttemptInv'
  BY <1>1 DEF ReaderInv, AttemptInv, header, Kind, KindOpen, Settled
<1>4. PassInv' /\ AreaInv'
  BY <1>1 DEF PassInv, AreaInv, Settled
<1>5. CardInv'
  BY <1>1 DEF ReaderInv, CardInv, KindOpen, Kind
<1>6. QED
  BY <1>2, <1>3, <1>4, <1>5 DEF ReaderInv

LEMMA RubbishInv ==
  ASSUME ReaderInv, LateSwitch \/ RubbishRead \/ RubbishEnds
  PROVE  ReaderInv'
<1>1. /\ pc = "rubbish" /\ pc' \in {"rubbish", "over"}
      /\ card' = card /\ dsiMode' = dsiMode /\ attempt' = attempt
      /\ UNCHANGED header /\ cartridgeType' = cartridgeType
      /\ secureArea' = secureArea
  BY DEF LateSwitch, RubbishRead, RubbishEnds, setup, areas
<1>2. /\ secureAreaTWL' \in Areas /\ twlBlowfish' \in BOOLEAN
      /\ key1' \in [table: Tables, counter: 0..7]
      /\ slot' \in [mode: Modes, table: Tables, counter: 0..7]
      /\ confused' \in BOOLEAN
  <2>1. CASE LateSwitch
    BY <2>1 DEF LateSwitch, Sent, ReaderInv, ReaderTypeOK, Areas, Tables, Modes
  <2>2. CASE RubbishRead \/ RubbishEnds
    BY <2>2 DEF RubbishRead, RubbishEnds, Sent, areas, ReaderInv, ReaderTypeOK
  <2> QED
    BY <2>1, <2>2 DEF LateSwitch, RubbishRead, RubbishEnds
<1>3. dsiMode
  BY <1>1 DEF ReaderInv, PassInv
<1>4. ReaderTypeOK'
  BY <1>1, <1>2 DEF ReaderInv, ReaderTypeOK, header
<1>5. AttemptInv'
  BY <1>1 DEF ReaderInv, AttemptInv, header, Kind, KindOpen, Settled
<1>6. PassInv' /\ AreaInv'
  BY <1>1, <1>3 DEF PassInv, AreaInv, Settled
<1>7. CardInv'
  BY <1>1, <1>3 DEF CardInv
<1>8. QED
  BY <1>4, <1>5, <1>6, <1>7 DEF ReaderInv

LEMMA StutterInv ==
  ASSUME ReaderInv, UNCHANGED readerVars
  PROVE  ReaderInv'
<1> USE DEF readerVars, setup, header, areas
<1>1. ReaderTypeOK'
  BY DEF ReaderInv, ReaderTypeOK
<1>2. AttemptInv'
  BY DEF ReaderInv, AttemptInv, KindOpen, Kind, Settled
<1>3. PassInv'
  BY DEF ReaderInv, PassInv, Area
<1>4. CardInv'
  BY DEF ReaderInv, CardInv, KindOpen, Kind, TakesDataRead
<1>5. AreaInv'
  BY DEF ReaderInv, AreaInv, KindOpen, Kind, Settled
<1>6. QED
  BY <1>1, <1>2, <1>3, <1>4, <1>5 DEF ReaderInv

(* The invariant holds in every reachable state.                           *)
THEOREM ReaderInvariance == ReaderSpec => []ReaderInv
<1>1. ReaderInv /\ [ReaderNext]_readerVars => ReaderInv'
  BY ResetSlotInv, ReadHeaderInv, DetectTypeInv, ActivateKey1Inv,
     ActivateKey2Inv, SecureChipIdInv, ReadSecureBlockInv, EnterDataModeInv,
     FinalSetupInv, SwitchToTwlInv, PlainDataModeInv, ReadsInv, RetryInv,
     GoOnInv, RubbishInv, StutterInv DEF ReaderNext, Finished
<1>2. QED
  BY InitReaderInv, <1>1, PTL DEF ReaderSpec

(* Neither the command counter nor the secure area's buffer runs over.     *)
THEOREM ReaderTypeCorrect == ReaderSpec => []ReaderTypeOK
<1>1. ReaderInv => ReaderTypeOK
  BY DEF ReaderInv
<1>2. QED
  BY <1>1, ReaderInvariance, PTL

(* A card taken for what it is gets no command it does not take, but from  *)
(* a boot that goes on in DSi mode when neither attempt gave a header.     *)
THEOREM CardUnderstands == ReaderSpec => []Understood
<1>1. ReaderInv => Understood
  BY DEF ReaderInv, AttemptInv, CardInv, KindOpen, Understood
<1>2. QED
  BY <1>1, ReaderInvariance, PTL

(* A card read rightly at the first attempt is taken for what it is.       *)
THEOREM DetectionRight == ReaderSpec => []DetectedRight
<1>1. ReaderInv => DetectedRight
  BY DEF ReaderInv, AttemptInv, DetectedRight
<1>2. QED
  BY <1>1, ReaderInvariance, PTL

(* A card that is taken for another kind than it is was read at the second *)
(* attempt, shows its bytes at 0xE00, and its header there was cleared as  *)
(* if it were FFs (fullHeaderRead, isCartridgeEmulated).                   *)
OnlyCleared ==
  Settled /\ cartridgeType # Kind(card)
    => attempt = 2 /\ card.mirror = "e00" /\ ndsHeader.ext = "zero"
RetryInvariant ==
  /\ OnlyCleared
  /\ pc = "detect" /\ card.extended => ndsHeader.ext \in {card.ext, "zero"}

(* A good header is stored as it is, or with FFs behind it that are none.  *)
LEMMA HeaderStored ==
  ASSUME ReaderInv, RetryInvariant, ReadHeader
  PROVE  RetryInvariant'
<1>1. card' = card /\ pc = "header" /\ pc' \in {"detect", "failed"}
  BY DEF ReadHeader, setup
<1>2. OnlyCleared'
  BY <1>1 DEF OnlyCleared, Settled
<1>3. ASSUME pc' = "detect", card.extended
      PROVE  ndsHeader'.ext \in {card.ext, "zero"}
  <2>1. PICK got \in FirstParts \ {"none"}, extNoise \in BOOLEAN, idNoise \in BOOLEAN :
          /\ HeadersRead(got, Extended(got, extNoise))
          /\ pc' = IF got = "card" THEN "detect" ELSE "failed"
    BY DEF ReadHeader
  <2>2. got = "card"
    BY <1>3, <2>1
  <2>3. Extended(got, extNoise)
    BY <1>3, <2>2 DEF Extended
  <2>4. /\ headerData' = [first |-> got,
                          ext |-> IF ndsHeader.ext = "ff" THEN "zero"
                                  ELSE IF got = "card" THEN card.ext ELSE got]
        /\ ndsHeader' = headerData'
    BY <2>1, <2>3 DEF HeadersRead
  <2> QED
    BY <2>2, <2>4
<1> QED
  BY <1>1, <1>2, <1>3 DEF RetryInvariant

(* The comparison fails for a retail card only with a header that was      *)
(* cleared.                                                                *)
LEMMA DetectedUnlessCleared ==
  ASSUME ReaderInv, RetryInvariant, DetectType
  PROVE  RetryInvariant'
<1>1. /\ card' = card /\ attempt' = attempt /\ ndsHeader' = ndsHeader
      /\ pc = "detect" /\ pc' = "key1"
      /\ cartridgeType' = IF cartridgeType # AUTODETECT THEN cartridgeType
                          ELSE IF IsCartridgeEmulated THEN EMULATED ELSE RETAIL
  BY DEF DetectType, setup, header
<1>2. /\ card \in CardType /\ attempt \in 0..2 /\ attempt # 0 /\ KindOpen
      /\ attempt = 1 /\ card.extended => ndsHeader.ext = card.ext
      /\ card.extended => ndsHeader.ext \in {card.ext, "zero"}
  BY <1>1 DEF ReaderInv, ReaderTypeOK, AttemptInv, RetryInvariant
<1>3. /\ card.mirror \in {"start", "e00", "mark", "else"} /\ card.emulated \in BOOLEAN
      /\ card.mirror = "e00" => card.extended
      /\ card.emulated <=> card.mirror \in {"mark", "else"}
  BY <1>2 DEF CardType
<1>4. ASSUME cartridgeType' # Kind(card)
      PROVE  attempt = 2 /\ card.mirror = "e00" /\ ndsHeader.ext = "zero"
  <2>1. cartridgeType = AUTODETECT
    BY <1>1, <1>2, <1>4 DEF KindOpen
  <2>2. cartridgeType' = IF IsCartridgeEmulated THEN EMULATED ELSE RETAIL
    BY <1>1, <2>1
  <2>3. IsCartridgeEmulated # card.emulated
    BY <1>3, <1>4, <2>2 DEF Kind
  <2>4. card.mirror = "e00" /\ ndsHeader.ext # card.ext
    BY <1>3, <2>3 DEF IsCartridgeEmulated
  <2> QED
    BY <1>2, <1>3, <2>4
<1>5. OnlyCleared'
  BY <1>1, <1>4 DEF OnlyCleared, Kind
<1> QED
  BY <1>1, <1>5 DEF RetryInvariant

(* Whatever the first attempt left in memory, a card whose header comes    *)
(* right at the second is taken for what it is, but for one that shows its *)
(* bytes at 0xE00 after FFs were left (isCartridgeEmulated).               *)
THEOREM RetryRecognises == ReaderSpec => []OnlyCleared
<1>1. ReaderInit => RetryInvariant
  BY DEF ReaderInit, RetryInvariant, OnlyCleared, Settled
<1>2. ReaderInv /\ RetryInvariant /\ [ReaderNext]_readerVars => RetryInvariant'
  <2> SUFFICES ASSUME ReaderInv, RetryInvariant, [ReaderNext]_readerVars
               PROVE  RetryInvariant'
    OBVIOUS
  <2>1. CASE ReadHeader
    BY <2>1, HeaderStored
  <2>2. CASE DetectType
    BY <2>2, DetectedUnlessCleared
  <2>3. CASE ResetSlot
    BY <2>3 DEF ResetSlot, RetryInvariant, OnlyCleared, Settled
  <2>4. CASE ~(ReadHeader \/ DetectType \/ ResetSlot)
    <3>1. /\ card' = card /\ attempt' = attempt /\ ndsHeader' = ndsHeader
          /\ cartridgeType' = cartridgeType
      BY <2>4 DEF ReaderNext, ActivateKey1, ActivateKey2, SecureChipId, ReadSecureBlock,
         EnterDataMode, FinalSetup, SwitchToTwl, PlainDataMode, ReadBanner, Retry,
         LoadBinaries, LoadTwlBinaries, GoOn, LateSwitch, RubbishRead,
         RubbishEnds, Finished, readerVars, setup, header
    <3>2. (Settled' => Settled) /\ (pc' = "detect" => pc = "detect")
      BY <2>4 DEF ReaderNext, ActivateKey1, ActivateKey2, SecureChipId, ReadSecureBlock,
         EnterDataMode, FinalSetup, SwitchToTwl, PlainDataMode, ReadBanner, Retry,
         LoadBinaries, LoadTwlBinaries, GoOn, LateSwitch, RubbishRead,
         RubbishEnds, Finished, readerVars, Settled
    <3> QED
      BY <3>1, <3>2 DEF RetryInvariant, OnlyCleared, Kind
  <2> QED
    BY <2>1, <2>2, <2>3, <2>4
<1>3. RetryInvariant => OnlyCleared
  BY DEF RetryInvariant
<1> QED
  BY <1>1, <1>2, <1>3, ReaderInvariance, PTL DEF ReaderSpec

(* The binaries are read with header and secure areas in place.            *)
THEOREM AreasReady == ReaderSpec => []AreasInPlace
<1>1. ReaderInv => AreasInPlace
  BY DEF ReaderInv, AttemptInv, AreaInv, AreasInPlace, KindOpen, Settled
<1>2. QED
  BY <1>1, ReaderInvariance, PTL

-----------------------------------------------------------------------------
(* The binaries.                                                           *)

(* A stage is only come to for what is to be loaded.                       *)
StageInv ==
  /\ stage \in DsiBinaries => DsiMode(game)
  /\ stage \in {"key9i", "crypt9i", "key7i", "crypt7i"} =>
       DsiMode(game) /\ game.ciphered

IInv == game \in Games /\ TypeOK /\ StageInv /\ NothingElse

-----------------------------------------------------------------------------

(* Arithmetic.                                                             *)

(* Smaller by one at least, smaller by b at least after multiplication.    *)
LEMMA Product ==
  ASSUME NEW b \in Nat, NEW x \in Int, NEW y \in Int, x < y
  PROVE  b * x + b <= b * y
<1>1. y - x - 1 \in Nat
  OBVIOUS
<1>2. b * (y - x - 1) \in Nat
  BY <1>1
<1>3. b * (y - x - 1) = b * y - b * x - b
  OBVIOUS
<1>4. b * x \in Int /\ b * y \in Int
  OBVIOUS
<1> QED BY <1>2, <1>3, <1>4

(* Quotient and remainder make up the number.                              *)
LEMMA Division ==
  ASSUME NEW n \in Int, NEW b \in Nat \ {0}
  PROVE  /\ n \div b \in Int /\ n % b \in 0..b - 1
         /\ n = (b * (n \div b)) + (n % b)
OBVIOUS

(* And nothing else does.                                                  *)
LEMMA Unique ==
  ASSUME NEW b \in Nat \ {0}, NEW q \in Int, NEW r \in 0..b - 1,
         NEW n \in Int, n = b * q + r
  PROVE  n \div b = q /\ n % b = r
<1> DEFINE p == n \div b  s == n % b
<1>1. p \in Int /\ s \in 0..b - 1 /\ n = b * p + s
  BY Division
<1> HIDE DEF p, s
<1>2. b * p \in Int /\ b * q \in Int
  BY <1>1
<1>3. ~(p < q)
  BY <1>1, <1>2, Product
<1>4. ~(q < p)
  BY <1>1, <1>2, Product
<1>5. p = q
  BY <1>1, <1>3, <1>4
<1>6. s = r
  BY <1>1, <1>2, <1>5
<1> QED BY <1>5, <1>6 DEF p, s

(* From a place before a boundary, the next boundary is not passed.        *)
LEMMA Boundary ==
  ASSUME NEW b \in Nat \ {0}, NEW e \in Nat, e % b = 0,
         NEW s \in Nat, s < e, NEW k \in Nat, k < b - (s % b)
  PROVE  s + k < e
<1> DEFINE p == e \div b  q == s \div b  r == s % b
<1>1. p \in Int /\ e = b * p
  BY Division
<1>2. q \in Int /\ r \in 0..b - 1 /\ s = b * q + r
  BY Division
<1> HIDE DEF p, q, r
<1>3. b * p \in Int /\ b * q \in Int
  BY <1>1, <1>2
<1>4. q < p
  <2> SUFFICES ASSUME p <= q PROVE FALSE
    BY <1>1, <1>2
  <2>1. p = q \/ b * p + b <= b * q
    BY <1>1, <1>2, Product
  <2> QED BY <1>1, <1>2, <1>3, <2>1
<1>5. b * q + b <= b * p
  BY <1>1, <1>2, <1>4, Product
<1>6. k < b - r
  BY DEF r
<1> QED BY <1>1, <1>2, <1>3, <1>5, <1>6

(* The place in a page tells the place in a block.                         *)
LEMMA Remainder ==
  ASSUME NEW b \in Nat \ {0}, NEW p \in Nat \ {0}, p % b = 0, NEW s \in Nat
  PROVE  (s % p) % b = s % b
<1> DEFINE m == p \div b  q == s \div p  t == s % p  u == t \div b  r == t % b
<1>1. m \in Int /\ p = b * m
  BY Division
<1>2. q \in Int /\ t \in 0..p - 1 /\ s = p * q + t
  BY Division
<1>3. u \in Int /\ r \in 0..b - 1 /\ t = b * u + r
  BY <1>2, Division
<1> HIDE DEF m, q, t, u, r
<1>4. s = b * (m * q + u) + r
  <2>1. p * q = b * (m * q)
    BY <1>1, <1>2
  <2>2. b * (m * q + u) = b * (m * q) + b * u
    BY <1>1, <1>2, <1>3
  <2>3. b * (m * q) \in Int /\ b * u \in Int
    BY <1>1, <1>2, <1>3
  <2> QED BY <1>2, <1>3, <2>1, <2>2, <2>3
<1>5. m * q + u \in Int
  BY <1>1, <1>2, <1>3
<1>6. ASSUME NEW w \in Int, s = b * w + r
      PROVE  s % b = r
  BY <1>3, <1>6, Unique
<1>7. s % b = r
  BY <1>4, <1>5, <1>6
<1> QED BY <1>7 DEF r, t

(* What is read up to the next boundary does not wrap around in its page.  *)
LEMMA InPage ==
  ASSUME NEW src \in Nat, NEW k \in Nat, k < Block - (src % Block)
  PROVE  Wrapped(src, k) = src + k
<1> DEFINE q == src \div Page  t == src % Page
<1>1. Block \in Nat \ {0} /\ Page \in Nat \ {0} /\ Page % Block = 0
  BY BinaryLoaderAssumption
<1>2. q \in Int /\ t \in 0..Page - 1 /\ src = (Page * q) + t
  BY <1>1, Division
<1>3. t % Block = src % Block
  BY <1>1, Remainder
<1> HIDE DEF q, t
<1>4. t \in Nat /\ t < Page /\ k < Block - (t % Block)
  BY <1>1, <1>2, <1>3
<1>5. t + k < Page
  BY <1>1, <1>4, Boundary
<1>6. src + k = (Page * q) + (t + k)
  <2>1. Page * q \in Int
    BY <1>1, <1>2
  <2> QED BY <1>2, <2>1
<1>7. t + k \in 0..Page - 1 /\ src + k \in Int
  BY <1>1, <1>4, <1>5
<1>8. (src + k) % Page = t + k
  BY <1>1, <1>2, <1>6, <1>7, Unique, SMTT(30)
<1>9. src - t + (t + k) = src + k
  BY <1>4
<1> QED BY <1>8, <1>9 DEF t, Wrapped

(* The quotient by w of what is below w squared is a digit.                *)
LEMMA HighDigit ==
  ASSUME NEW w \in Nat \ {0}, NEW v \in Nat, v < w * w
  PROVE  v \div w \in 0..w - 1
<1> DEFINE q == v \div w
<1>1. q \in Nat /\ w * q <= v
  OBVIOUS
<1>2. ASSUME q >= w PROVE FALSE
  <2> HIDE DEF q
  <2>1. w * q >= w * w
    BY <1>1, <1>2
  <2> QED BY <1>1, <2>1
<1> QED BY <1>1, <1>2

(* Counting on modulo m.                                                   *)
LEMMA NextRemainder ==
  ASSUME NEW n \in Int, NEW m \in Nat \ {0}
  PROVE  (n + 1) % m = IF (n % m) + 1 = m THEN 0 ELSE (n % m) + 1
<1> DEFINE q == n \div m  v == n % m
<1>1. q \in Int /\ v \in 0..m - 1 /\ n = (m * q) + v
  BY Division
<1> HIDE DEF q, v
<1>2. m * q \in Int
  BY <1>1
<1>3. CASE v + 1 = m
  <2>1. n + 1 = (m * (q + 1)) + 0
    <3>1. m * (q + 1) = (m * q) + m
      BY <1>1
    <3> QED BY <1>1, <1>2, <1>3, <3>1
  <2>2. (n + 1) % m = 0
    <3>1. q + 1 \in Int /\ 0 \in 0..m - 1 /\ n + 1 \in Int
      BY <1>1
    <3> QED BY <2>1, <3>1, Unique, ZenonT(60)
  <2> QED BY <1>3, <2>2 DEF v
<1>4. CASE v + 1 # m
  <2>1. v + 1 \in 0..m - 1 /\ n + 1 = (m * q) + (v + 1) /\ n + 1 \in Int
    BY <1>1, <1>2, <1>4
  <2>2. (n + 1) % m = v + 1
    BY <1>1, <2>1, Unique, SMTT(30)
  <2> QED BY <1>4, <2>2 DEF v
<1> QED BY <1>3, <1>4

(* Counting on in two digits, with a carry when the lower one falls.       *)
LEMMA NextDigits ==
  ASSUME NEW w \in Nat, w > 1, NEW v \in Nat, v < w * w,
         NEW x, x = IF v + 1 = w * w THEN 0 ELSE v + 1
  PROVE  LET lo == ((v % w) + 1) % w
             carry == IF lo < v % w THEN 1 ELSE 0
         IN /\ x % w = lo
            /\ x \div w = ((v \div w) + carry) % w
<1> DEFINE h == v \div w  l == v % w
<1>0. w \in Nat \ {0}
  OBVIOUS
<1>1. h \in Int /\ l \in 0..w - 1 /\ v = (w * h) + l
  BY <1>0, Division
<1>2. h \in 0..w - 1
  BY <1>0, HighDigit
<1> HIDE DEF h, l
<1>3. w * h \in Int /\ w * w \in Nat /\ (w * h) + w <= w * w
  BY <1>0, <1>2, Product
<1>4. CASE l + 1 < w
  <2>1. (l + 1) % w = l + 1 /\ h % w = h
    BY <1>0, <1>1, <1>2, <1>4
  <2>2. x = (w * h) + (l + 1) /\ x \in Int /\ l + 1 \in 0..w - 1
    BY <1>1, <1>3, <1>4
  <2>3. x % w = l + 1 /\ x \div w = h
    BY <1>0, <1>1, <2>2, Unique
  <2>4. ~(l + 1 < l) /\ h + 0 = h
    BY <1>1
  <2> QED BY <2>1, <2>3, <2>4 DEF h, l
<1>5. CASE l + 1 = w
  <2>1. w % w = 0 /\ 0 < l
    <3>1. w = (w * 1) + 0 /\ 0 \in 0..w - 1 /\ 1 \in Int /\ w \in Int
      BY <1>0
    <3>2. w % w = 0
      BY <1>0, <3>1, Unique
    <3> QED BY <1>1, <1>5, <3>2
  <2>2. w * (h + 1) = (w * h) + w /\ v + 1 = (w * h) + w
    BY <1>1, <1>3, <1>5
  <2>3. CASE h + 1 < w
    <3>1. (w * (h + 1)) + w <= w * w /\ h + 1 \in Int
      BY <1>0, <1>2, <2>3, Product
    <3>2. x = (w * (h + 1)) + 0 /\ x \in Int /\ 0 \in 0..w - 1
      BY <1>0, <1>3, <2>2, <3>1
    <3>3. x % w = 0 /\ x \div w = h + 1
      BY <1>0, <3>1, <3>2, Unique, ZenonT(60)
    <3>4. (h + 1) % w = h + 1
      BY <1>2, <2>3
    <3> QED BY <1>5, <2>1, <3>3, <3>4 DEF h, l
  <2>4. CASE h + 1 = w
    <3>1. w * (h + 1) = w * w
      BY <2>4
    <3>2. x = 0
      BY <2>2, <3>1
    <3>3. x % w = 0 /\ x \div w = 0
      BY <1>0, <3>2
    <3> QED BY <1>5, <2>1, <2>4, <3>3 DEF h, l
  <2> QED BY <1>2, <2>3, <2>4
<1> QED BY <1>1, <1>4, <1>5

LEMMA CounterType ==
  ASSUME NEW c \in Counters, NEW n \in Int
  PROVE  CounterAt(c, n) \in Counters
<1>1. Word \in Nat \ {0}
  BY BinaryLoaderAssumption
<1>2. Word * Word \in Nat \ {0} /\ c.hi * Word + c.lo + n \in Int
  BY <1>1 DEF Counters
<1> DEFINE v == (c.hi * Word + c.lo + n) % (Word * Word)
<1>3. v \in Nat /\ v < Word * Word
  BY <1>2
<1>4. v \div Word \in 0..Word - 1
  BY <1>1, <1>3, HighDigit
<1>5. v % Word \in 0..Word - 1
  BY <1>1, <1>3
<1> QED BY <1>4, <1>5 DEF CounterAt, Counters

(* What the game's description provides.                                   *)
LEMMA GameFacts ==
  ASSUME IInv
  PROVE  /\ game \in GameType /\ Loadable(game)
         /\ \A b \in Binaries : /\ game.bins[b].rom \in Nat
                               /\ game.bins[b].size \in Nat
                               /\ game.bins[b].dest \in Nat
         /\ \A b \in DsiBinaries : /\ game.areas[b].rom \in Nat
                                  /\ game.areas[b].size \in Nat
                                  /\ game.areas[b].ctr \in Counters
         /\ game.twlArea \in Nat
<1>1. game \in GameType /\ Loadable(game)
  BY BinaryLoaderAssumption DEF IInv
<1> QED BY <1>1, BinaryLoaderAssumption DEF GameType, Memory, Counters

Bytes == [rom: Int, keys: SUBSET Counters]

LEMMA RomType ==
  ASSUME IInv, NEW a \in Int
  PROVE  Rom(a) \in Bytes
<1>1. Cipher \in Nat \ {0}
  BY BinaryLoaderAssumption
<1>2. ASSUME NEW b \in DsiBinaries
      PROVE  CounterAt(game.areas[b].ctr, (a - game.areas[b].rom) \div Cipher)
               \in Counters
  <2>1. game.areas[b].ctr \in Counters /\ game.areas[b].rom \in Nat
    BY GameFacts
  <2>2. (a - game.areas[b].rom) \div Cipher \in Int
    BY <1>1, <2>1
  <2> QED BY <2>1, <2>2, CounterType
<1>3. Keys(a) \subseteq Counters
  BY <1>2 DEF Keys
<1> QED BY <1>3 DEF Rom, Zero, Byte, Bytes

LEMMA ReadByteType ==
  ASSUME IInv, NEW src \in Nat, NEW k \in Nat
  PROVE  ReadByte(src, k) \in Bytes
<1>1. Zero \in Bytes /\ Junk \in Bytes
  BY DEF Zero, Junk, Byte, Bytes
<1>2. src + k \in Int /\ Rom(src + k) \in Bytes
  BY RomType
<1>3. Page \in Nat \ {0}
  BY BinaryLoaderAssumption
<1>4. Wrapped(src, k) \in Int
  BY <1>3 DEF Wrapped
<1>5. Answer(src, k) \in Bytes
  BY <1>1, <1>4, RomType DEF Answer
<1> QED BY <1>1, <1>2, <1>5 DEF ReadByte

LEMMA InitIInv ==
  ASSUME Init
  PROVE  IInv
<1> USE DEF Init
<1>1. /\ game \in Games /\ game \in GameType /\ Loadable(game)
  BY BinaryLoaderAssumption
<1>2. Junk \in Bytes
  BY DEF Junk, Byte, Bytes
<1>3. mem \in [Memory -> Bytes]
  BY <1>2
<1>4. ctr \in Counters
  BY BinaryLoaderAssumption DEF Counters
<1>5. listed \subseteq DsiBinaries
  BY DEF DsiBinaries
<1>6. TypeOK
  BY <1>1, <1>3, <1>4, <1>5 DEF TypeOK, Stages, Binaries, Bytes
<1>7. StageInv
  BY DEF StageInv, DsiBinaries
<1>8. NothingElse
  BY DEF NothingElse
<1> QED BY <1>1, <1>6, <1>7, <1>8 DEF IInv

(* Where the stage after a binary is one that was to come.                 *)
LEMMA AfterBinaryStage ==
  ASSUME IInv, stage \in Binaries
  PROVE  /\ AfterBinary \in Stages
         /\ AfterBinary \notin {"crypt9i", "crypt7i"}
         /\ AfterBinary \in DsiBinaries => DsiMode(game)
         /\ AfterBinary \in {"key9i", "key7i"} => DsiMode(game) /\ game.ciphered
<1>1. stage \in DsiBinaries => DsiMode(game)
  BY DEF IInv, StageInv
<1> QED BY <1>1 DEF AfterBinary, Stages, Binaries, DsiBinaries

LEMMA SkipEmptyStep ==
  ASSUME IInv, SkipEmpty
  PROVE  IInv'
<1>1. /\ stage \in Binaries /\ bin.size = 0 /\ stage' = AfterBinary
      /\ game' = game /\ pos' = pos /\ ctr' = ctr /\ mem' = mem
      /\ listed' = listed /\ published' = published
  BY DEF SkipEmpty
<1>2. pos = 0
  <2>1. pos \in Nat /\ (pos = 0 \/ pos < 0)
    BY <1>1 DEF IInv, TypeOK
  <2> QED BY <2>1
<1>3. /\ AfterBinary \in Stages
      /\ AfterBinary \notin {"crypt9i", "crypt7i"}
      /\ AfterBinary \in DsiBinaries => DsiMode(game)
      /\ AfterBinary \in {"key9i", "key7i"} => DsiMode(game) /\ game.ciphered
  BY <1>1, AfterBinaryStage
<1>4. TypeOK'
  BY <1>1, <1>2, <1>3 DEF IInv, TypeOK
<1>5. StageInv'
  BY <1>1, <1>3 DEF StageInv
<1>6. NothingElse'
  BY <1>1 DEF IInv, NothingElse, ToLoad, LastWritten
<1> QED BY <1>1, <1>4, <1>5, <1>6 DEF IInv

LEMMA ReadBlockStep ==
  ASSUME IInv, ReadBlock
  PROVE  IInv'
<1> DEFINE read == pos + (IF pos = 0 THEN ToBoundary(bin.rom) ELSE Block)
<1>1. /\ stage \in Binaries /\ bin.size > 0
      /\ cardReadBlock(bin.rom + pos, bin.dest + pos)
      /\ IF Enough(bin.size, read)
         THEN pos' = 0 /\ stage' = AfterBinary
         ELSE pos' = read /\ stage' = stage
      /\ game' = game /\ ctr' = ctr /\ listed' = listed
      /\ published' = published
  BY DEF ReadBlock
<1>2. bin.rom \in Nat /\ bin.size \in Nat /\ bin.dest \in Nat
  BY <1>1, GameFacts DEF bin
<1>3. Block \in Nat \ {0}
  BY BinaryLoaderAssumption
<1>4. pos \in Nat /\ pos < bin.size
  BY <1>1, <1>2 DEF IInv, TypeOK
<1>5. ToBoundary(bin.rom) \in Nat
  BY <1>2, <1>3 DEF ToBoundary
<1>6. read \in Nat
  BY <1>3, <1>4, <1>5
<1>7. /\ AfterBinary \in Stages
      /\ AfterBinary \notin {"crypt9i", "crypt7i"}
      /\ AfterBinary \in DsiBinaries => DsiMode(game)
      /\ AfterBinary \in {"key9i", "key7i"} => DsiMode(game) /\ game.ciphered
  BY <1>1, AfterBinaryStage
<1>8. /\ stage' \in Stages /\ pos' \in Nat
      /\ stage' \notin {"crypt9i", "crypt7i"}
      /\ stage' \in Binaries => pos' = 0 \/ (stage' = stage /\ pos' < bin.size)
      /\ stage' \notin Binaries => pos' = 0
      /\ stage' \in DsiBinaries => DsiMode(game)
      /\ stage' \in {"key9i", "key7i"} => DsiMode(game) /\ game.ciphered
  <2>1. CASE Enough(bin.size, read)
    BY <1>1, <1>7, <2>1
  <2>2. CASE ~Enough(bin.size, read)
    <3>1. read < bin.size
      BY <1>2, <1>6, <2>2 DEF Enough
    <3>2. pos' = read /\ stage' = stage
      BY <1>1, <2>2
    <3>3. stage \in Stages /\ (stage \in DsiBinaries => DsiMode(game))
      BY DEF IInv, TypeOK, StageInv
    <3>4. stage \notin {"crypt9i", "crypt7i", "key9i", "key7i"}
      BY <1>1 DEF Binaries
    <3> HIDE DEF read
    <3> QED BY <1>1, <1>6, <3>1, <3>2, <3>3, <3>4
  <2> QED BY <2>1, <2>2
<1>9. mem' \in [Memory -> Bytes]
  <2>1. mem \in [Memory -> Bytes]
    BY DEF IInv, TypeOK, Bytes
  <2>2. ASSUME NEW d \in Memory, bin.dest + pos <= d
        PROVE  ReadByte(bin.rom + pos, d - (bin.dest + pos)) \in Bytes
    <3>1. bin.rom + pos \in Nat /\ d - (bin.dest + pos) \in Nat
      BY <1>2, <1>4, <2>2, BinaryLoaderAssumption DEF Memory
    <3> QED BY <3>1, ReadByteType
  <2> QED BY <1>1, <2>1, <2>2 DEF cardReadBlock
<1>10. bin' = game.bins[stage']
  BY <1>1 DEF bin
<1>11. TypeOK'
  <2>1. game' \in GameType /\ ctr' \in Counters
        /\ listed' \subseteq DsiBinaries /\ published' \subseteq DsiBinaries
    BY <1>1 DEF IInv, TypeOK
  <2>2. stage' \in Binaries => pos' = 0 \/ pos' < bin'.size
    BY <1>8, <1>10 DEF bin
  <2> QED BY <1>8, <1>9, <2>1, <2>2 DEF TypeOK, Bytes
<1>12. StageInv'
  BY <1>1, <1>8 DEF StageInv
<1>13. stage \in ToLoad
  BY <1>1 DEF IInv, StageInv, ToLoad
<1>14. ASSUME NEW d \in Memory, mem'[d] # Junk
       PROVE  \E b \in ToLoad : /\ game.bins[b].size > 0
                               /\ game.bins[b].dest <= d
                               /\ d <= LastWritten(game, b)
  <2>1. CASE mem'[d] = mem[d]
    BY <1>14, <2>1 DEF IInv, NothingElse
  <2>2. CASE mem'[d] # mem[d]
    <3>1. bin.dest + pos <= d /\ d < bin.dest + pos + Block
      BY <1>1, <2>2 DEF cardReadBlock
    <3>2. d \in Nat
      BY BinaryLoaderAssumption DEF Memory
    <3>3. bin.dest <= d /\ d <= bin.dest + bin.size + Block - 2
      BY <1>2, <1>3, <1>4, <3>1, <3>2
    <3> QED BY <1>1, <1>13, <3>3 DEF LastWritten, bin
  <2> QED BY <2>1, <2>2
<1>15. NothingElse'
  BY <1>1, <1>14 DEF NothingElse, ToLoad, LastWritten
<1> QED BY <1>1, <1>11, <1>12, <1>15 DEF IInv

(* The area deciphered is that of a DSi binary.                            *)
LEMMA TargetFacts ==
  ASSUME IInv
  PROVE  /\ Target \in DsiBinaries /\ Target \in Binaries
         /\ area.rom \in Nat /\ area.size \in Nat /\ area.ctr \in Counters
         /\ AfterArea \in {"key7i", "header"}
<1>1. Target \in DsiBinaries /\ Target \in Binaries
  BY DEF Target, DsiBinaries, Binaries
<1> QED BY <1>1, GameFacts DEF area, AfterArea

LEMMA SetCounterStep ==
  ASSUME IInv, SetCounter
  PROVE  IInv'
<1>1. /\ stage \in {"key9i", "key7i"}
      /\ ctr' = area.ctr
      /\ stage' = IF area.size = 0 THEN AfterArea
                  ELSE IF stage = "key9i" THEN "crypt9i" ELSE "crypt7i"
      /\ listed' = IF stage' = "header" THEN {} ELSE listed
      /\ game' = game /\ pos' = pos /\ mem' = mem /\ published' = published
  BY DEF SetCounter
<1>2. area.size \in Nat /\ area.ctr \in Counters
      /\ AfterArea \in {"key7i", "header"}
  BY TargetFacts
<1>3. pos = 0 /\ DsiMode(game) /\ game.ciphered
  BY <1>1 DEF IInv, TypeOK, StageInv, Binaries
<1>4. stage' \in {"key7i", "header", "crypt9i", "crypt7i"}
  BY <1>1, <1>2
<1>5. ASSUME stage' \in {"crypt9i", "crypt7i"}
      PROVE  area' = area /\ area.size > 0
  <2>1. area.size # 0
    BY <1>1, <1>2, <1>5
  <2>2. Target' = Target
    BY <1>1, <2>1 DEF Target
  <2> QED BY <1>1, <1>2, <2>1, <2>2 DEF area
<1>6. TypeOK'
  <2>1. stage' \in Stages /\ stage' \notin Binaries
    BY <1>4 DEF Stages, Binaries
  <2>2. /\ game' \in GameType /\ mem' \in [Memory -> Bytes]
        /\ listed' \subseteq DsiBinaries /\ published' \subseteq DsiBinaries
    BY <1>1 DEF IInv, TypeOK, Bytes
  <2>3. stage' \in {"crypt9i", "crypt7i"} => pos' < area'.size
    BY <1>1, <1>2, <1>3, <1>5
  <2> QED BY <1>1, <1>2, <1>3, <2>1, <2>2, <2>3 DEF TypeOK, Bytes
<1>7. StageInv'
  BY <1>1, <1>3, <1>4 DEF StageInv, DsiBinaries
<1>8. NothingElse'
  BY <1>1 DEF IInv, NothingElse, ToLoad, LastWritten
<1> QED BY <1>1, <1>6, <1>7, <1>8 DEF IInv

LEMMA AddCounterType ==
  ASSUME NEW c \in Counters
  PROVE  AddCounter(c) \in Counters
<1>1. Word \in Nat \ {0}
  BY BinaryLoaderAssumption
<1>2. \A n \in Nat : n % Word \in 0..Word - 1
  BY <1>1
<1>3. c.hi \in Nat /\ c.lo \in Nat
  BY <1>1 DEF Counters
<1> QED BY <1>2, <1>3 DEF AddCounter, Counters

LEMMA DecipherStep ==
  ASSUME IInv, Decipher
  PROVE  IInv'
<1> DEFINE start == game.bins[Target].dest + (area.rom - game.bins[Target].rom)
<1>1. /\ stage \in {"crypt9i", "crypt7i"}
      /\ mem' = [d \in Memory |->
                   IF start + pos <= d /\ d < start + pos + Cipher
                   THEN Xor(mem[d], ctr) ELSE mem[d]]
      /\ ctr' = AddCounter(ctr)
      /\ IF pos + Cipher < area.size
         THEN pos' = pos + Cipher /\ stage' = stage
         ELSE pos' = 0 /\ stage' = AfterArea
      /\ listed' = IF stage' = "header" THEN {} ELSE listed
      /\ game' = game /\ published' = published
  BY DEF Decipher
<1>2. /\ Target \in DsiBinaries /\ Target \in Binaries
      /\ area.rom \in Nat /\ area.size \in Nat
      /\ AfterArea \in {"key7i", "header"}
  BY TargetFacts
<1>3. /\ pos \in Nat /\ pos < area.size /\ ctr \in Counters
      /\ mem \in [Memory -> Bytes]
      /\ DsiMode(game) /\ game.ciphered
  BY <1>1 DEF IInv, TypeOK, StageInv, Bytes
<1>4. Cipher \in Nat \ {0} /\ Block \in Nat /\ Cipher <= Block
  BY BinaryLoaderAssumption
<1>5. /\ game.bins[Target].rom \in Nat /\ game.bins[Target].size \in Nat
      /\ game.bins[Target].dest \in Nat
  BY <1>2, GameFacts
<1>6. /\ game.bins[Target].rom <= area.rom
      /\ area.rom + area.size <= game.bins[Target].rom + game.bins[Target].size
  <2>1. Loadable(game) /\ area.size > 0
    BY <1>2, <1>3, GameFacts
  <2> QED BY <1>2, <2>1 DEF Loadable, area
<1>7. mem' \in [Memory -> Bytes]
  <2>1. ASSUME NEW d \in Memory
        PROVE  Xor(mem[d], ctr) \in Bytes
    BY <1>3 DEF Xor, Bytes
  <2> HIDE DEF start
  <2> QED BY <1>1, <1>3, <2>1
<1>8. /\ stage' \in {"crypt9i", "crypt7i", "key7i", "header"}
      /\ pos' \in Nat
      /\ stage' \in {"crypt9i", "crypt7i"} =>
           stage' = stage /\ pos' < area.size
      /\ stage' \notin {"crypt9i", "crypt7i"} => pos' = 0
  <2> HIDE DEF start
  <2> QED BY <1>1, <1>2, <1>3, <1>4
<1>9. TypeOK'
  <2>1. stage' \in Stages /\ stage' \notin Binaries
    BY <1>8 DEF Stages, Binaries
  <2>2. /\ game' \in GameType
        /\ listed' \subseteq DsiBinaries /\ published' \subseteq DsiBinaries
    BY <1>1 DEF IInv, TypeOK
  <2>3. stage' = stage => area' = area
    BY <1>1 DEF area, Target
  <2>4. stage' \in {"crypt9i", "crypt7i"} => pos' < area'.size
    BY <1>8, <2>3
  <2>5. ctr' \in Counters
    BY <1>1, <1>3, AddCounterType
  <2> QED BY <1>7, <1>8, <2>1, <2>2, <2>4, <2>5 DEF TypeOK, Bytes
<1>10. StageInv'
  BY <1>1, <1>3, <1>8 DEF StageInv, DsiBinaries
<1>11. Target \in ToLoad
  BY <1>2, <1>3 DEF ToLoad
<1>12. ASSUME NEW d \in Memory, mem'[d] # Junk
       PROVE  \E b \in ToLoad : /\ game.bins[b].size > 0
                               /\ game.bins[b].dest <= d
                               /\ d <= LastWritten(game, b)
  <2>1. CASE mem'[d] = mem[d]
    BY <1>12, <2>1 DEF IInv, NothingElse
  <2>2. CASE mem'[d] # mem[d]
    <3>1. start + pos <= d /\ d < start + pos + Cipher
      BY <1>1, <2>2
    <3>2. d \in Nat
      BY BinaryLoaderAssumption DEF Memory
    <3>3. /\ game.bins[Target].size > 0
          /\ game.bins[Target].dest <= d
          /\ d <= game.bins[Target].dest + game.bins[Target].size + Block - 2
      BY <1>2, <1>3, <1>4, <1>5, <1>6, <3>1, <3>2
    <3> QED BY <1>11, <3>3 DEF LastWritten
  <2> QED BY <2>1, <2>2
<1>13. NothingElse'
  BY <1>1, <1>12 DEF NothingElse, ToLoad, LastWritten
<1> QED BY <1>1, <1>9, <1>10, <1>13 DEF IInv

LEMMA LoadHeaderStep ==
  ASSUME IInv, loadHeader
  PROVE  IInv'
<1>1. /\ stage = "header" /\ stage' = "done"
      /\ published' = IF DsiMode(game) THEN listed ELSE {}
      /\ game' = game /\ pos' = pos /\ ctr' = ctr /\ mem' = mem
      /\ listed' = listed
  BY DEF loadHeader
<1>2. pos = 0
  BY <1>1 DEF IInv, TypeOK, Binaries
<1>3. published' \subseteq DsiBinaries
  BY <1>1 DEF IInv, TypeOK
<1>4. TypeOK'
  BY <1>1, <1>2, <1>3 DEF IInv, TypeOK, Stages, Binaries
<1>5. StageInv'
  BY <1>1 DEF StageInv, DsiBinaries
<1>6. NothingElse'
  BY <1>1 DEF IInv, NothingElse, ToLoad, LastWritten
<1> QED BY <1>1, <1>4, <1>5, <1>6 DEF IInv

LEMMA StutterIInv ==
  ASSUME IInv, UNCHANGED vars
  PROVE  IInv'
BY DEF vars, IInv, TypeOK, StageInv, NothingElse, ToLoad, LastWritten, bin, area,
       Target

-----------------------------------------------------------------------------
(* The theorems.                                                           *)

(* The invariant.                                                          *)
THEOREM Invariance == Spec => []IInv
<1>1. Init => IInv
  BY InitIInv
<1>2. IInv /\ [Next]_vars => IInv'
  BY SkipEmptyStep, ReadBlockStep, SetCounterStep, DecipherStep,
     LoadHeaderStep, StutterIInv DEF Next
<1> QED BY <1>1, <1>2, PTL DEF Spec

(* Every variable keeps its type, and no stage begins with one half done   *)
(* (cardReadDirect, decrypt_modcrypt_area).                                *)
THEOREM TypeCorrect == Spec => []TypeOK
<1>1. IInv => TypeOK
  BY DEF IInv
<1> QED BY <1>1, Invariance, PTL

(* Whatever the card, loading it writes less than one block behind each of *)
(* the binaries that are to be loaded, and nothing else.                   *)
THEOREM WritesNothingElse == Spec => []NothingElse
<1>1. IInv => NothingElse
  BY DEF IInv
<1> QED BY <1>1, Invariance, PTL

-----------------------------------------------------------------------------
(* What is in memory: the second invariant.                                *)

Plain(a) == [Rom(a) EXCEPT !.keys = {}]

(* Binary b has been read.                                                 *)
Read(b) ==
  \/ b = "arm9" /\ stage # "arm9"
  \/ b = "arm7" /\ stage \notin {"arm9", "arm7"}
  \/ b = "arm9i" /\ stage \notin {"arm9", "arm7", "arm9i"}
  \/ b = "arm7i" /\ stage \notin Binaries

(* The k-th byte of b has been deciphered, if it was ciphered.             *)
Deciphered(b, k) ==
  \/ b = "arm9i" /\ stage \in {"key7i", "crypt7i", "header", "done"}
  \/ b = "arm7i" /\ stage \in {"header", "done"}
  \/ /\ stage \in {"crypt9i", "crypt7i"} /\ b = Target
     /\ game.bins[b].rom + k < area.rom + pos

RightByte(b, k) ==
  mem[game.bins[b].dest + k] = IF Deciphered(b, k)
                               THEN Plain(game.bins[b].rom + k)
                               ELSE Rom(game.bins[b].rom + k)

ContentInv ==
  \A b \in ToLoad : \A k \in 0..game.bins[b].size - 1 :
    Read(b) \/ (stage = b /\ k < pos) => RightByte(b, k)

(* Reading goes on at a boundary, deciphering with the counter for it.     *)
RunInv ==
  /\ stage \in Binaries => pos = 0 \/ (bin.rom + pos) % Block = 0
  /\ stage \in {"crypt9i", "crypt7i"} =>
       /\ pos % Cipher = 0
       /\ ctr = CounterAt(area.ctr, pos \div Cipher)

(* The header forgets the areas when they have been deciphered.            *)
ListInv ==
  /\ ~game.ciphered => listed = {}
  /\ stage \in {"header", "done"} /\ DsiMode(game) => listed = {}
  /\ stage = "done" /\ DsiMode(game) => published = {}

CInv == ContentInv /\ RunInv /\ ListInv

(* A block is right up to the next boundary.                               *)
LEMMA ReadByteRight ==
  ASSUME IInv, NEW src \in Nat, NEW k \in Nat, k < Block - (src % Block)
  PROVE  ReadByte(src, k) = Rom(src + k)
<1>1. /\ Block \in Nat \ {0} /\ Page \in Nat \ {0} /\ Page % Block = 0
      /\ HeaderEnd \in Nat /\ HeaderEnd % Block = 0
      /\ SecureStart \in Nat /\ SecureStart % Block = 0
      /\ AreaSize \in Nat /\ AreaSize % Block = 0
      /\ HeaderEnd <= SecureStart
  BY BinaryLoaderAssumption
<1>2. game.twlArea \in Nat /\ game.twlArea % Block = 0
  BY GameFacts DEF Loadable
<1>3. ASSUME NEW e \in Nat, e % Block = 0, src < e
      PROVE  src + k < e
  BY <1>1, <1>3, Boundary
<1>4. /\ (SecureStart + AreaSize) % Block = 0
      /\ (game.twlArea + AreaSize) % Block = 0
  <2>1. ASSUME NEW x \in Nat, NEW y \in Nat, x % Block = 0, y % Block = 0
        PROVE  (x + y) % Block = 0
    <3> DEFINE p == x \div Block  q == y \div Block
    <3>1. p \in Int /\ q \in Int /\ x = Block * p /\ y = Block * q
      BY <1>1, <2>1, Division
    <3> HIDE DEF p, q
    <3>2. x + y = (Block * (p + q)) + 0
      BY <1>1, <3>1
    <3>3. p + q \in Int /\ 0 \in 0..Block - 1 /\ x + y \in Int
      BY <1>1, <3>1
    <3> QED BY <1>1, <3>2, <3>3, Unique
  <2> QED BY <1>1, <1>2, <2>1
<1>5. CASE src < HeaderEnd
  BY <1>1, <1>3, <1>5 DEF ReadByte, SecureEnd
<1>6. CASE HeaderEnd <= src /\ src < SecureStart
  BY <1>1, <1>3, <1>6 DEF ReadByte, Rom, SecureEnd
<1>7. CASE SecureStart <= src /\ src < SecureEnd
  <2>1. SecureEnd \in Nat /\ SecureEnd % Block = 0 /\ src < SecureEnd
    BY <1>1, <1>4, <1>7 DEF SecureEnd
  <2>2. src + k < SecureEnd
    BY <1>3, <2>1, Zenon
  <2> QED BY <1>1, <1>7, <2>2 DEF ReadByte, SecureEnd
<1>8. CASE src >= SecureEnd /\ InTwlArea(src)
  <2>1. src + k < game.twlArea + AreaSize
    BY <1>1, <1>2, <1>3, <1>4, <1>8 DEF InTwlArea
  <2> QED BY <1>1, <1>8, <2>1 DEF ReadByte, SecureEnd
<1>9. CASE src >= SecureEnd /\ ~InTwlArea(src)
  <2>1. ReadByte(src, k) = Answer(src, k)
    BY <1>1, <1>9 DEF ReadByte, SecureEnd
  <2>2. Wrapped(src, k) = src + k
    BY InPage
  <2>3. ~(src + k < SecureEnd)
    BY <1>1, <1>9 DEF SecureEnd
  <2>4. ~InTwlArea(src + k)
    <3>1. HasTwlArea /\ src < game.twlArea => src + k < game.twlArea
      BY <1>2, <1>3
    <3>2. HasTwlArea /\ ~(src < game.twlArea) =>
            ~(src + k < game.twlArea + AreaSize)
      BY <1>1, <1>2, <1>9 DEF InTwlArea
    <3> QED BY <1>1, <1>2, <3>1, <3>2 DEF InTwlArea
  <2> QED BY <2>1, <2>2, <2>3, <2>4 DEF Answer
<1> QED BY <1>1, <1>5, <1>6, <1>7, <1>8, <1>9 DEF SecureEnd

(* A byte of a binary is ciphered only in that binary's own area.          *)
LEMMA OwnKeys ==
  ASSUME IInv, NEW b \in Binaries, NEW k \in 0..game.bins[b].size - 1,
         ~(/\ b \in DsiBinaries /\ game.ciphered
           /\ Within(game.bins[b].rom + k, game.areas[b]))
  PROVE  Plain(game.bins[b].rom + k) = Rom(game.bins[b].rom + k)
<1> DEFINE a == game.bins[b].rom + k
<1>1. /\ game.bins[b].rom \in Nat /\ game.bins[b].size \in Nat
      /\ Loadable(game)
      /\ \A d \in DsiBinaries : /\ game.areas[d].rom \in Nat
                               /\ game.areas[d].size \in Nat
  BY GameFacts
<1>2. ASSUME NEW d \in DsiBinaries, game.ciphered, Within(a, game.areas[d])
      PROVE  FALSE
  <2>1. d # b
    BY <1>2
  <2>2. \/ game.areas[d].rom + game.areas[d].size <= game.bins[b].rom
        \/ game.bins[b].rom + game.bins[b].size <= game.areas[d].rom
    BY <1>1, <2>1 DEF Loadable
  <2> QED BY <1>1, <1>2, <2>2 DEF Within
<1>3. Keys(a) = {}
  BY <1>2 DEF Keys
<1>4. Rom(a).keys = {} /\ Rom(a) = [rom |-> Rom(a).rom, keys |-> {}]
  BY <1>3 DEF Rom, Zero, Byte
<1> QED BY <1>4 DEF Plain

(* A byte of an area bears one key.                                        *)
LEMMA AreaKeys ==
  ASSUME IInv, NEW b \in DsiBinaries, NEW k \in 0..game.bins[b].size - 1,
         game.ciphered, Within(game.bins[b].rom + k, game.areas[b])
  PROVE  Rom(game.bins[b].rom + k) =
           [rom |-> game.bins[b].rom + k,
            keys |-> {CounterAt(game.areas[b].ctr,
                                ((game.bins[b].rom + k) - game.areas[b].rom)
                                  \div Cipher)}]
<1> DEFINE a == game.bins[b].rom + k
<1>0. b \in Binaries
  BY DEF DsiBinaries, Binaries
<1>1. /\ game.bins[b].rom \in Nat /\ game.bins[b].size \in Nat
      /\ Loadable(game)
      /\ \A d \in DsiBinaries : /\ game.areas[d].rom \in Nat
                               /\ game.areas[d].size \in Nat
  BY <1>0, GameFacts
<1>2. ASSUME NEW d \in DsiBinaries, Within(a, game.areas[d])
      PROVE  d = b
  <2> SUFFICES ASSUME d # b PROVE FALSE
    OBVIOUS
  <2>2. \/ game.areas[d].rom + game.areas[d].size <= game.bins[b].rom
        \/ game.bins[b].rom + game.bins[b].size <= game.areas[d].rom
    BY <1>0, <1>1 DEF Loadable
  <2> QED BY <1>1, <1>2, <2>2 DEF Within
<1>3. Keys(a) = {CounterAt(game.areas[b].ctr, (a - game.areas[b].rom) \div Cipher)}
  BY <1>2 DEF Keys
<1>4. ~(HeaderEnd <= a /\ a < SecureStart)
  <2>1. game.areas[b].size > 0 /\ game.areas[b].rom <= a
    BY <1>1 DEF Within
  <2>2. SecureStart <= game.areas[b].rom
    BY <1>1, <2>1, Zenon DEF Loadable
  <2> QED BY <1>1, <2>1, <2>2, BinaryLoaderAssumption
<1>5. Rom(a) = [rom |-> a, keys |-> Keys(a)]
  BY <1>4, Zenon DEF Rom
<1> QED BY <1>3, <1>5, Zenon

(* Where the bytes of a binary go, and that two binaries lie apart.        *)
LEMMA Apart ==
  ASSUME IInv, NEW b \in Binaries, NEW k \in 0..game.bins[b].size - 1
  PROVE  /\ game.bins[b].dest + k \in Memory
         /\ \A d \in Binaries : Before(b, d) /\ game.bins[d].size > 0 =>
              \/ LastWritten(game, d) < game.bins[b].dest + k
              \/ game.bins[b].dest + k < game.bins[d].dest
<1>1. /\ game.bins[b].dest \in Nat /\ game.bins[b].size \in Nat
      /\ Loadable(game) /\ \A d \in Binaries : /\ game.bins[d].dest \in Nat
                                             /\ game.bins[d].size \in Nat
  BY GameFacts
<1>2. Block \in Nat \ {0} /\ Top \in Nat
  BY BinaryLoaderAssumption
<1>3. game.bins[b].dest + k \in Memory
  <2>1. LastWritten(game, b) <= Top
    BY <1>1 DEF Loadable
  <2> QED BY <1>1, <1>2, <2>1 DEF LastWritten, Memory
<1>4. ASSUME NEW d \in Binaries, Before(b, d), game.bins[d].size > 0
      PROVE  \/ LastWritten(game, d) < game.bins[b].dest + k
             \/ game.bins[b].dest + k < game.bins[d].dest
  <2>1. \/ LastWritten(game, d) < game.bins[b].dest
        \/ game.bins[b].dest + game.bins[b].size <= game.bins[d].dest
    BY <1>1, <1>4 DEF Loadable
  <2>2. LastWritten(game, d) \in Int
    BY <1>1, <1>2 DEF LastWritten
  <2> QED BY <1>1, <2>1, <2>2
<1> QED BY <1>3, <1>4
(* While the game stays the same, so does the right content.               *)
LEMMA SameContent ==
  ASSUME game' = game, NEW b, NEW k
  PROVE  RightByte(b, k)' <=>
           mem'[game.bins[b].dest + k] =
             IF Deciphered(b, k)' THEN Plain(game.bins[b].rom + k)
             ELSE Rom(game.bins[b].rom + k)
BY DEF RightByte, Plain, Rom, Keys, Within, Zero, Byte

LEMMA InitCInv ==
  ASSUME Init
  PROVE  CInv
<1> USE DEF Init
<1>1. ContentInv
  BY DEF ContentInv, Read, Binaries
<1>2. RunInv
  BY DEF RunInv
<1>3. ListInv
  BY DEF ListInv
<1> QED BY <1>1, <1>2, <1>3 DEF CInv

(* Going on to the next stage leaves nothing unread behind and claims      *)
(* nothing deciphered that is ciphered.                                    *)
LEMMA NextStage ==
  ASSUME IInv, stage \in Binaries, stage' = AfterBinary, game' = game,
         NEW b \in ToLoad, NEW k \in 0..game.bins[b].size - 1
  PROVE  /\ Read(b)' => Read(b) \/ b = stage
         /\ Deciphered(b, k)' =>
              Plain(game.bins[b].rom + k) = Rom(game.bins[b].rom + k)
<1>1. b \in Binaries /\ (b \in DsiBinaries => DsiMode(game))
  BY DEF ToLoad
<1>2. Read(b)' => Read(b) \/ b = stage
  BY <1>1 DEF Read, AfterBinary, Binaries, DsiBinaries
<1>3. ASSUME Deciphered(b, k)'
      PROVE  ~game.ciphered
  <2>1. stage' = "header" /\ b \in DsiBinaries
    BY <1>3 DEF Deciphered, AfterBinary, Binaries, DsiBinaries
  <2> QED BY <1>1, <2>1 DEF AfterBinary, Binaries
<1> QED BY <1>1, <1>2, <1>3, OwnKeys

LEMMA NotYetDeciphered ==
  ASSUME stage \in Binaries, NEW b, NEW k
  PROVE  ~Deciphered(b, k)
BY DEF Deciphered, Binaries

(* When the stage after a binary is one with a header, it lists nothing.   *)
LEMMA NextStageLists ==
  ASSUME ListInv, stage \in Binaries, stage' \in {stage, AfterBinary},
         game' = game, listed' = listed, published' = published
  PROVE  ListInv'
<1>1. stage' # "done"
  BY DEF AfterBinary, Binaries
<1>2. stage' = "header" /\ DsiMode(game) => ~game.ciphered
  BY DEF AfterBinary, Binaries
<1> QED BY <1>1, <1>2 DEF ListInv

LEMMA SkipEmptyContent ==
  ASSUME IInv, CInv, SkipEmpty
  PROVE  CInv'
<1>1. /\ stage \in Binaries /\ bin.size = 0 /\ stage' = AfterBinary
      /\ game' = game /\ pos' = pos /\ ctr' = ctr /\ mem' = mem
      /\ listed' = listed /\ published' = published
  BY DEF SkipEmpty
<1>2. pos = 0
  <2>1. pos \in Nat /\ (pos = 0 \/ pos < 0)
    BY <1>1 DEF IInv, TypeOK
  <2> QED BY <2>1
<1>3. ASSUME NEW b \in ToLoad, NEW k \in 0..game.bins[b].size - 1,
             Read(b)' \/ (stage' = b /\ k < pos')
      PROVE  RightByte(b, k)'
  <2>1. Read(b)'
    BY <1>1, <1>2, <1>3
  <2>2. b # stage
    BY <1>1 DEF bin
  <2>3. Read(b) /\ (Deciphered(b, k)' =>
          Plain(game.bins[b].rom + k) = Rom(game.bins[b].rom + k))
    BY <1>1, <2>1, <2>2, NextStage
  <2>4. mem[game.bins[b].dest + k] = Rom(game.bins[b].rom + k)
    BY <1>1, <2>3, NotYetDeciphered DEF CInv, ContentInv, RightByte
  <2> QED BY <1>1, <2>3, <2>4, SameContent
<1>4. ContentInv'
  BY <1>1, <1>3 DEF ContentInv, ToLoad
<1>5. RunInv'
  BY <1>1, <1>2, AfterBinaryStage DEF RunInv
<1>6. ListInv'
  BY <1>1, NextStageLists DEF CInv
<1> QED BY <1>4, <1>5, <1>6 DEF CInv
(* On from one place to the next boundary, or from boundary to boundary.   *)
LEMMA NextBoundary ==
  ASSUME NEW b \in Nat \ {0}, NEW s \in Nat
  PROVE  /\ (s + (b - (s % b))) % b = 0
         /\ s % b = 0 => (s + b) % b = 0 /\ (s + b) \div b = (s \div b) + 1
<1> DEFINE q == s \div b  r == s % b
<1>1. q \in Int /\ r \in 0..b - 1 /\ s = (b * q) + r
  BY Division
<1> HIDE DEF q, r
<1>2. b * q \in Int /\ b * (q + 1) = (b * q) + b /\ q + 1 \in Int
      /\ 0 \in 0..b - 1
  BY <1>1
<1>3. ASSUME NEW n \in Int, NEW w \in Int, n = (b * w) + 0
      PROVE  n % b = 0 /\ n \div b = w
  <2>1. 0 \in 0..b - 1
    OBVIOUS
  <2> QED BY <1>3, <2>1, Unique
<1> DEFINE n == s + (b - r)  m == s + b
<1>4. n % b = 0
  <2>1. n \in Int /\ n = (b * (q + 1)) + 0
    BY <1>1, <1>2
  <2> HIDE DEF n
  <2> QED BY <1>2, <1>3, <2>1
<1>5. ASSUME r = 0
      PROVE  m % b = 0 /\ m \div b = q + 1
  <2>1. m \in Int /\ m = b * q + b
    BY <1>1, <1>2, <1>5
  <2>2. m = (b * (q + 1)) + 0
    BY <1>2, <2>1
  <2> HIDE DEF m
  <2> QED BY <1>2, <1>3, <2>1, <2>2
<1> QED BY <1>4, <1>5 DEF q, r

LEMMA ReadBlockContent ==
  ASSUME IInv, CInv, ReadBlock
  PROVE  CInv'
<1> DEFINE src == bin.rom + pos
           far == IF pos = 0 THEN ToBoundary(bin.rom) ELSE Block
           read == pos + far
<1>1. /\ stage \in Binaries /\ bin.size > 0 /\ bin = game.bins[stage]
      /\ cardReadBlock(src, bin.dest + pos)
      /\ IF Enough(bin.size, read)
         THEN pos' = 0 /\ stage' = AfterBinary
         ELSE pos' = read /\ stage' = stage
      /\ game' = game /\ ctr' = ctr /\ listed' = listed
      /\ published' = published
  BY DEF ReadBlock, bin
<1>2. bin.rom \in Nat /\ bin.size \in Nat /\ bin.dest \in Nat
  BY <1>1, GameFacts
<1>3. Block \in Nat \ {0}
  BY BinaryLoaderAssumption
<1>4. pos \in Nat /\ pos < bin.size
  BY <1>1, <1>2 DEF IInv, TypeOK
<1>5. src \in Nat /\ src % Block \in 0..Block - 1
  BY <1>2, <1>3, <1>4
<1>6. far = Block - (src % Block)
  <2>1. CASE pos = 0
    BY <1>2, <2>1 DEF ToBoundary
  <2>2. CASE pos # 0
    <3>1. src % Block = 0
      BY <1>1, <2>2 DEF CInv, RunInv
    <3> QED BY <1>3, <2>2, <3>1
  <2> QED BY <2>1, <2>2
<1>7. far \in Nat \ {0} /\ far <= Block /\ read \in Nat
  BY <1>3, <1>4, <1>5, <1>6
<1>8. (bin.rom + read) % Block = 0
  <2>1. (src + far) % Block = 0
    BY <1>3, <1>5, <1>6, NextBoundary
  <2>2. src + far = bin.rom + read
    BY <1>2, <1>4, <1>7
  <2> QED BY <2>1, <2>2
<1> HIDE DEF far
<1>9. ASSUME NEW d \in Memory
      PROVE  mem'[d] = IF bin.dest + pos <= d /\ d < bin.dest + pos + Block
                       THEN ReadByte(src, d - (bin.dest + pos)) ELSE mem[d]
  BY <1>1 DEF cardReadBlock
<1>10. ASSUME NEW k \in 0..bin.size - 1, k < read
       PROVE  k >= pos => mem'[bin.dest + k] = Rom(bin.rom + k)
  <2> SUFFICES ASSUME k >= pos
               PROVE  mem'[bin.dest + k] = Rom(bin.rom + k)
    OBVIOUS
  <2>1. bin.dest + k \in Memory
    BY <1>1, Apart
  <2>2. /\ k - pos \in Nat /\ k - pos < far
        /\ (bin.dest + k) - (bin.dest + pos) = k - pos
        /\ bin.dest + pos <= bin.dest + k
        /\ bin.dest + k < bin.dest + pos + Block
        /\ src + (k - pos) = bin.rom + k
    BY <1>2, <1>3, <1>4, <1>7, <1>10
  <2>3. ReadByte(src, k - pos) = Rom(src + (k - pos))
    BY <1>5, <1>6, <2>2, ReadByteRight
  <2> QED BY <1>9, <2>1, <2>2, <2>3
<1>11. ASSUME NEW b \in ToLoad, NEW k \in 0..game.bins[b].size - 1,
              Read(b)' \/ (stage' = b /\ k < pos')
       PROVE  RightByte(b, k)'
  <2>1. b \in Binaries /\ game.bins[b].dest \in Nat
        /\ game.bins[b].size \in Nat
    BY GameFacts DEF ToLoad
  <2>2. Deciphered(b, k)' =>
          Plain(game.bins[b].rom + k) = Rom(game.bins[b].rom + k)
    <3>1. CASE stage' = stage
      BY <1>1, <3>1 DEF Deciphered, Binaries
    <3>2. CASE stage' = AfterBinary
      BY <1>1, <3>2, NextStage
    <3> QED BY <1>1, <3>1, <3>2
  <2>3. CASE b = stage
    <3>1. k < read
      <4>1. CASE Enough(bin.size, read)
        BY <1>1, <1>2, <1>7, <2>3, <4>1 DEF Enough
      <4>2. CASE ~Enough(bin.size, read)
        <5>1. ~Read(b)'
          BY <1>1, <2>3, <4>2 DEF Read, Binaries
        <5> QED BY <1>1, <1>11, <4>2, <5>1
      <4> QED BY <4>1, <4>2
    <3>2. CASE k >= pos
      <4>1. mem'[bin.dest + k] = Rom(bin.rom + k)
        BY <1>1, <1>10, <2>3, <3>1, <3>2
      <4> QED BY <1>1, <2>2, <2>3, <4>1, SameContent
    <3>3. CASE k < pos
      <4>1. mem[bin.dest + k] = Rom(bin.rom + k)
        BY <1>1, <1>11, <2>3, <3>3, NotYetDeciphered
           DEF CInv, ContentInv, RightByte
      <4>2. bin.dest + k \in Memory
        BY <1>1, <2>3, Apart
      <4>3. mem'[bin.dest + k] = mem[bin.dest + k]
        BY <1>2, <1>4, <1>9, <3>3, <4>2
      <4> QED BY <1>1, <2>2, <2>3, <4>1, <4>3, SameContent
    <3> QED BY <1>2, <1>4, <2>1, <3>2, <3>3
  <2>4. CASE b # stage
    <3>1. Read(b)
      <4>1. CASE stage' = stage
        BY <1>11, <2>4, <4>1 DEF Read
      <4>2. CASE stage' = AfterBinary /\ pos' = 0
        BY <1>1, <1>11, <2>1, <2>4, <4>2, NextStage
      <4> QED BY <1>1, <4>1, <4>2
    <3>2. Before(b, stage)
      BY <1>1, <2>1, <3>1 DEF Read, Before, Binaries, DsiBinaries
    <3>3. /\ game.bins[b].dest + k \in Memory
          /\ \/ LastWritten(game, stage) < game.bins[b].dest + k
             \/ game.bins[b].dest + k < bin.dest
      BY <1>1, <2>1, <3>2, Apart
    <3>4. mem'[game.bins[b].dest + k] = mem[game.bins[b].dest + k]
      <4> DEFINE d == game.bins[b].dest + k
      <4>1. d \in Nat
        BY <2>1
      <4>2. d \in Memory /\ (bin.dest + bin.size + Block - 2 < d \/ d < bin.dest)
        BY <1>1, <3>3 DEF LastWritten
      <4> HIDE DEF d
      <4>3. ~(bin.dest + pos <= d /\ d < bin.dest + pos + Block)
        BY <1>2, <1>3, <1>4, <4>1, <4>2
      <4>4. mem'[d] = mem[d]
        BY <1>9, <4>2, <4>3
      <4> QED BY <4>4 DEF d
    <3>5. mem[game.bins[b].dest + k] = Rom(game.bins[b].rom + k)
      BY <1>1, <3>1, NotYetDeciphered DEF CInv, ContentInv, RightByte
    <3> QED BY <1>1, <2>2, <3>4, <3>5, SameContent
  <2> QED BY <2>3, <2>4
<1>12. ContentInv'
  BY <1>1, <1>11 DEF ContentInv, ToLoad
<1>13. RunInv'
  <2>1. CASE pos' = 0 /\ stage' = AfterBinary
    BY <1>1, <2>1, AfterBinaryStage DEF RunInv
  <2>2. CASE pos' = read /\ stage' = stage
    <3>1. bin' = bin /\ stage' \notin {"crypt9i", "crypt7i"}
      BY <1>1, <2>2 DEF bin, Binaries
    <3> QED BY <1>8, <2>2, <3>1 DEF RunInv
  <2> QED BY <1>1, <2>1, <2>2
<1>14. ListInv'
  BY <1>1, NextStageLists DEF CInv
<1> QED BY <1>12, <1>13, <1>14 DEF CInv
(* dsi_add_ctr goes from the counter of one block to that of the next.     *)
LEMMA CounterZero ==
  ASSUME NEW c \in Counters
  PROVE  CounterAt(c, 0) = c
<1> DEFINE v == c.hi * Word + c.lo + 0
<1>1. Word \in Nat \ {0} /\ c.hi \in 0..Word - 1 /\ c.lo \in 0..Word - 1
      /\ c = [hi |-> c.hi, lo |-> c.lo]
  BY BinaryLoaderAssumption DEF Counters
<1>2. /\ v \in Nat /\ v = (Word * c.hi) + c.lo
      /\ (Word * c.hi) + Word <= Word * Word
  BY <1>1, Product
<1>3. v % (Word * Word) = v
  <2>1. ASSUME NEW m \in Nat, NEW y \in Nat, y < m
        PROVE  y % m = y
    BY <2>1
  <2>2. Word * Word \in Nat /\ v < Word * Word
    BY <1>1, <1>2
  <2> HIDE DEF v
  <2> QED BY <1>2, <2>1, <2>2
<1>4. v \div Word = c.hi /\ v % Word = c.lo
  BY <1>1, <1>2, Unique
<1> QED BY <1>1, <1>3, <1>4 DEF CounterAt

LEMMA CounterNext ==
  ASSUME NEW c \in Counters, NEW n \in Int
  PROVE  AddCounter(CounterAt(c, n)) = CounterAt(c, n + 1)
<1> DEFINE s == c.hi * Word + c.lo + n
           m == Word * Word
           v == s % m
           x == (s + 1) % m
<1>1. Word \in Nat /\ Word > 1 /\ c.hi \in Int /\ c.lo \in Int
  BY BinaryLoaderAssumption DEF Counters
<1>2. s \in Int /\ m \in Nat \ {0} /\ c.hi * Word + c.lo + (n + 1) = s + 1
  BY <1>1
<1>3. v \in Nat /\ v < m
  BY <1>2
<1>4. x = IF v + 1 = m THEN 0 ELSE v + 1
  <2> HIDE DEF s, m
  <2> QED BY <1>2, NextRemainder
<1>5. /\ CounterAt(c, n) = [hi |-> v \div Word, lo |-> v % Word]
      /\ CounterAt(c, n + 1) = [hi |-> x \div Word, lo |-> x % Word]
  <2>1. CounterAt(c, n) = [hi |-> v \div Word, lo |-> v % Word]
    BY DEF CounterAt
  <2>2. CounterAt(c, n + 1) = [hi |-> x \div Word, lo |-> x % Word]
    BY <1>2, Zenon DEF CounterAt
  <2> QED BY <2>1, <2>2
<1> HIDE DEF v, x
<1>6. LET lo == ((v % Word) + 1) % Word
          carry == IF lo < v % Word THEN 1 ELSE 0
      IN /\ x % Word = lo
         /\ x \div Word = ((v \div Word) + carry) % Word
  <2>1. v < Word * Word /\ x = IF v + 1 = Word * Word THEN 0 ELSE v + 1
    BY <1>3, <1>4
  <2> QED BY <1>1, <1>3, <2>1, NextDigits, Zenon
<1> HIDE DEF m, s
<1> DEFINE now == CounterAt(c, n)
<1>7. now.hi = v \div Word /\ now.lo = v % Word
  BY <1>5
<1>8. AddCounter(now) = [hi |-> (now.hi + (IF (now.lo + 1) % Word < now.lo
                                           THEN 1 ELSE 0)) % Word,
                         lo |-> (now.lo + 1) % Word]
  BY DEF AddCounter
<1> HIDE DEF now
<1> QED BY <1>5, <1>6, <1>7, <1>8, Zenon DEF now

LEMMA SetCounterContent ==
  ASSUME IInv, CInv, SetCounter
  PROVE  CInv'
<1>1. /\ stage \in {"key9i", "key7i"}
      /\ ctr' = area.ctr
      /\ stage' = IF area.size = 0 THEN AfterArea
                  ELSE IF stage = "key9i" THEN "crypt9i" ELSE "crypt7i"
      /\ listed' = IF stage' = "header" THEN {} ELSE listed
      /\ game' = game /\ pos' = pos /\ mem' = mem /\ published' = published
  BY DEF SetCounter
<1>2. /\ Target \in DsiBinaries /\ area = game.areas[Target]
      /\ area.rom \in Nat /\ area.size \in Nat /\ area.ctr \in Counters
  BY TargetFacts DEF area
<1>3. pos = 0 /\ game.ciphered
  BY <1>1 DEF IInv, TypeOK, StageInv, Binaries
<1>4. /\ stage = "key9i" => stage' \in {"crypt9i", "key7i"} /\ Target = "arm9i"
      /\ stage = "key7i" => stage' \in {"crypt7i", "header"} /\ Target = "arm7i"
      /\ stage' \in {"crypt9i", "crypt7i"} => Target' = Target
      /\ stage' \notin {"crypt9i", "crypt7i"} => area.size = 0
  BY <1>1 DEF AfterArea, Target
<1>5. area' = area \/ stage' \notin {"crypt9i", "crypt7i"}
  BY <1>1, <1>4 DEF area
<1>6. ASSUME NEW b \in ToLoad, NEW k \in 0..game.bins[b].size - 1
      PROVE  RightByte(b, k)'
  <2>1. b \in Binaries /\ game.bins[b].rom \in Nat
    BY GameFacts DEF ToLoad
  <2>2. Read(b)
    BY <1>1, <2>1 DEF Read, Binaries, DsiBinaries
  <2>3. RightByte(b, k)
    BY <1>6, <2>2 DEF CInv, ContentInv
  <2>4. Deciphered(b, k) => Deciphered(b, k)'
    BY <1>1, <1>4 DEF Deciphered
  <2>5. ASSUME Deciphered(b, k)', ~Deciphered(b, k)
        PROVE  Plain(game.bins[b].rom + k) = Rom(game.bins[b].rom + k)
    <3>1. b = Target
      BY <1>1, <1>4, <2>5 DEF Deciphered
    <3>2. ~Within(game.bins[b].rom + k, game.areas[b])
      <4>1. CASE area.size = 0
        BY <1>2, <2>1, <3>1, <4>1 DEF Within
      <4>2. CASE area.size # 0
        <5>1. game.bins[b].rom + k < area.rom + 0
          BY <1>1, <1>3, <1>4, <1>5, <2>5, <4>2 DEF Deciphered
        <5> QED BY <1>2, <2>1, <3>1, <5>1 DEF Within
      <4> QED BY <4>1, <4>2
    <3> QED BY <2>1, <3>1, <3>2, OwnKeys
  <2> QED BY <1>1, <2>3, <2>4, <2>5, SameContent DEF RightByte
<1>7. ContentInv'
  BY <1>1, <1>6 DEF ContentInv, ToLoad
<1>8. RunInv'
  <2>1. stage' \notin Binaries
    BY <1>1, <1>4 DEF Binaries
  <2>2. 0 % Cipher = 0 /\ 0 \div Cipher = 0
    BY BinaryLoaderAssumption
  <2>3. ctr' = CounterAt(area.ctr, 0)
    BY <1>1, <1>2, CounterZero
  <2> QED BY <1>1, <1>3, <1>5, <2>1, <2>2, <2>3 DEF RunInv
<1>9. ListInv'
  BY <1>1, <1>3, <1>4 DEF ListInv
<1> QED BY <1>7, <1>8, <1>9 DEF CInv

LEMMA LoadHeaderContent ==
  ASSUME IInv, CInv, loadHeader
  PROVE  CInv'
<1>1. /\ stage = "header" /\ stage' = "done"
      /\ published' = IF DsiMode(game) THEN listed ELSE {}
      /\ game' = game /\ pos' = pos /\ ctr' = ctr /\ mem' = mem
      /\ listed' = listed
  BY DEF loadHeader
<1>2. ASSUME NEW b \in ToLoad, NEW k \in 0..game.bins[b].size - 1
      PROVE  RightByte(b, k)'
  <2>1. Read(b) /\ (Deciphered(b, k)' <=> Deciphered(b, k))
    BY <1>1 DEF Read, Deciphered, ToLoad, Binaries, DsiBinaries
  <2>2. RightByte(b, k)
    BY <1>2, <2>1 DEF CInv, ContentInv
  <2> QED BY <1>1, <2>1, <2>2, SameContent DEF RightByte
<1>3. ContentInv'
  BY <1>1, <1>2 DEF ContentInv, ToLoad
<1>4. RunInv'
  BY <1>1 DEF RunInv, Binaries
<1>5. ListInv'
  BY <1>1 DEF CInv, ListInv
<1> QED BY <1>3, <1>4, <1>5 DEF CInv
(* A keystream applied to a byte that bears it alone.                      *)
LEMMA Undone ==
  ASSUME NEW x, NEW key, NEW byte, byte = [rom |-> x, keys |-> {key}]
  PROVE  /\ Xor(byte, key) = [rom |-> x, keys |-> {}]
         /\ [byte EXCEPT !.keys = {}] = [rom |-> x, keys |-> {}]
<1>1. byte.keys = {key}
  OBVIOUS
<1>2. ({key} \ {key}) \cup ({key} \ {key}) = {}
  OBVIOUS
<1>3. Xor(byte, key) = [byte EXCEPT !.keys = {}]
  BY <1>1, <1>2, Zenon DEF Xor
<1>4. [byte EXCEPT !.keys = {}] = [rom |-> x, keys |-> {}]
  OBVIOUS
<1> QED BY <1>3, <1>4

LEMMA DecipherContent ==
  ASSUME IInv, CInv, Decipher
  PROVE  CInv'
<1> DEFINE whole == game.bins[Target]
           start == whole.dest + (area.rom - whole.rom)
           q == pos \div Cipher
<1>1. /\ stage \in {"crypt9i", "crypt7i"}
      /\ mem' = [d \in Memory |->
                   IF start + pos <= d /\ d < start + pos + Cipher
                   THEN Xor(mem[d], ctr) ELSE mem[d]]
      /\ ctr' = AddCounter(ctr)
      /\ IF pos + Cipher < area.size
         THEN pos' = pos + Cipher /\ stage' = stage
         ELSE pos' = 0 /\ stage' = AfterArea
      /\ listed' = IF stage' = "header" THEN {} ELSE listed
      /\ game' = game /\ published' = published
  BY DEF Decipher
<1>2. /\ Target \in DsiBinaries /\ Target \in Binaries
      /\ area = game.areas[Target]
      /\ area.rom \in Nat /\ area.size \in Nat /\ area.ctr \in Counters
  BY TargetFacts DEF area
<1>3. /\ pos \in Nat /\ pos < area.size
      /\ DsiMode(game) /\ game.ciphered
  BY <1>1 DEF IInv, TypeOK, StageInv
<1>4. /\ Cipher \in Nat \ {0} /\ Block \in Nat \ {0} /\ Cipher <= Block
  BY BinaryLoaderAssumption
<1>5. whole.rom \in Nat /\ whole.size \in Nat /\ whole.dest \in Nat
  BY <1>2, GameFacts
<1>6. /\ Loadable(game) /\ area.size % Cipher = 0
      /\ whole.rom <= area.rom
      /\ area.rom + area.size <= whole.rom + whole.size
  <2>1. Loadable(game) /\ area.size > 0
    BY <1>2, <1>3, GameFacts
  <2> QED BY <1>2, <2>1 DEF Loadable
<1>7. pos % Cipher = 0 /\ ctr = CounterAt(area.ctr, q)
  BY <1>1 DEF CInv, RunInv
<1>8. pos + Cipher <= area.size
  <2>1. Cipher - 1 \in Nat /\ Cipher - 1 < Cipher - (pos % Cipher)
    BY <1>4, <1>7
  <2>2. pos + (Cipher - 1) < area.size
    BY <1>2, <1>3, <1>4, <1>6, <2>1, Boundary
  <2> QED BY <1>2, <1>3, <1>4, <2>2
<1>9. q \in Int /\ pos = Cipher * q
  BY <1>3, <1>4, <1>7, Division
<1>10. /\ stage = "crypt9i" => stage' \in {"crypt9i", "key7i"} /\ Target = "arm9i"
       /\ stage = "crypt7i" => stage' \in {"crypt7i", "header"} /\ Target = "arm7i"
       /\ stage' = stage => Target' = Target /\ area' = area
  <2>1. stage' = stage \/ stage' = AfterArea
    BY <1>1
  <2> QED BY <1>1, <2>1 DEF AfterArea, Target, area
<1> HIDE DEF q
<1>11. start \in Nat /\ start = whole.dest + (area.rom - whole.rom)
  BY <1>2, <1>5, <1>6
<1> HIDE DEF start
<1>12. ASSUME NEW b \in ToLoad, NEW k \in 0..game.bins[b].size - 1
       PROVE  RightByte(b, k)'
  <2> DEFINE a == game.bins[b].rom + k
             d == game.bins[b].dest + k
  <2>1. /\ b \in Binaries /\ game.bins[b].rom \in Nat
        /\ game.bins[b].size \in Nat /\ game.bins[b].dest \in Nat
        /\ d \in Memory /\ a \in Nat /\ d \in Nat
    BY GameFacts, Apart DEF ToLoad
  <2>2. RightByte(b, k)
    <3>1. Read(b)
      BY <1>1, <2>1 DEF Read, Binaries, DsiBinaries
    <3> QED BY <1>12, <3>1 DEF CInv, ContentInv
  <2>3. mem[d] = IF Deciphered(b, k) THEN Plain(a) ELSE Rom(a)
    BY <2>2 DEF RightByte
  <2>4. mem'[d] = IF start + pos <= d /\ d < start + pos + Cipher
                  THEN Xor(mem[d], ctr) ELSE mem[d]
    BY <1>1, <2>1
  <2>5. SUFFICES mem'[d] = IF Deciphered(b, k)' THEN Plain(a) ELSE Rom(a)
    BY <1>1, SameContent
  <2>6. CASE b # Target
    <3>1. Deciphered(b, k)' <=> Deciphered(b, k)
      BY <1>1, <1>10, <2>1, <2>6 DEF Deciphered, Binaries
    <3>2. ~(start + pos <= d /\ d < start + pos + Cipher)
      <4> SUFFICES ASSUME start + pos <= d /\ d < start + pos + Cipher
                   PROVE  FALSE
        OBVIOUS
      <4>1. whole.size > 0 /\ game.bins[b].size > 0
        BY <1>2, <1>3, <1>5, <1>6, <2>1
      <4>2. whole.dest <= d /\ d < whole.dest + whole.size
        BY <1>2, <1>3, <1>4, <1>5, <1>6, <1>8, <1>11, <2>1
      <4>3. CASE Before(b, Target)
        <5>1. LastWritten(game, Target) < d \/ d < whole.dest
          BY <1>2, <2>1, <4>1, <4>3, Apart
        <5> QED BY <1>4, <1>5, <2>1, <4>2, <5>1 DEF LastWritten
      <4>4. CASE Before(Target, b)
        <5> DEFINE j == d - whole.dest
        <5>1. j \in 0..whole.size - 1 /\ whole.dest + j = d
          BY <1>5, <2>1, <4>2
        <5>2. LastWritten(game, b) < whole.dest + j
              \/ whole.dest + j < game.bins[b].dest
          BY <1>2, <2>1, <4>1, <4>4, <5>1, Apart
        <5>3. LastWritten(game, b) < d \/ d < game.bins[b].dest
          BY <5>1, <5>2
        <5>4. LastWritten(game, b) >= d
          BY <1>4, <2>1 DEF LastWritten
        <5> QED BY <1>4, <2>1, <5>3, <5>4 DEF LastWritten
      <4> QED BY <1>2, <2>1, <2>6, <4>3, <4>4
             DEF Before, Binaries, DsiBinaries
    <3> QED BY <2>3, <2>4, <3>1, <3>2
  <2>7. CASE b = Target
    <3> DEFINE x == a - area.rom
    <3>1. /\ x \in Int /\ d = start + x /\ a = area.rom + x
          /\ start + pos <= d <=> pos <= x
          /\ d < start + pos + Cipher <=> x < pos + Cipher
      BY <1>2, <1>3, <1>4, <1>5, <1>11, <2>1, <2>7
    <3>2. Deciphered(b, k) <=> x < pos
      <4>1. Deciphered(b, k) <=> a < area.rom + pos
        BY <1>1, <1>10, <2>7 DEF Deciphered
      <4> QED BY <1>2, <1>3, <2>1, <4>1
    <3>3. Within(a, game.areas[b]) <=> 0 <= x /\ x < area.size
      BY <1>2, <2>1, <2>7 DEF Within
    <3>4. Deciphered(b, k)' <=> x < pos + Cipher \/ stage' # stage
      <4>1. CASE stage' # stage
        BY <1>1, <1>10, <2>7, <4>1 DEF Deciphered
      <4>2. CASE stage' = stage
        <5>1. pos' = pos + Cipher
          BY <1>1, <1>10, <4>2 DEF AfterArea
        <5>2. Deciphered(b, k)' <=> a < area.rom + (pos + Cipher)
          BY <1>1, <1>10, <2>7, <4>2, <5>1 DEF Deciphered
        <5> QED BY <1>2, <1>3, <1>4, <2>1, <4>2, <5>2
      <4> QED BY <4>1, <4>2
    <3> HIDE DEF a, d, x
    <3>5. CASE x < pos
      BY <1>3, <1>4, <2>3, <2>4, <3>1, <3>2, <3>4, <3>5
    <3>6. CASE pos <= x /\ x < pos + Cipher
      <4>1. x \div Cipher = q
        <5>1. x - pos \in 0..Cipher - 1 /\ x = (Cipher * q) + (x - pos)
          BY <1>3, <1>4, <1>9, <3>1, <3>6
        <5> QED BY <1>4, <1>9, <3>1, <5>1, Unique
      <4>2. Rom(a) = [rom |-> a, keys |-> {CounterAt(area.ctr, q)}]
        <5>1. Within(a, game.areas[b])
          BY <1>2, <1>3, <1>4, <1>8, <3>1, <3>3, <3>6
        <5>2. Rom(a) = [rom |-> a,
                        keys |-> {CounterAt(game.areas[b].ctr,
                                            (a - game.areas[b].rom) \div Cipher)}]
          BY <1>2, <1>3, <2>7, <5>1, AreaKeys DEF a
        <5> QED BY <1>2, <2>7, <4>1, <5>2 DEF x
      <4>3. mem[d] = [rom |-> a, keys |-> {ctr}]
        BY <1>3, <1>7, <2>3, <3>1, <3>2, <3>6, <4>2
      <4>4. Xor(mem[d], ctr) = Plain(a)
        <5>1. Rom(a) = [rom |-> a, keys |-> {ctr}]
          BY <1>7, <4>2
        <5> QED BY <4>3, <5>1, Undone DEF Plain
      <4> QED BY <2>4, <3>1, <3>4, <3>6, <4>4
    <3>7. CASE pos + Cipher <= x
      <4>1. mem'[d] = Rom(a)
        BY <1>3, <1>4, <2>3, <2>4, <3>1, <3>2, <3>7
      <4>2. ASSUME stage' # stage
            PROVE  Plain(a) = Rom(a)
        <5>1. area.size <= pos + Cipher
          BY <1>1, <1>2, <1>3, <1>4, <4>2
        <5>2. ~Within(a, game.areas[b])
          BY <1>2, <1>3, <1>4, <3>1, <3>3, <3>7, <5>1
        <5> QED BY <2>1, <5>2, OwnKeys DEF a
      <4> QED BY <1>3, <1>4, <3>1, <3>4, <3>7, <4>1, <4>2
    <3> QED BY <1>3, <1>4, <3>1, <3>5, <3>6, <3>7
  <2> QED BY <2>6, <2>7
<1>13. ContentInv'
  BY <1>1, <1>12 DEF ContentInv, ToLoad
<1>14. RunInv'
  <2>1. stage' \notin Binaries
    BY <1>1, <1>10 DEF Binaries
  <2>2. (pos + Cipher) % Cipher = 0 /\ (pos + Cipher) \div Cipher = q + 1
    BY <1>3, <1>4, <1>7, NextBoundary DEF q
  <2>3. ctr' = CounterAt(area.ctr, q + 1)
    BY <1>1, <1>2, <1>7, <1>9, CounterNext
  <2>4. CASE stage' = stage
    <3>1. pos' = pos + Cipher
      BY <1>1, <1>10, <2>4 DEF AfterArea
    <3> QED BY <1>10, <2>1, <2>2, <2>3, <2>4, <3>1 DEF RunInv
  <2>5. CASE stage' # stage
    BY <1>1, <1>10, <2>1, <2>5 DEF RunInv
  <2> QED BY <2>4, <2>5
<1>15. ListInv'
  BY <1>1, <1>3, <1>10 DEF ListInv
<1> QED BY <1>13, <1>14, <1>15 DEF CInv

LEMMA StutterCInv ==
  ASSUME CInv, UNCHANGED vars
  PROVE  CInv'
BY DEF vars, CInv, ContentInv, RunInv, ListInv, ToLoad, Read, RightByte,
       Deciphered, Plain, Rom, Keys, Within, bin, area, Target

(* The second invariant.                                                   *)
THEOREM Contents == Spec => []CInv
<1>1. Init => CInv
  BY InitCInv
<1>2. IInv /\ CInv /\ [Next]_vars => CInv'
  BY SkipEmptyContent, ReadBlockContent, SetCounterContent, DecipherContent,
     LoadHeaderContent, StutterCInv DEF Next
<1> QED BY <1>1, <1>2, Invariance, PTL DEF Spec

LEMMA DoneLoaded ==
  ASSUME IInv, CInv
  PROVE  Loaded
<1> SUFFICES ASSUME stage = "done", NEW b \in ToLoad,
                    NEW k \in 0..game.bins[b].size - 1
             PROVE  mem[game.bins[b].dest + k] = Plain(game.bins[b].rom + k)
  BY DEF Loaded, Plain
<1>1. b \in Binaries /\ Read(b)
  BY DEF ToLoad, Read, Binaries, DsiBinaries
<1>2. RightByte(b, k)
  BY <1>1 DEF CInv, ContentInv
<1>3. ~Deciphered(b, k) => b \notin DsiBinaries
  BY DEF Deciphered, DsiBinaries
<1> QED BY <1>1, <1>2, <1>3, OwnKeys DEF RightByte

(* At the end the memory holds every binary from its first to its last     *)
(* byte, deciphered, whatever the alignment of its place on the card, of   *)
(* the copied areas and of the modcrypt areas (cardReadDirect,             *)
(* decrypt_modcrypt_area).                                                 *)
THEOREM LoadedRight == Spec => []Loaded
<1>1. IInv /\ CInv => Loaded
  BY DoneLoaded
<1> QED BY <1>1, Invariance, Contents, PTL

(* The header handed to the game lists no modcrypt area, and none is left. *)
THEOREM HeaderRight == Spec => []HeaderAgrees
<1>1. ASSUME IInv, CInv
      PROVE  HeaderAgrees
  <2> SUFFICES ASSUME stage = "done", DsiMode(game), NEW b \in DsiBinaries
               PROVE  b \in published <=>
                 \E k \in 0..game.areas[b].size - 1 :
                   mem[game.bins[b].dest
                         + (game.areas[b].rom - game.bins[b].rom) + k].keys # {}
    BY DEF HeaderAgrees
  <2>1. published = {}
    BY <1>1 DEF CInv, ListInv
  <2>2. ASSUME NEW k \in 0..game.areas[b].size - 1
        PROVE  mem[game.bins[b].dest
                     + (game.areas[b].rom - game.bins[b].rom) + k].keys = {}
    <3> DEFINE j == (game.areas[b].rom - game.bins[b].rom) + k
    <3>1. /\ b \in ToLoad /\ Loadable(game)
          /\ game.bins[b].rom \in Nat /\ game.bins[b].size \in Nat
          /\ game.bins[b].dest \in Nat
          /\ game.areas[b].rom \in Nat /\ game.areas[b].size \in Nat
      BY <1>1, GameFacts DEF ToLoad, Binaries, DsiBinaries
    <3>2. /\ game.bins[b].rom <= game.areas[b].rom
          /\ game.areas[b].rom + game.areas[b].size
               <= game.bins[b].rom + game.bins[b].size
      BY <3>1 DEF Loadable
    <3>3. /\ j \in 0..game.bins[b].size - 1
          /\ game.bins[b].dest + (game.areas[b].rom - game.bins[b].rom) + k
               = game.bins[b].dest + j
      BY <3>1, <3>2
    <3> HIDE DEF j
    <3>4. mem[game.bins[b].dest + j] = Plain(game.bins[b].rom + j)
      BY <1>1, <3>1, <3>3, DoneLoaded DEF Loaded, Plain
    <3>5. Plain(game.bins[b].rom + j).keys = {}
      BY DEF Plain, Rom, Zero, Byte
    <3> QED BY <3>3, <3>4, <3>5
  <2> QED BY <2>1, <2>2
<1> QED BY <1>1, Invariance, Contents, PTL
=============================================================================
