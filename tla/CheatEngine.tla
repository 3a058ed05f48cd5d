---------------------------- MODULE CheatEngine -----------------------------
(***************************************************************************)
(* The interpreter for cheat code lists, cheat_engine.s, which the card    *)
(* engine runs through once in every VBlank.  A list is a sequence of      *)
(* units of eight bytes: codes, and the data that some codes carry behind  *)
(* them.  One step of the model is one turn of main_loop, r10/r11 being    *)
(* the code it loads.                                                      *)
(*                                                                         *)
(* Addresses and values are small: arithmetic wraps around at MaxWord + 1, *)
(* accesses of 8, 16 and 32 bits are one kind, and so are conditions with  *)
(* and without a mask.  Numbers of repeats and bytes are not negative.     *)
(***************************************************************************)
EXTENDS Naturals, Sequences

CONSTANTS
  MaxWord,  (* bound: the largest address and value                         *)
  Lists     (* the code lists                                               *)

Words == 0..MaxWord

Writes == {"write"}
Conditions == {"if", "counter"}
Carriers == {"patch", "custom", "remote"}
Gated == Writes \cup Conditions \cup
         {"loadoffset", "codeoffset", "saveoffset", "copy", "setoffset",
          "setdata", "dataop", "storedata", "loaddata", "addoffset"}

(* at: an address, added to the offset if rel; value; cmp: what a          *)
(* condition compares or a data operation does; n: repeats or bytes.       *)
Units == [op: Gated \cup Carriers \cup
              {"loop", "endif", "endclear", "endloop", "end", "data"},
          at: Words, rel: BOOLEAN, value: Words,
          cmp: {"hi", "cc", "eq", "ne"}, n: Nat]

(* How many bytes a code carries behind it; of a remote call's arguments   *)
(* the code only counts the lowest three bits.                             *)
Carries(c) == CASE c.op \in {"patch", "custom"} -> c.n
                [] c.op = "remote" -> c.n % 8
                [] OTHER -> 0

(* Mutant: rounded down.                                                   *)
Align_Down(bytes) == bytes \div 8

(* align_cheat_list, in units.                                             *)
Align(bytes) == (bytes + 7) \div 8

(* Every code is followed by the data it carries and then by a code, until *)
(* the end.                                                                *)
WellFormed(l) ==
  /\ l # << >> /\ l[1].op # "data"
  /\ \A i \in 1..Len(l) :
       LET after == i + 1 + (Carries(l[i]) + 7) \div 8
       IN l[i].op \notin {"data", "end"} =>
            /\ after <= Len(l) /\ l[after].op # "data"
            /\ \A j \in i + 1..after - 1 : l[j].op = "data"

ASSUME CheatEngineAssumption ==
  /\ MaxWord \in Nat
  /\ Lists \subseteq {l \in Seq(Units) : WellFormed(l)}

VARIABLES
  list, running,
  next,        (* r12, in units                                             *)
  status,      (* r8: bit 0 set while codes are not to be executed          *)
  loopStatus,  (* r4                                                        *)
  loopStart,   (* r7                                                        *)
  repeats,     (* r6                                                        *)
  offset,      (* r9                                                        *)
  data,        (* r5                                                        *)
  mem, counter,
  conds,       (* history: the open conditions, and whether they held       *)
  loopConds,   (* history: those open where the last loop starts            *)
  nested       (* history: a condition or a loop was met inside one that    *)
               (* did not hold                                              *)

loop == <<loopStatus, loopStart, repeats>>
cheatHistory == <<conds, loopConds, nested>>
cheatVars == <<list, running, next, status, loop, offset, data, mem, counter,
          cheatHistory>>

CheatInit ==
  /\ list \in Lists /\ running = TRUE
  /\ next = 1 /\ status = 0
  /\ loopStatus = 0 /\ loopStart = 0 /\ repeats = 0
  /\ offset = 0 /\ data = 0
  /\ mem \in [Words -> {0}] /\ counter \in Words
  /\ conds = << >> /\ loopConds = << >> /\ nested = FALSE

-----------------------------------------------------------------------------

code == list[next]
Executing == status % 2 = 0
Plus(a, b) == (a + b) % (MaxWord + 1)
Successor == next + 1
AfterData == next + 1 + Align(Carries(code))

(* The old status moves up, bit 0 tells whether the condition holds.       *)
Push(holds) == status' = 2 * status + (IF holds THEN 0 ELSE 1)

Compare(c, word) ==
  \/ c.cmp = "hi" /\ c.value > word
  \/ c.cmp = "cc" /\ c.value < word
  \/ c.cmp = "eq" /\ c.value = word
  \/ c.cmp = "ne" /\ c.value # word

(* The address of a condition: with the offset, or the offset alone.       *)
Compared ==
  LET a == IF code.rel THEN Plus(code.at, offset) ELSE code.at
  IN IF a = 0 THEN offset ELSE a

Go(to) == running /\ next' = to /\ UNCHANGED <<list, running, counter>>

(* Mutant: only raw writes look at the status.                             *)
Skipped_Writes == ~Executing /\ code.op \in Writes

Skipped == ~Executing /\ code.op \in Gated \cup Carriers \cup {"loop"}

(* A code that is not executed leaves nothing; the data it carries is      *)
(* passed over like after its execution.                                   *)
Skip ==
  /\ Skipped
  /\ Go(AfterData)
  /\ conds' = IF code.op \in Conditions THEN Append(conds, FALSE) ELSE conds
  /\ loopConds' = IF code.op = "loop" THEN conds ELSE loopConds
  /\ nested' = (nested \/ code.op \in Conditions \cup {"loop"})
  /\ UNCHANGED <<status, loop, offset, data, mem>>

Executes(ops) == code.op \in ops /\ ~Skipped

(* 0 to 2, and F from the offset's address, of which one word stands for   *)
(* all.                                                                    *)
Write ==
  /\ Executes({"write", "copy"})
  /\ Go(Successor)
  /\ mem' = IF code.op = "write"
            THEN [mem EXCEPT ![Plus(code.at, offset)] = code.value]
            ELSE [mem EXCEPT ![code.at] = mem[offset]]
  /\ UNCHANGED <<status, loop, offset, data, cheatHistory>>

(* 3 to A, and C5, which compares the number of the VBlank.                *)
If ==
  /\ Executes(Conditions)
  /\ Go(Successor)
  /\ LET holds == IF code.op = "if" THEN Compare(code, mem[Compared])
                  ELSE counter = code.value
     IN Push(holds) /\ conds' = Append(conds, holds)
  /\ UNCHANGED <<loop, offset, data, mem, loopConds, nested>>

(* B, C4, D3 and DC.  The list itself lies outside the memory modelled.    *)
SetOffset ==
  /\ Executes({"loadoffset", "codeoffset", "setoffset", "addoffset"})
  /\ Go(Successor)
  /\ CASE code.op = "loadoffset" -> offset' = mem[Plus(code.at, offset)]
       [] code.op = "codeoffset" -> offset' \in Words
       [] code.op = "setoffset" -> offset' = code.value
       [] code.op = "addoffset" -> offset' = Plus(offset, code.value)
  /\ UNCHANGED <<status, loop, data, mem, cheatHistory>>

(* C0.                                                                     *)
LoopStart ==
  /\ Executes({"loop"})
  /\ Go(Successor)
  /\ loopStatus' = status /\ repeats' = code.n /\ loopStart' = Successor
  /\ loopConds' = conds
  /\ UNCHANGED <<status, offset, data, mem, conds, nested>>

(* C1 and C2: the function called may write anywhere; it keeps r4 to r11,  *)
(* and r12 is saved.                                                       *)
Call ==
  /\ Executes({"remote", "custom"})
  /\ Go(AfterData)
  /\ \E a, v \in Words : mem' = [mem EXCEPT ![a] = v]
  /\ UNCHANGED <<status, loop, offset, data, cheatHistory>>

(* D0, executed or not.                                                    *)
EndIf ==
  /\ Executes({"endif"})
  /\ Go(Successor)
  /\ status' = status \div 2
  /\ conds' = IF conds = << >> THEN conds ELSE SubSeq(conds, 1, Len(conds) - 1)
  /\ UNCHANGED <<loop, offset, data, mem, loopConds, nested>>

(* Mutant: the end of the repeats is not noticed.                          *)
Again_Last == repeats > 0 \/ loopStart > 0

Again == repeats > 0

(* Mutant: the loop's status is not restored.                              *)
EndLoop_KeepsStatus ==
  /\ Executes({"endloop", "endclear"})
  /\ Go(IF Again THEN loopStart ELSE Successor)
  /\ repeats' = IF repeats > 0 THEN repeats - 1 ELSE repeats
  /\ IF ~Again /\ code.op = "endclear"
     THEN status' = 0 /\ offset' = 0 /\ data' = 0 /\ conds' = << >>
     ELSE conds' = loopConds /\ UNCHANGED <<status, offset, data>>
  /\ UNCHANGED <<loopStatus, loopStart, mem, loopConds, nested>>

(* D1 and D2, executed or not, go back to the last loop or on.             *)
EndLoop ==
  /\ Executes({"endloop", "endclear"})
  /\ Go(IF Again THEN loopStart ELSE Successor)
  /\ repeats' = IF repeats > 0 THEN repeats - 1 ELSE repeats
  /\ IF ~Again /\ code.op = "endclear"
     THEN status' = 0 /\ offset' = 0 /\ data' = 0 /\ conds' = << >>
     ELSE status' = loopStatus /\ conds' = loopConds /\ UNCHANGED <<offset, data>>
  /\ UNCHANGED <<loopStatus, loopStart, mem, loopConds, nested>>

(* D4, D5, D9 to DB.  Of the data operations, the addition.                *)
SetData ==
  /\ Executes({"setdata", "dataop", "loaddata"})
  /\ Go(Successor)
  /\ data' = CASE code.op = "setdata" -> code.value
               [] code.op = "dataop" -> Plus(data, code.value)
               [] code.op = "loaddata" -> mem[Plus(code.value, offset)]
  /\ UNCHANGED <<status, loop, offset, mem, cheatHistory>>

(* D6 to D8 move the offset on; C6.                                        *)
Store ==
  /\ Executes({"storedata", "saveoffset"})
  /\ Go(Successor)
  /\ IF code.op = "storedata"
     THEN /\ mem' = [mem EXCEPT ![Plus(code.value, offset)] = data]
          /\ offset' = Plus(offset, 1)
     ELSE mem' = [mem EXCEPT ![code.value] = offset] /\ UNCHANGED offset
  /\ UNCHANGED <<status, loop, data, cheatHistory>>

(* E: words, then bytes, from behind the code.                             *)
Patch ==
  /\ Executes({"patch"})
  /\ Go(AfterData)
  /\ mem' = IF code.n = 0 THEN mem
            ELSE [mem EXCEPT ![Plus(code.at, offset)] = code.value]
  /\ UNCHANGED <<status, loop, offset, data, cheatHistory>>

End ==
  /\ running /\ code.op = "end"
  /\ running' = FALSE
  /\ UNCHANGED <<list, next, status, loop, offset, data, mem, counter, cheatHistory>>

CheatNext ==
  \/ Skip \/ Write \/ If \/ SetOffset \/ LoopStart \/ Call \/ EndIf \/ EndLoop
  \/ SetData \/ Store \/ Patch \/ End

(* Straight-line code on one CPU.                                          *)
CheatSpec == CheatInit /\ [][CheatNext]_cheatVars /\ WF_cheatVars(CheatNext)

-----------------------------------------------------------------------------
(* Properties.                                                             *)

(* The status never has more than one bit: a condition is only pushed on   *)
(* an empty one.  What a loop restores is always 0.                        *)
CheatTypeOK ==
  /\ list \in Seq(Units) /\ running \in BOOLEAN
  /\ next \in 1..Len(list)
  /\ status \in 0..1 /\ loopStatus = 0
  /\ loopStart \in 0..Len(list) /\ repeats \in Nat
  /\ offset \in Words /\ data \in Words
  /\ mem \in [Words -> Words] /\ counter \in Words
  /\ conds \in Seq(BOOLEAN) /\ loopConds \in Seq(BOOLEAN)
  /\ nested \in BOOLEAN

(* Data is never taken for a code, whether the code that carries it was    *)
(* executed or passed over, and whatever jumps back.                       *)
CodesOnly == code.op # "data"

(* Where conditions and loops stand side by side, or in others that hold,  *)
(* exactly the codes are executed whose conditions all hold.               *)
ExecutedRight ==
  ~nested => (Executing <=> \A i \in 1..Len(conds) : conds[i])

(* No list keeps the interrupt handler for ever, however its loops are     *)
(* nested or entered: a step goes to a later loop, or to an earlier repeat *)
(* of the same, or on.                                                     *)
Progress ==
  [][\/ ~running'
     \/ loopStart' > loopStart
     \/ loopStart' = loopStart /\ repeats' < repeats
     \/ loopStart' = loopStart /\ repeats' = repeats /\ next' > next]_cheatVars

Terminates == <>~running
=============================================================================
