--------------------------- MODULE SignatureSearch ---------------------------
(***************************************************************************)
(* What the bootloader looks for in the binaries it has loaded: the module *)
(* parameters of the ARM9 binary, the instruction that forgets the sleep   *)
(* input (main.arm7.c) and the table of interrupt handlers (hook.c), with  *)
(* the search of find_common.c.  Memory is a sequence of halfwords (of     *)
(* words for the handlers, all of which is ARM code), a place its index.   *)
(* A binary is [at, size], in words; memory goes on before and after it,   *)
(* and the search for a pattern stops at the end of the binary but the     *)
(* pattern does not.                                                       *)
(***************************************************************************)
EXTENDS Integers, Sequences

CONSTANTS
  moduleParamsSignature,              \* the two words after the parameters
  PARAMS_HALVES,                      \* the halfwords of them before it: 14
  sleepInputWriteEndSignature,        \* of a game of an SDK, two constants
                                      \* after the routine
  sleepInputWriteSignature,           \* movne r4, 0x8000
  sleepInputWriteSignature2,          \* movne r5, r4
  sleepInputWriteBeqSignatureThumb,   \* a branch, one halfword
  Nop, NopThumb,                      \* two halfwords and one
  SleepSpan,                          \* how far back from the constants: 14,
                                      \* 15 words and 24 halfwords in the code
  handlerStartSig, handlerEndSig,     \* five and four words in the code
  MAX_HANDLER_SIZE,                   \* 50 in the code
  HookOfSize                          \* the table of SDK 5 binaries by size

NULL == 0
LAST_NON_SDK5_VERSION == 4
FIRST_SDK5_VERSION == 5

(* What is said of the signatures: none has the word that blank memory has *)
(* here; the parameters' is two words, after an even count of halfwords    *)
(* (main.arm7.c:95); no word of a handler's start begins its end           *)
(* (hook.c:27-42).                                                         *)
ASSUME ParamsAssumption ==
  /\ moduleParamsSignature \in Seq(Nat \ {NULL}) /\ Len(moduleParamsSignature) = 4
  /\ PARAMS_HALVES \in Nat \ {0} /\ PARAMS_HALVES % 2 = 0

ASSUME HandlerAssumption ==
  /\ handlerStartSig \in Seq(Nat \ {NULL}) /\ handlerStartSig # <<>>
  /\ handlerEndSig \in Seq(Nat \ {NULL}) /\ handlerEndSig # <<>>
  /\ \A i \in 1..Len(handlerStartSig) : handlerStartSig[i] # handlerEndSig[1]
  /\ MAX_HANDLER_SIZE \in Nat

(* The two SDKs end the routine with different constants, and no halfword  *)
(* that an instruction begins with is in the constants or in another       *)
(* instruction (main.arm7.c:101-104: 0x0136, 0x0400, 0xFFA8 and 0x027F or  *)
(* 0x02FF; 0x4902, 0x13A0; 0x5004, 0x11A0; 0xD000), or is the one after    *)
(* the Thumb branch here.                                                  *)
Kinds == {"arm", "arm2", "thumb"}
Versions == {LAST_NON_SDK5_VERSION, FIRST_SDK5_VERSION}
Words1 == Nat \ {NULL, 1}
ASSUME SleepAssumption ==
  /\ sleepInputWriteSignature \in Seq(Words1) /\ Len(sleepInputWriteSignature) = 2
  /\ sleepInputWriteSignature2 \in Seq(Words1) /\ Len(sleepInputWriteSignature2) = 2
  /\ sleepInputWriteBeqSignatureThumb \in Seq(Words1)
  /\ Len(sleepInputWriteBeqSignatureThumb) = 1
  /\ \A sdk \in Versions :
       /\ sleepInputWriteEndSignature[sdk] \in Seq(Words1)
       /\ Len(sleepInputWriteEndSignature[sdk]) = 4
       /\ \A i \in 1..4 :
            sleepInputWriteEndSignature[sdk][i] \notin
              {sleepInputWriteSignature[1], sleepInputWriteSignature2[1],
               sleepInputWriteBeqSignatureThumb[1]}
       /\ \A other \in Versions \ {sdk} :
            /\ sleepInputWriteEndSignature[other][3]
                 # sleepInputWriteEndSignature[sdk][1]
            /\ \E i \in 1..4 : sleepInputWriteEndSignature[other][i]
                                # sleepInputWriteEndSignature[sdk][i]
  /\ sleepInputWriteSignature[1] \notin
       {sleepInputWriteSignature2[1], sleepInputWriteSignature2[2],
        sleepInputWriteBeqSignatureThumb[1]}
  /\ sleepInputWriteSignature2[1] \notin
       {sleepInputWriteSignature[2], sleepInputWriteBeqSignatureThumb[1]}
  /\ sleepInputWriteBeqSignatureThumb[1] \notin
       {sleepInputWriteSignature[2], sleepInputWriteSignature2[2]}
  /\ \A i \in 1..3 : SleepSpan[i] \in Nat

(* The pattern at place p.                                                 *)
IsAt(mem, p, find) ==
  \A j \in 1..Len(find) : p + j - 1 \in DOMAIN mem /\ mem[p + j - 1] = find[j]

(* Mutant: the last place of the stretch is not tried.                     *)
memsearch_Short(mem, start, dataLen, find, step) ==
  LET found == {n \in 0..(dataLen - 2) : IsAt(mem, start + (step * n), find)}
  IN IF found = {} THEN NULL
     ELSE start + (step * (CHOOSE n \in found : \A m \in found : n <= m))

(* memsearch32 and memsearch16: the first of dataLen places, step apart    *)
(* (of a word, of a halfword, or backwards), where the pattern is.         *)
memsearch(mem, start, dataLen, find, step) ==
  LET found == {n \in 0..(dataLen - 1) : IsAt(mem, start + (step * n), find)}
  IN IF found = {} THEN NULL
     ELSE start + (step * (CHOOSE n \in found : \A m \in found : n <= m))

findOffset(mem, start, words, find) == memsearch(mem, start, words, find, 2)
findOffsetBackwards(mem, start, words, find) == memsearch(mem, start, words, find, -2)
findOffsetBackwardsThumb(mem, start, halves, find) ==
  memsearch(mem, start, halves, find, -1)

-----------------------------------------------------------------------------
(* main.arm7.c: the module parameters, with the version of the SDK in the  *)
(* word before their signature.  For a binary without them a version is    *)
(* made up, if its game is the one known to be so or supports the DSi.     *)

EmulatedParams(sdk) == [found |-> FALSE, at |-> NULL, sdk |-> sdk]

findModuleParamsOffset(mem, arm9, knownGame, ROMsupportsDsiMode) ==
  LET p == findOffset(mem, arm9.at, arm9.size, moduleParamsSignature)
  IN CASE p = NULL /\ knownGame -> EmulatedParams(LAST_NON_SDK5_VERSION)
       [] p = NULL /\ ~knownGame /\ ROMsupportsDsiMode -> EmulatedParams(FIRST_SDK5_VERSION)
       [] p = NULL /\ ~knownGame /\ ~ROMsupportsDsiMode -> EmulatedParams(NULL)
       [] p # NULL /\ p <= PARAMS_HALVES -> EmulatedParams(NULL)
       [] OTHER -> [found |-> TRUE, at |-> p - PARAMS_HALVES, sdk |-> mem[p - 1]]

-----------------------------------------------------------------------------
(* main.arm7.c: the sleep input.                                           *)

(* Mutant: the halfword of the branch itself.                              *)
findSleepInputWriteOffset_Branch(mem, arm7, sdk) ==
  LET endOffset == findOffset(mem, arm7.at, arm7.size, sleepInputWriteEndSignature[sdk])
      arm == findOffsetBackwards(mem, endOffset, SleepSpan[1], sleepInputWriteSignature)
      arm2 == findOffsetBackwards(mem, endOffset, SleepSpan[2], sleepInputWriteSignature2)
      thumb == findOffsetBackwardsThumb(mem, endOffset, SleepSpan[3],
                                        sleepInputWriteBeqSignatureThumb)
  IN CASE endOffset = NULL -> [at |-> NULL, isArm |-> TRUE]
       [] endOffset # NULL /\ arm # NULL -> [at |-> arm, isArm |-> TRUE]
       [] endOffset # NULL /\ arm = NULL /\ arm2 # NULL -> [at |-> arm2, isArm |-> TRUE]
       [] OTHER -> [at |-> thumb, isArm |-> FALSE]

(* From the constants back: one ARM instruction, else the other, else the  *)
(* Thumb instruction after a branch.                                       *)
findSleepInputWriteOffset(mem, arm7, sdk) ==
  LET endOffset == findOffset(mem, arm7.at, arm7.size, sleepInputWriteEndSignature[sdk])
      arm == findOffsetBackwards(mem, endOffset, SleepSpan[1], sleepInputWriteSignature)
      arm2 == findOffsetBackwards(mem, endOffset, SleepSpan[2], sleepInputWriteSignature2)
      thumb == findOffsetBackwardsThumb(mem, endOffset, SleepSpan[3],
                                        sleepInputWriteBeqSignatureThumb)
  IN CASE endOffset = NULL -> [at |-> NULL, isArm |-> TRUE]
       [] endOffset # NULL /\ arm # NULL -> [at |-> arm, isArm |-> TRUE]
       [] endOffset # NULL /\ arm = NULL /\ arm2 # NULL -> [at |-> arm2, isArm |-> TRUE]
       [] OTHER -> [at |-> IF thumb = NULL THEN NULL ELSE thumb + 1, isArm |-> FALSE]

patchSleepInputWrite(mem, arm7, sdk, sleepMode) ==
  LET offset == findSleepInputWriteOffset(mem, arm7, sdk)
  IN IF sleepMode \/ offset.at = NULL THEN mem
     ELSE IF offset.isArm THEN [mem EXCEPT ![offset.at] = Nop[1],
                                           ![offset.at + 1] = Nop[2]]
     ELSE [mem EXCEPT ![offset.at] = NopThumb]

-----------------------------------------------------------------------------
(* hook.c: the table of interrupt handlers.                                *)

(* Mutant: the place right after the binary is tried.                      *)
hookInterruptHandler_Past(mem, addr, size) ==
  LET start == memsearch(mem, addr, size + 1, handlerStartSig, 1)
      end == memsearch(mem, start, MAX_HANDLER_SIZE, handlerEndSig, 1)
      after == end + Len(handlerEndSig)
  IN IF start = NULL \/ end = NULL THEN NULL
     ELSE (after + 2) + (mem[after] - mem[after + 1])

(* The handler begins in the binary and ends less than MAX_HANDLER_SIZE    *)
(* further on.  After its last instruction are the addresses, as linked,   *)
(* of the table and of the place it returns to, which is the next word:    *)
(* their difference leads from there to the table.                         *)
hookInterruptHandler(mem, addr, size) ==
  LET start == memsearch(mem, addr, size, handlerStartSig, 1)
      end == memsearch(mem, start, MAX_HANDLER_SIZE, handlerEndSig, 1)
      after == end + Len(handlerEndSig)
  IN IF start = NULL \/ end = NULL THEN NULL
     ELSE (after + 2) + (mem[after] - mem[after + 1])

getHookLocation(mem, arm7, unitCode) ==
  LET hookLocation == hookInterruptHandler(mem, arm7.at, arm7.size)
  IN IF hookLocation = NULL /\ unitCode # 0 /\ arm7.size \in DOMAIN HookOfSize
     THEN HookOfSize[arm7.size] ELSE hookLocation
-----------------------------------------------------------------------------
(* Reference: binaries as the SDK links them, with decoys.                 *)

Blank(n) == <<>> \o [i \in 1..n |-> NULL]

(* The parameters of a game after pre halfwords, one of which begins like  *)
(* the signature.                                                          *)
ParamsMemory(pre, sdk) ==
  <<moduleParamsSignature[1], moduleParamsSignature[2]>> \o Blank(pre)
    \o Blank(PARAMS_HALVES - 1) \o <<sdk>> \o moduleParamsSignature

(* A routine that writes the sleep input: its instruction, span words of   *)
(* code and its constants, after a routine of the other kind of SDK and an *)
(* earlier instruction like its own, before a second such routine.         *)
SleepInstruction(kind) ==
  CASE kind = "arm" -> sleepInputWriteSignature
    [] kind = "arm2" -> sleepInputWriteSignature2
    [] kind = "thumb" -> sleepInputWriteBeqSignatureThumb \o <<1>>
Routine(kind, gap, sdk) ==
  SleepInstruction(kind) \o Blank(2 * gap) \o sleepInputWriteEndSignature[sdk]
SleepMemory(kind, gap, sdk) ==
  LET other == IF sdk = FIRST_SDK5_VERSION THEN LAST_NON_SDK5_VERSION
               ELSE FIRST_SDK5_VERSION
  IN Blank(2) \o sleepInputWriteEndSignature[other] \o SleepInstruction(kind)
       \o Blank(2) \o Routine(kind, gap, sdk) \o Routine(kind, 0, sdk)
SleepPlace == 2 + 4 + 2 + 2 + 1     \* of the instruction of the first routine
SleepPatched(kind, gap, sdk) ==
  LET mem == SleepMemory(kind, gap, sdk)
  IN IF kind = "thumb" THEN [mem EXCEPT ![SleepPlace + 1] = NopThumb]
     ELSE [mem EXCEPT ![SleepPlace] = Nop[1], ![SleepPlace + 1] = Nop[2]]

(* Is the routine short enough for its instruction to be found?            *)
SleepFound(kind, gap) ==
  CASE kind = "arm" -> gap + 1 < SleepSpan[1]
    [] kind = "arm2" -> gap + 1 < SleepSpan[2]
    [] kind = "thumb" -> 2 * (gap + 1) < SleepSpan[3]

(* A handler after pre words, with body words of code, linked linked words *)
(* away from where it lies, and after the binary an older one.             *)
Handler(body, table, back) ==
  handlerStartSig \o Blank(body) \o handlerEndSig \o <<table, back>>
HandlerMemory(pre, body, table, linked, after) ==
  LET size == pre + Len(handlerStartSig) + body + Len(handlerEndSig) + 2
  IN Blank(pre) \o Handler(body, table + linked, size + 1 + linked)
       \o after
(* The same binary without a handler.                                      *)
NoHandlerMemory(pre, after) == Blank(pre) \o after
=============================================================================
