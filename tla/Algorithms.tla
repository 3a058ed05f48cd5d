----------------------------- MODULE Algorithms ------------------------------
(***************************************************************************)
(* The computations of the launcher, one call at a time, each against what *)
(* it is for: numbers and keys, chains of blocks, the cipher of the bus,   *)
(* memory moves and searches in binaries.  A call is a record [alg, ...]   *)
(* of a routine and its arguments; the block cipher itself runs step by    *)
(* step (Aes) when the call is "aes".                                      *)
(***************************************************************************)
EXTENDS Aes, CipherModes, Key1, MemoryCopy, Handover, SignatureSearch

CONSTANT Calls

(* The calls of the routines that are asked for with any argument: sizes   *)
(* and distances of any length, from the places the code uses.             *)
ParamsCalls ==
  [alg : {"params"}, pre : Nat, sdk : Nat, words : Nat, known : BOOLEAN, dsi : BOOLEAN]
SleepCalls ==
  [alg : {"sleep"}, kind : Kinds, gap : Nat, sdk : Versions, sleepMode : BOOLEAN]
HookCalls ==
  [alg : {"hook"}, handler : BOOLEAN, pre : Nat, body : Nat, table : Nat \ {NULL},
   linked : Nat, after : Seq(Nat), unitCode : Nat]

(* Numbers of any number of bytes, the same of both; keys of sixteen; the  *)
(* two words of a console's number.                                        *)
ArithmeticCalls == [alg : {"arithmetic"}, v : Seq(Byte), w : Seq(Byte), shift : Nat]
ScrambleCalls == [alg : {"scramble"}, key_x : Blocks16, key_y : Blocks16]
ConsoleIds == {id \in Seq(Byte) : Len(id) = 4} \X {id \in Seq(Byte) : Len(id) = 4}
DeriveCalls == [alg : {"derive"}, one : ConsoleIds, other : ConsoleIds, mode : Modes]

(* Strings in chains of blocks; the sectors of a text of one block at      *)
(* least, which are numbered in 32 bits; a secure area of whole blocks.    *)
ChainCalls ==
  [alg : {"chain"}, text : Seq(Byte), cut : Nat, key : Blocks16, iv : Blocks16,
   off : 0..15]
SectorCalls ==
  [alg : {"sectors"}, key : Blocks16, iv : Blocks16, text : Seq(Byte), offset : Nat]
NumbersSectors(c) ==
  LET count == Len(c.text) \div 16
  IN count >= 1 /\ (c.offset + count - 1) \div 65536 < 65536
SecureCalls ==
  [alg : {"secure"}, idcode : 0..(Words - 1), plain : Seq(Byte), device : CardKeys]
WholeBlocks(c) == c.plain # <<>> /\ Len(c.plain) % 2 = 0

(* A text to be sealed, whose length fits into its three bytes, under a    *)
(* nonce of twelve; and the byte of it or of the block that seals it that  *)
(* is changed, if any.                                                     *)
SealCalls ==
  [alg : {"seal"}, key : Blocks16, text : Seq(Byte), nonce : Seq(Byte),
   random : BOOLEAN, inText : Nat, inMeta : 0..32, more : Nat]
ProperSeal(c) ==
  /\ Len(c.nonce) = 12 /\ Len(c.text) < 16777216
  /\ c.inText <= Len(c.text) /\ (c.inText = 0 \/ c.inMeta = 0)

(* Moves and fills of memory in whole words, between places that do not    *)
(* overlap; by units from an aligned address, of at least one for the loop *)
(* (copyLoop).                                                             *)
Copying == {"tonccpy", "copyLoop"}
ByBytes == {"tonccpy", "toncset"}
MoveCalls ==
  [alg : {"move"}, mem : Seq(Byte), dst : Nat, src : Nat, size : Nat,
   how : Copying \cup ByBytes \cup {"toncset16", "toncset32", "dmaFill", "dma", "cpu"}]
BytesMoved(c) ==
  CASE c.how = "toncset16" -> 2 * c.size
    [] c.how = "toncset32" -> 4 * c.size
    [] OTHER -> c.size
ProperMove(c) ==
  /\ Len(c.mem) % 4 = 0
  /\ c.dst + BytesMoved(c) <= Len(c.mem)
  /\ c.how \in Copying =>
       /\ c.src + c.size <= Len(c.mem)
       /\ c.src + c.size <= c.dst \/ c.dst + c.size <= c.src
  /\ c.how = "dmaFill" => c.src + 4 <= Len(c.mem)
  /\ c.how = "toncset16" => c.dst % 2 = 0
  /\ c.how \notin ByBytes \cup {"toncset16"} => c.dst % 4 = 0 /\ BytesMoved(c) % 4 = 0
  /\ c.how = "copyLoop" => c.size # 0

(* The bootloader fits into the bank with its variables and an engine,     *)
(* from files that end at a word; the engine has no type of its own and    *)
(* has room for its data and for the path; without one nothing was started *)
(* from a file.  A file lies on a medium, and the console keeps the        *)
(* programs of its titles at one depth.                                    *)
HandoverCalls ==
  [alg : {"handover"}, boot : Seq(Byte), copy_end : Nat, params : Seq(Byte),
   engine : Seq(Byte), path : Seq(Nat)]
FitsTheBank(c) ==
  LET at == cardEngineLocation(c.boot, c.copy_end)
  IN /\ Len(c.params) = LoadSize /\ LoadSize <= Len(c.boot)
     /\ Len(c.boot) <= c.copy_end /\ Len(c.boot) % 4 = 0
     /\ at + DataSize <= VramSize /\ at + Len(c.engine) <= VramSize
     /\ IF c.engine = <<>> THEN c.path = <<>>
        ELSE /\ Len(c.engine) % 4 = 0 /\ DataSize <= Len(c.engine)
             /\ boot_path_offset + boot_path_max_len <= Len(c.engine)
             /\ Len(c.path) < boot_path_max_len
             /\ At(c.engine, boot_type_at) = NOT_SUPPORTED
IsAFile(path) ==
  /\ Len(path) # 1
  /\ has_been_booted_from_nand(path) /\ path[Len(path) - 1] = Content => Len(path) = 6

ASSUME CallsAssumption ==
  \A c \in Calls :
    /\ c.alg # "aes"
    /\ c.alg = "params" => c \in ParamsCalls /\ c.pre % 2 = 0
    /\ c.alg = "sleep" => c \in SleepCalls
    /\ c.alg = "hook" => c \in HookCalls
    /\ c.alg = "arithmetic" => c \in ArithmeticCalls /\ Len(c.v) = Len(c.w) /\ c.v # <<>>
    /\ c.alg = "scramble" => c \in ScrambleCalls
    /\ c.alg = "derive" => c \in DeriveCalls
    /\ c.alg = "chain" => c \in ChainCalls /\ c.cut <= Len(c.text)
    /\ c.alg = "seal" => c \in SealCalls /\ ProperSeal(c)
    /\ c.alg = "sectors" => c \in SectorCalls /\ NumbersSectors(c)
    /\ c.alg = "secure" => c \in SecureCalls /\ WholeBlocks(c)
    /\ c.alg = "move" => c \in MoveCalls /\ ProperMove(c)
    /\ c.alg = "handover" => c \in HandoverCalls /\ FitsTheBank(c) /\ IsAFile(c.path)

VARIABLES call, result

algVars == <<call, result, aesVars>>

Nothing == <<>>

Init ==
  \/ /\ call = [alg |-> "aes"]
     /\ result = Nothing
     /\ AesInit
  \/ /\ call \in Calls
     /\ result = Nothing
     /\ AesIdle

(* A routine returns.                                                      *)
Returns(alg, value) ==
  /\ call.alg = alg
  /\ result = Nothing
  /\ result' = value
  /\ UNCHANGED <<call, aesVars>>

-----------------------------------------------------------------------------
(* Numbers and keys.                                                       *)

Arithmetic ==
  Returns("arithmetic",
    [sum |-> u128_add(call.v, call.w), difference |-> u128_sub(call.v, call.w),
     left |-> u128_lrot(call.v, call.shift), right |-> u128_rrot(call.v, call.shift)])

Scramble ==
  Returns("scramble", [key |-> F_XY(call.key_x, call.key_y),
                       modcrypt |-> Scrambled(call.key_x, call.key_y)])

DeriveKeys ==
  Returns("derive", [one |-> generate_key(call.one, call.mode),
                     other |-> generate_key(call.other, call.mode)])

(* Sums, differences and rotations of strings of bytes are those of the    *)
(* numbers they stand for, carries and borrows between bytes included      *)
(* (u128_math.c).                                                          *)
NumbersAgree ==
  call.alg = "arithmetic" /\ result # Nothing =>
    ArithmeticOf(call.v, call.w, call.shift, result)

(* The key that is scrambled in place for the encrypted areas of a         *)
(* cartridge is the one F_XY makes, and F_XY_reverse gets back what went   *)
(* in; and two consoles have different keys for their NAND and for their   *)
(* sealed blocks (gm9i/f_xy.c, gm9i/crypto.c, main.arm7.c).                *)
KeysKeepTheirSecret ==
  /\ call.alg = "scramble" /\ result # Nothing =>
       /\ result.modcrypt = result.key
       /\ Unscrambled(result.key, call.key_x, call.key_y)
  /\ call.alg = "derive" /\ result # Nothing /\ call.mode # "NAND_3DS" =>
       (result.one = result.other <=> call.one = call.other)

(* The numbers of the launcher are numbers, and its keys differ where the  *)
(* consoles do: the two parts above (u128_math.c, gm9i).                   *)
NumbersAndKeys == NumbersAgree /\ KeysKeepTheirSecret

-----------------------------------------------------------------------------
(* Chains of blocks.                                                       *)

(* A text enciphered in two calls that hand on iv and iv_off, and          *)
(* deciphered in one.                                                      *)
Chain ==
  LET split(text) == [one |-> SubSeq(text, 1, call.cut),
                      two |-> SubSeq(text, call.cut + 1, Len(text))]
      text == split(call.text)
      cbc1 == aes_crypt_cbc(call.key, AES_ENCRYPT, call.iv, text.one)
      cbc2 == aes_crypt_cbc(call.key, AES_ENCRYPT, cbc1.iv, text.two)
      cfb1 == aes_crypt_cfb128(call.key, AES_ENCRYPT, call.off, call.iv, text.one)
      cfb2 == aes_crypt_cfb128(call.key, AES_ENCRYPT, cfb1.iv_off, cfb1.iv, text.two)
  IN Returns("chain",
       [cbc |-> aes_crypt_cbc(call.key, AES_DECRYPT, call.iv,
                              cbc1.output \o cbc2.output),
        refused |-> cbc1.ret # 0 \/ cbc2.ret # 0,
        cfb |-> aes_crypt_cfb128(call.key, AES_DECRYPT, call.off, call.iv,
                                 cfb1.output \o cfb2.output)])

(* A text that is enciphered piece by piece is deciphered as a whole;      *)
(* pieces that are not whole blocks are refused by CBC (polarssl/aes.c).   *)
ChainsContinue ==
  call.alg = "chain" /\ result # Nothing =>
    /\ result.cfb.output = call.text
    /\ IF call.cut % 16 = 0 /\ Len(call.text) % 16 = 0
       THEN ~result.refused /\ result.cbc.output = call.text
       ELSE result.refused

(* A block is sealed, perhaps changed, and opened.                         *)
Changed(v, p) == IF p = 0 THEN v ELSE [v EXCEPT ![p] = (@ + 1) % 256]

Seal ==
  LET init == dsi_es_init(call.key)
      es == IF call.random THEN dsi_es_set_random_nonce(init)
            ELSE dsi_es_set_nonce(init, call.nonce)
      sealed == dsi_es_encrypt(es, call.text, call.nonce)
  IN Returns("seal", dsi_es_decrypt(es, Changed(sealed.buffer, call.inText),
                                    Changed(sealed.metablock, call.inMeta),
                                    Len(call.text) + call.more))

(* What was sealed opens to what it was, whatever its length; with a byte  *)
(* of it changed, or another size claimed, it is refused (twltool/dsi.c).  *)
SealsHold ==
  call.alg = "seal" /\ result # Nothing =>
    IF call.inText = 0 /\ call.inMeta = 0 /\ call.more = 0
    THEN result = [ret |-> 0, buffer |-> call.text]
    ELSE /\ result.ret \in {-1, -2, -3}
         /\ call.more # 0 /\ call.inMeta = 0 => result.ret = -2

(* A change that the seal is no proof against: under another nonce, or     *)
(* with a size that was changed in both places, it is the cipher's luck    *)
(* whether the bytes agree (twltool/dsi.c:314-331).                        *)
LeftToTheCipher(c) == c.inMeta \in 18..29 \/ (c.inMeta \in 30..32 /\ c.more # 0)

(* Sectors of the NAND enciphered together, from any offset, and one at a  *)
(* time; an area of a cartridge deciphered twice from the same counter;    *)
(* a boot stage deciphered in one go and in two.                           *)
CryptSectors ==
  LET ctx == [key |-> dsi_set_key(call.key), ctr |-> Zeros(16)]
      counted == dsi_set_ctr(ctx, call.iv)
      count == Len(call.text) \div 16
      boot == dsi_boot2_crypt_set_ctr(call.offset)
      start == dsi_boot2_crypt(ctx, boot, call.text, 1)
  IN Returns("sectors",
       [together |-> dsi_nand_crypt(ctx, call.iv, call.text, call.offset, count),
        apart |-> Join([n \in 1..count |->
                          dsi_nand_crypt_1(ctx, call.iv, Block(call.text, n),
                                           (call.offset + n) - 1)], count),
        counter |-> dsi_crypt_ctr(dsi_set_ctr(ctx, u128_add32(call.iv, call.offset)),
                                  SubSeq(call.text, 1, 16 * count)).output,
        twice |-> decrypt_modcrypt_area(
                    counted, decrypt_modcrypt_area(counted, call.text).output).output,
        once |-> decrypt_modcrypt_area(counted, call.text).output,
        boot |-> dsi_boot2_crypt(ctx, boot, call.text, count).output,
        bootTwo |-> start.output
          \o dsi_boot2_crypt(ctx, start.ctr, SubSeq(call.text, 17, Len(call.text)),
                             count - 1).output])

(* A sector has one cipher text, however many are done at once and         *)
(* wherever its counter carries, the same as the counter mode gives; an    *)
(* area deciphered twice is what it was, and what follows its last whole   *)
(* block is never touched (gm9i/crypto.c, twltool/dsi.c, main.arm7.c).     *)
SectorsInAnyOrder ==
  call.alg = "sectors" /\ result # Nothing =>
    LET whole == 16 * (Len(call.text) \div 16)
    IN /\ result.together = result.apart
       /\ result.together = result.counter
       /\ result.boot = result.bootTwo
       /\ result.twice = call.text
       /\ SubSeq(result.once, whole + 1, Len(call.text))
            = SubSeq(call.text, whole + 1, Len(call.text))

-----------------------------------------------------------------------------
(* The cartridge bus.                                                      *)

SecureArea ==
  Returns("secure", decryptSecureArea(call.idcode,
                      SecureAreaOf(call.idcode, call.plain, call.device), call.device))

(* The secure area is deciphered to what the maker of the cartridge put    *)
(* there, its twice enciphered first block included (read_card.c:77,       *)
(* encryption.c).                                                          *)
SecureAreaReadable ==
  call.alg = "secure" /\ result # Nothing => result = call.plain

(* What is enciphered is what was there once it is deciphered, in whatever *)
(* pieces and order: chains, sectors, areas and the secure area            *)
(* (polarssl/aes.c, twltool/dsi.c, gm9i/crypto.c, encryption.c).           *)
ReadBack == ChainsContinue /\ SectorsInAnyOrder /\ SecureAreaReadable

-----------------------------------------------------------------------------
(* Memory.                                                                 *)

Move ==
  Returns("move",
    CASE call.how = "tonccpy" -> tonccpy(call.mem, call.dst, call.src, call.size)
      [] call.how = "toncset" -> toncset(call.mem, call.dst, 7, call.size)
      [] call.how = "toncset16" -> toncset16(call.mem, call.dst, <<7, 8>>, call.size)
      [] call.how = "toncset32" -> toncset32(call.mem, call.dst, <<7, 8, 9, 10>>, call.size)
      [] call.how = "copyLoop" -> copyLoop(call.mem, call.dst, call.src, call.size)
      [] call.how = "dmaFill" -> dmaFill(call.mem, call.src, call.dst, call.size)
      [] call.how = "dma" -> memset_addrs_arm7(call.mem, TRUE, call.dst, call.dst + call.size)
      [] call.how = "cpu" -> memset_addrs_arm7(call.mem, FALSE, call.dst, call.dst + call.size))

Repeated(bytes, n) == <<>> \o [i \in 1..n |-> bytes[((i - 1) % Len(bytes)) + 1]]

(* A move or a fill changes the bytes it is asked for and no other, at     *)
(* every alignment and length, and by writes that video memory takes; the  *)
(* two ways of clearing a stretch of words leave the same memory           *)
(* (tonccpy.c, common.h:82, dmaTwl.h, main.arm7.c:358).  A fill by         *)
(* halfwords or words is one from an aligned address.                      *)
MovesWhatItSays ==
  call.alg = "move" /\ result # Nothing =>
    Moves(call.mem, result, call.dst,
      CASE call.how \in {"tonccpy", "copyLoop"} ->
             Taken4(call.mem, call.src, call.size)
        [] call.how = "dmaFill" -> Repeated(Taken4(call.mem, call.src, 4), call.size)
        [] call.how = "toncset" -> Repeated(<<7>>, call.size)
        [] call.how = "toncset16" -> Repeated(<<7, 8>>, 2 * call.size)
        [] call.how = "toncset32" -> Repeated(<<7, 8, 9, 10>>, 4 * call.size)
        [] call.how \in {"dma", "cpu"} -> Zeros(call.size))

-----------------------------------------------------------------------------
(* The launcher's last deed.                                               *)

HandOver ==
  LET vram == runLaunchEngine(call.boot, call.copy_end, call.params, call.engine,
                              call.path)
      ready == ClearBss(vram, call.boot, call.copy_end)
  IN Returns("handover",
       [load |-> SubSeq(ready, 1, call.copy_end),
        header |-> SubSeq(ready, cardEngineLocation(call.boot, call.copy_end) + 1,
                          cardEngineLocation(call.boot, call.copy_end) + DataSize),
        engine |-> Placed(ready, cardEngineLocation(call.boot, call.copy_end),
                          Len(call.engine)),
        file |-> base_title_nand_path(call.path)])

(* The bootloader finds itself behind its parameters, its variables        *)
(* cleared, and the engine it copies to its place is whole but for the     *)
(* kind of program and the path, which is complete, ended and the one      *)
(* started from, or empty; a title is taken for one only if its data       *)
(* directory is known (main.cpp:793, launch_engine.c:66).                  *)
EngineArrives ==
  call.alg = "handover" /\ result # Nothing =>
    LET boot == call.boot
        isTitle == /\ Len(call.path) = 6
                   /\ SubSeq(call.path, 1, 2) = <<Nand, Title>>
                   /\ call.path[5] = Content /\ call.path[6] \in Apps
        type == CASE isTitle -> DSIWARE
                  [] call.path # <<>> /\ call.path[1] \in {Sd, Sdmc} -> SD
                  [] OTHER -> NOT_SUPPORTED
        path == SubSeq(result.engine, boot_path_offset + 1,
                       boot_path_offset + Len(call.path) + 1)
        rest == boot_path_offset + boot_path_max_len
    IN /\ result.load = call.params \o SubSeq(boot, LoadSize + 1, Len(boot))
                          \o Zeros(call.copy_end - Len(boot))
       /\ At(result.header, boot_type_at) = type
       /\ result.file = IF isTitle THEN SubSeq(call.path, 1, 4) ELSE <<>>
       /\ call.engine # <<>> =>
            /\ path = Append(call.path, 0)
            /\ Over(SubSeq(result.engine, 1, boot_path_offset), boot_type_at, <<0>>)
                 = SubSeq(call.engine, 1, boot_path_offset)
            /\ SubSeq(result.engine, rest + 1, Len(call.engine))
                 = SubSeq(call.engine, rest + 1, Len(call.engine))

-----------------------------------------------------------------------------
(* Searches.                                                               *)

FindParams ==
  Returns("params", findModuleParamsOffset(ParamsMemory(call.pre, call.sdk),
                      [at |-> 1, size |-> call.words], call.known, call.dsi))

PatchSleep ==
  LET mem == SleepMemory(call.kind, call.gap, call.sdk)
  IN Returns("sleep", patchSleepInputWrite(mem, [at |-> 1, size |-> Len(mem) \div 2],
                                           call.sdk, call.sleepMode))

Hook ==
  LET mem == IF call.handler
             THEN HandlerMemory(call.pre, call.body, call.table, call.linked, call.after)
             ELSE NoHandlerMemory(call.pre, call.after)
      size == Len(mem) - Len(call.after)
  IN Returns("hook", [at |-> getHookLocation(mem, [at |-> 1, size |-> size], call.unitCode),
                      size |-> size])

(* The parameters found are those of the binary, with their version, and   *)
(* one is made up only where there are none (main.arm7.c:166).             *)
ParamsAreTheGames ==
  call.alg = "params" /\ result # Nothing =>
    LET place == 2 + call.pre + 1
        whole == 2 * call.words > place + PARAMS_HALVES - 1
    IN IF whole THEN result = [found |-> TRUE, at |-> place, sdk |-> call.sdk]
       ELSE /\ ~result.found
            /\ result.sdk = CASE call.known -> LAST_NON_SDK5_VERSION
                              [] ~call.known /\ call.dsi -> FIRST_SDK5_VERSION
                              [] OTHER -> NULL

(* With the sleep mode off, the instruction of the first routine is        *)
(* replaced, in its own instruction set, and nothing else of the game is   *)
(* changed (main.arm7.c:246).                                              *)
OnlySleepInputPatched ==
  call.alg = "sleep" /\ result # Nothing =>
    result = IF ~call.sleepMode /\ SleepFound(call.kind, call.gap)
             THEN SleepPatched(call.kind, call.gap, call.sdk)
             ELSE SleepMemory(call.kind, call.gap, call.sdk)

(* Of decoys and the game's own, the launcher takes and changes the game's *)
(* own (main.arm7.c:166 and 246, find_common.c).                           *)
PatchesTheGame == ParamsAreTheGames /\ OnlySleepInputPatched

(* The hook goes to the table of the game's own handler, wherever it was   *)
(* linked; a handler left in memory after the binary is not taken for the  *)
(* game's, and without one only an SDK 5 binary of a known size has a      *)
(* table (hook.c:44).                                                      *)
HookIsTheGamesTable ==
  call.alg = "hook" /\ result # Nothing =>
    result.at = IF call.handler /\ Len(handlerStartSig) + call.body < MAX_HANDLER_SIZE
                THEN call.table
                ELSE IF call.unitCode # 0 /\ result.size \in DOMAIN HookOfSize
                THEN HookOfSize[result.size] ELSE NULL

-----------------------------------------------------------------------------
Next ==
  \/ AesNext /\ UNCHANGED <<call, result>>
  \/ Arithmetic \/ Scramble \/ DeriveKeys
  \/ Chain \/ Seal \/ CryptSectors
  \/ SecureArea
  \/ Move
  \/ HandOver
  \/ FindParams \/ PatchSleep \/ Hook

Spec == Init /\ [][Next]_algVars
=============================================================================
