# Verification of the Simple DS Slot-1 Launcher

A TLA+ development kept beside the launcher's source: specifications of its
parts, TLC configurations that check them on small instances, and TLAPS proofs
of the results that hold for every instance. Paths below are relative to the
repository (`src/` in `PROJECT.json`).

## 1. The system

The program starts a DS or DSi cartridge from a homebrew on a Nintendo DS, DSi,
3DS or a developer console. It runs in three stages on two CPUs without an
operating system, and each stage destroys the previous one:

1. the **launcher** (libnds program; `arm9/`, `arm7/`) lets the user choose the
   options, saves them, and hands a parameter block to the bootloader;
2. the **bootloader** (`bootloader/`) runs on the ARM7 from VRAM, with a 4 KB
   helper for the ARM9 in main RAM: it clears memory, reads the cartridge, sets
   the console's registers, patches the game and starts it on both CPUs;
3. the **card engine** (`cardengine_arm7/`) stays in memory behind the game's
   VBlank interrupt: language, power button, cheats, return to the launcher.

| component | state | operations | interacts with |
|---|---|---|---|
| options and their file (`arm9/source/main.cpp`, `old_launch_engine_structs.h`) | `all_options_data`; the file `s1l1_data.bin` on SD and NAND | set defaults, fix, edit, write, read and convert three old layouts | menu; parameter block |
| menu (`main.cpp`) | cursor, chords, inserted cartridge and its header | key presses, card insertion, autoboot, boot | options file, card |
| launch engine (`launch_engine.c`) | parameter block in VRAM D, passme loop in main RAM | fill in the block, give VRAM D away, reset the ARM7, loop | bootloader |
| launcher ARM7 (`arm7/source/main.c`) | FIFO | 3DS detection, power button, answers the ARM9 | launcher |
| ARM7/ARM9 handshake (`main.arm7.c`, `main.arm9.c`, `launch_ds_crt0.s`, `crt0.arm9.s`) | `arm9_stateFlag`, mailbox variables, vector, MBK/WRAM/SCFG registers | start-up, service loop, requests, jump | everything in the bootloader |
| memory reset (`main.arm7.c:358-476`) | main RAM, WRAM | clears all but the preserved ranges | handshake, cheats, debugger |
| card reader (`read_card.c`, `encryption.c`) | slot state, KEY1/KEY2 counters, chip ID, header | reset, header, KEY1, secure area, reads, one retry | slot, `arm7_loadBinary` |
| game set-up (`main.arm7.c`) | header copies, module parameters, user settings, decisions | load, modcrypt, patch, hook, publish | card reader, hook, handshake |
| hook (`hook.c`, `find_common.c`) | the game's interrupt table | find the handler, plant the card engine | card engine |
| card engine (`cardEngine.c`, `card_engine_header.s`, `i2c.c`, `common/source/reset_to_loader.c`) | timers, soft-reset flag, reboot block in main RAM, I2C | VBlank handler, power button, soft reset | the game, the console's MCU |
| cheat engine (`cheat_engine.s`) | registers of an Action Replay interpreter, the game's memory | one pass over the cheat list per frame | card engine |
| modcrypt (`twltool/dsi.c`, `u128_math.c`, `gm9i/`) | AES-CTR state | key derivation, counter mode | game set-up |

What makes this code hard to test: the two CPUs share one unprotected word; a
register write can be swallowed silently by a lock another CPU set; every stage
overwrites the memory of the one before while that one is still leaving; the
card protocol keeps counters that must agree with the ones in the cartridge;
options live longer than the layout they were saved in, and power can be lost
while they are written. A failure shows as a black screen on a console without
a debugger.

What makes each part correct is written as the properties of its module
(section 3); the lines at which it could go wrong are the `hazards` of
`PROJECT.json`.

## 2. Plan

Order: first what a failure of leaves a black screen with nothing to look at
(the two CPUs' handshake), then what can lose the user's choices, then the card,
then what stays in the game, then what the game is given.

| # | modules | state |
|---|---|---|
| 1 | `CommandMailbox`, `BootHandshake`: flag, mailbox, bank and SCFG registers, both CPUs; implements the abstract mailbox | modelled, checked, safety and refinement proved |
| 2 | `SavedOptions`, `OptionsMenu`: file formats and their conversions, menu, saving with power loss, launch | modelled, checked, proved |
| 3 | `CardReader`: reset, header, KEY1/KEY2, DSi half, retry | modelled, checked, proved |
| 4 | `CardEngine`: VBlank handler, power button, reset, return to the launcher | modelled, checked, safety proved |
| 5 | `CheatEngine`: the code list interpreter | modelled, checked, proved but for liveness |
| 6 | `BinaryLoader`: reads, modcrypt, header | modelled, checked, proved |
| 7 | `GameSetup`: clearing, settings, what the game finds | modelled, checked, proved |
| 8 | `Algorithms` with `Aes`, `Uint128`, `CipherModes`, `Key1`, `MemoryCopy`, `SignatureSearch`: ciphers, keys, copies and searches, each against what it is for | modelled, checked, proved |
| 9 | `LaunchSetup`: from the launcher's detection of the console and its menu over the choice of an engine to the bootloader's own decisions and the locked registers | modelled, checked, proved |
| 10 | `Handover`: the block in VRAM, what clears it and what is copied out of it | modelled, checked and proved as a part of `Algorithms` |
| 11 | one definition of DSi mode shared by `BinaryLoader`, `GameSetup` and `LaunchSetup`; they state it three times now | open |

Abstract specifications worth stating: the mailbox (done); the standard's
cipher (done, as test vectors for every round); a register of settings with one
writer that implements the firmware's two slots; a structured reading of a cheat
list that the interpreter implements where nothing is nested in a failing
condition.

The theorems are in eight modules: `BootHandshakeProofs` and `LaunchSetupProofs`
about the module of that name; `SettingsProofs` about the options menu and the game
set-up, where settings are written and read; `CartridgeProofs` about the card
reader and the binary loader, which read one after the other; `InGameProofs` about
the card engine and the cheat engine, which run in each VBlank; and about
`Algorithms`, `AlgorithmsProofs` (copies, hand-over, searches), `CipherProofs`
(modes of operation, cartridge cipher, sealed texts) and `KeyProofs` (arithmetic,
keys, AES).

## 3. The modules

Every definition that stands for code is listed with its lines in `map` of
`PROJECT.json`. A definition called `Name_Something` is a *mutant*: `Name` with
a plausible mistake; putting it in the place of `Name` makes TLC refute the
property it is listed with. Names of variables, functions and constants are
those of the source where there is one.

### 3.1 BootHandshake, CommandMailbox

Two program counters `pc7` and `pc9`, one location per access to something the
other CPU can see. `flag` is `arm9_stateFlag`, `mb` the mailbox variables beside
it, `vector` the word at 0x02FFFE24 the passme loop jumps through, `image` the
ARM9's code in main RAM, `banks` the MBK registers and WRAMCNT, `scfg7`/`scfg9`
the SCFG registers with their lock. `PlantEngine` is the last write to the ARM7's
own windows before the game's: an engine whose place is in WRAM-A has it mapped
there (main.arm7.c:1226), and `BanksAgree` says where the windows are with such an
engine, without one, and with a game that brings its own map. Whether the engine
is planted is decided by the cartridge as it was read or not (`EnginePlanted`,
main.arm7.c:1201). The ARM7's actions follow `arm7_main`, with
`Call...` for `arm9_performOperation`'s wait, argument, request, wait; the
ARM9's follow `main.arm9.c` from its start-up over the service loop, in which
each of the five loads of the flag is a step, to the jump. The steps of the
launcher that hand over (`launch_engine.c:133-146`) and the start-up code that
copies the ARM9's image and clears its variables are included.

`CommandMailbox` is what a requester may rely on: a request is performed once,
in order, and acknowledged before the next is posted. `BootHandshake`
implements it under the mapping `Service` (property `ImplementsMailbox`).

Facts of the hardware that are assumptions: caches do not come between the two
CPUs; MBK9 decides which slots the ARM9 may
write, as the comments beside `REG_MBK9` say; a locked SCFG register swallows
writes. `MaxLag < ClearSteps`: the ARM7 polls a few cycles apart, the clear that
`ARM9_START` lasts is 12288 stores. On a plain DS the MBK and SCFG registers do
not exist and what is said of them is vacuous.

Not reachable in the code, hence absent: the second `debugOutput`
(main.arm7.c:1241), as a missing hook location has switched the card engine off
before (1215). Not displayed: error codes (main.arm9.c:379 is commented out);
after a load error the ARM7 reports and goes on, and so do the models:
`BootHandshake`, `CardReader` (`GoOn`) and `LaunchSetup` (`LoadBinary`).
`BinaryLoader` and `GameSetup` are about boots whose card was read.

### 3.2 SavedOptions, OptionsMenu

`SavedOptions` holds the four layouts of the options file and their conversions
as functions on sequences of words (`old_launch_engine_structs.h`,
main.cpp:255-335). The words of the seven on/off switches of the block are one
word, since conversion, menu and file treat them alike. `ReadData` is
`read_data_from_path`: overlay of whatever was read on the memory, and the chain
of conversions. `OptionsMenu` is `main`: `data` is `all_saved_data`, `files`
what lies on SD and NAND, a write truncates first (`fopen "wb"`), may write only
a part or fail, and power may go at any step (`PowerOff`, then `PowerOn` with or
without the SD card). The cursor is wherever it has been brought; a key press is
one of the chords a frame can contain, as LEFT or RIGHT together with A move an
option twice and undo one step (main.cpp:754).

A consequence that is not a property: LEFT and A on the save entry bring the
save target to -1, and Save then silently does nothing.

### 3.3 CardReader

The card is the other side of the conversation (`slot`: mode, key table,
command counter) and is derived from what `read_card.c` sends it. Actions:
`ResetSlot`, `ReadHeader`, `DetectType`, `ActivateKey1`/`2`, `SecureChipId`,
`ReadSecureBlock`, `EnterDataMode`, `FinalSetup`, `SwitchToTwl` (second pass),
`PlainDataMode`, `ReadBanner`, `Retry`, `LoadBinaries`, `LoadTwlBinaries`. When the
second attempt has failed too, `arm7_main` goes on without a header of the card:
`GoOn` decides on DSi mode as the code does, from `twlMode` and from a unit code
that may be anything (FFs are one above 0), and a boot in DSi mode reads from the
card whatever the sizes in the header say (`RubbishRead`, `RubbishEnds`), with the
late switch to the DSi half on the way (`LateSwitch`). Contents are abstracted
to who wrote them: nobody, a card that did not answer (all ones), a disturbed
one, the card. `emulate_dsi` (false) and `do_banner_read` (true) are constants
of the code. A header may be read wrong in both attempts; a card that loses
contact after its header was checked is not modelled, as the code would not
notice. What `AreasInPlace` says ends where `BinaryLoader` begins.

### 3.4 CardEngine

The VBlank handler (`cardEngine.c`), `setRebootParams`
(`reset_to_loader.c`), the I2C layer and what `setMemoryAddress` prepares. The
power management chip is the other side: it collects presses and releases,
empties them when read, and acts by itself unless told to leave them to the
IRQ. A transfer succeeds or, after its eight tries, does not: reads then return
0xFF (`i2c.c:131`), which the handler takes for press and release; the property
allows for that and calls it a misread. The user presses, lets go and forms the
combination at any moment. Modelled for the DSi build; the other build of the
handler has neither button nor reset.

### 3.5 CheatEngine

One step is one turn of `main_loop` of `cheat_engine.s`. A list is a sequence
of 8-byte units, codes and the data behind some of them; registers are named
for what they hold (`status` r8, `loopStart` r7, ...). Widths and masks of
accesses and conditions are merged. The list's memory is apart from what codes
write; called functions write anything, once. `conds`, `loopConds` and `nested`
are histories that say which conditions are open.

### 3.6 BinaryLoader

`cardReadDirect`/`cardReadBlock` byte for byte: reads in blocks, from the copies
of header and secure areas or from the card, whose data reads wrap around in a
page and do not answer for the secure areas; up to four binaries; the modcrypt
areas deciphered in place by `dsi_crypt_ctr_block` with its ripple counter;
`loadHeader`. A byte is known by its ROM address and by the keystreams applied
to it. Block, page, digits and regions are parameters.

### 3.7 GameSetup

Main memory by pages of 4 KB as it is, addresses leading to it through `At`
(`page % visible`), since a game in DS mode sees 4 MB over and over from the
moment the ARM9 sets SCFG_EXT. `stage` is `arm7_main`'s next step:
`ResetMemory`, `loadHeader`, `readUserSettings`, `CopyInfo`, `HookCardEngine`,
`SetScfg` (the ARM9's answer, atomic because of `ServedAsAsked`),
`setMemoryAddress`; then the game runs and `ChangeLanguage` is the card
engine's part of each VBlank. Before all this the console's own menu writes the
firmware's two slots (`WriteSettings`): the older one, with the next counter,
possibly only half. Not modelled: WRAM, clocks, the region byte, fixes for
single games, and the copies of the header at 0x02FFC000 and 0x02FFE000, which
keep the iQue mark.

### 3.8 LaunchSetup

The decisions that two programs take one after the other about the same
machine. The launcher tells a DSi from a 3DS by a register that does not take
what is written to it (`arm7/source/main.c`), reads the card's header when it
starts and again at START, shows the settings that suit the console
(`main.cpp`), and chooses one of three card engines by them
(`launch_engine.c:50`). The bootloader gets the block, reads the card again and
decides on the mode, the touchscreen, sound, clocks, SD access and memory, plants
the engine, puts the cheats beside it and locks the registers
(`main.arm7.c`). `stage` is the next of these steps. `game` is what the bootloader
has: the card, or when it could not be read one of `Misread`, what memory holds in
the header's place; the boot goes on with either. A card may be exchanged
until START; the settings may come from a file written on any console.
`Outcome` is everything the settings do to the game that is started now: what the
menu does not show must not be able to change it. Addresses are those of the
linker scripts.

### 3.9 Handover

The image the launcher lays out in VRAM D: the bootloader, the parameters, the
card engine, and behind the engine the path a reset returns to, with the kind of
program the launcher was started as (`main.cpp`, `launch_engine.c`). The
bootloader's start-up clears what follows its own code up to an end the linker
chose (`launch_ds_crt0.s`), and only then copies the engine to its place
(`main.arm7.c:1231`). `EngineArrives` says that what arrives there is the engine
and the whole path. A path is a sequence of names, a name is one byte.

### 3.10 Algorithms and its parts

`Algorithms` is a machine that makes one call and compares what comes back with
what the routine is for. `Aes` alone runs in steps, one for each turn of a loop
of `polarssl/aes.c`; `CipherOfTheStandard` relates the state after each round to
the standard's vectors, and decryption to what was encrypted.

* `Uint128`: additions, differences and rotations of strings of bytes, compared
  with integers; the keys made of them (`u128_math.c`, `gm9i/f_xy.c`,
  `gm9i/crypto.c`, the modcrypt key of `main.arm7.c`).
* `CipherModes`: chaining, counting, sealing (CCM, ES) and NAND sectors over any
  block cipher. What was encrypted in pieces is decrypted in one and in pieces;
  a sealed block with one byte changed is refused.
* `Key1`: the cipher of the cartridge bus, the preparation of its table from a
  game code and the secure area's decryption (`encryption.c`, `read_card.c`).
  Digits of base 4 make every table small enough to be looked through.
* `MemoryCopy`: `tonccpy`, `toncset`, `copyLoop`, the DMA fills, as sequences of
  writes; no write is a single byte, since VRAM does not take one.
* `SignatureSearch`: the searches of `find_common.c`, `hook.c` and
  `main.arm7.c`, with decoys before, in and behind the binary. A found handler
  is the one of this game, a patched instruction is the sleep routine's.

Of the modes only the counter mode, AES encryption, `u128_xor`, `u128_add`,
`u128_lrot` and `Key1` are reached from `arm7_main`; CBC, CFB, AES decryption,
CCM, ES, NAND sectors, `generate_key`, `F_XY`, `F_XY_reverse`, `u128_sub` and
`u128_rrot` are compiled in and nothing calls them yet. They are modelled since
they are the part of the repository whose mistakes would show latest.

## 4. Runs

All passing runs are exhaustive. Deadlock is checked for the handshake, the
menu and the card reader, where the end is a step of its own; the other modules
stop or go on with the game and say `CHECK_DEADLOCK FALSE`. Type invariants are
not in the configurations, since theorems state them (section 5).

| run | instance | shows |
|---|---|---|
| `boot_handshake` | all cartridges; all options that matter together, an engine for WRAM-A with and without doubled memory; clear of 3 steps, lag 2 | one word for requests and answers suffices: nothing lost, doubled or out of order (`MailboxDelivered`, `ServedAsAsked`, `ImplementsMailbox`); the CPUs keep in step (`InStep`: none runs code that is not there, the short second START is seen, the ARM7 clears only what it was given, both jump together); the registers and memory banks are right, with an engine in WRAM-A as without, and both boot (`BothBoot`) |
| `options_menu` | one file of each version on SD, the newest or none on NAND; 7 kinds of console; 3 key presses, 2 saves | what was last saved completely comes back, the block fits the console, no unwanted start |
| `options_autoboot` | as above, 1 press | **violated** `AutobootAsSaved`: autoboot off in a file of version 1.0 or 1.1 is lost in conversion |
| `card_reader` | every kind of card, DS and DSi, every outcome of both header reads, and the boot that goes on when both failed | the card understands every command but of that last boot in DSi mode, detection is right, the areas are in place |
| `card_retry` | the same | **violated** `RetailDsiRecognised`: the clearing of FFs tests the old header |
| `card_engine` | all setups; power-off after 3 frames; 2 failing transfers | reset and power-off when asked (`PressAnswered`) and only then; the next boot finds the launcher; a game that goes on is untouched, unless the order to reset itself failed |
| `cheat_engine` | all lists of 3 items over all codes, of 5 over steering codes; words modulo 2 | only codes are executed, and those whose conditions hold; every list ends |
| `binary_loader` | blocks of 4, pages of 8, every place and length of a binary and of an area | everything arrives, deciphered once, and nothing else is written |
| `game_setup` | every console, game, mode and choice of language; counter below 3, 2 writes | the game finds current settings, header and values; the clearing spares what it must |
| `launch_setup` | every console, six kinds of card and three headers nobody gave, every value of each setting beside the defaults; one change in the menu, one exchange of the card | the memory of the engine that was chosen is there when the game runs, its cheats lie beside it, the console is known for what it is, what the menu hides does nothing, the game that was read gets its mode, and the registers that were chosen for it |
| `algorithms` | keys of all lengths from the standard; texts, copies and memories of up to some sixty bytes, all about a block's or a word's boundary | each computation does what it is for |
| `game_language` | the same as `game_setup` | **violated** `LanguageInSettings`: an SDK5 game with all memory visible keeps its settings elsewhere than at the card engine's fixed address, where the language goes in each frame |

Why the bounds are enough. Handshake: nothing but the clear is bounded; 3 and 2 are
the smallest numbers with a poll inside the clear, and the proofs hold for all.
Menu: two saves give two media with different contents and a failed second
write; three presses edit, change the target and save. Card engine: 3 frames
tell press, hold and limit apart; two failures reach a failed reset after a
misread. Cheats: five items nest two conditions in a loop or a loop in a
condition with something behind it; words of one bit wrap around. Loader: 4, 8
and 8 keep blocks smaller than pages and give every alignment; two digits carry
once. Settings: a counter below 3 is the smallest in which one ahead and one
behind differ, and two writes wrap it around. Launch: decisions look at one or
two settings at once, and a file that differs from the defaults in one, with the
engine on or off, and one change reach all of these; one exchange gives a card
that is not the one the menu was made for. Algorithms: the lengths are those just
below, at and just above a block, the bytes those that carry, borrow and wrap; a
toy cipher in the chains tells every byte and every position apart, which is all
the modes rely on; 64 bytes of VRAM leave the largest engine and path just
room. Everything but liveness that the runs check is proved for all values
(section 5); of `SealsHold`, all but what a changed nonce does.

Fairness. `BootHandshake`: weak fairness of each CPU: each has its own clock, no
interrupts are enabled and nothing suspends either. `CardEngine`: weak fairness
of the ARM7, as VBlanks keep coming while the console is on; the user is under
no obligation. `CheatEngine`: weak fairness of its one straight-line program.
The other modules state safety only.

## 5. Proofs

`...Proofs` modules, checked by TLAPS without gaps. All follow one plan: an
inductive invariant, one lemma for each action, a theorem that it holds
(`HandshakeInvariant`, `RegistersInvariant`; `MenuInvariance`; `ReaderInvariance`;
`CheatInvariance`; `Invariance` elsewhere), and each property as a corollary. They
assume only the named assumptions on constants and, where a block cipher is a
constant, that its `Decipher` undoes its `Cipher` (`CipherInverts`, a hypothesis of
the theorems that need it; the cipher of the run has it, and so has AES by
`AesDecrypts`).

* **Handshake.** For each part of the ARM7's path, where the ARM9 can be and
  what the flag says (`Sync`); what the mailbox and the registers hold by then.
  The properties alone are not inductive: a missed START is excluded only by
  knowing how much of the clear is left when the ARM7 polls. `ServedInv` says,
  for each place of the ARM7, which part of the list of requests the ARM9 has
  performed; `ServedAsAsked` follows from both. `BanksInv` has where each window is
  after each write to it, those for the engine and for the game included. The
  refinement maps
  every step to a step of the mailbox or to a stutter.
* **Options.** What was last saved completely is what the file holds, whatever
  is being written; the conversions keep every option in its range (lemmas on
  `ReadData` for each version).
* **Card reader.** For each step of `cardInit`, both command counters, the
  blocks read, the card's mode and table, and what the headers hold.
  `Understood` names its exception: the card is confused only in a boot that went on
  in DSi mode after the second attempt had failed, when it was reset and no more.
  `RetryRecognises` delimits the finding on the retry: whatever the first attempt
  left, a card whose header comes right at the second is taken for what it is, but
  for one that shows its bytes at 0xE00 and whose header was cleared as FFs.
* **Card engine.** The count never exceeds the reads in a row that found the
  button down; memory and sound are touched only on the way to an order to reset,
  and survive it only if that one write failed (`unheard`); each part of the reboot block is there once its step is passed.
* **Cheat engine.** `next` and the loop's start stand on codes; the one bit of
  the status says whether the innermost open condition failed, as long as
  nothing was nested in a failing one. `Progress` (each step moves on in the
  order loop, repeats, place) is the variant behind termination.
* **Binary loader.** What is read so far is right, reading goes on at block
  boundaries, deciphering with the counter of its place. The arithmetic of
  blocks and pages is in lemmas on quotients and remainders.
* **Game set-up.** The slot last written is whole and one ahead of the other;
  before the memory shrinks, what the game will look for is both where the
  header was put and in the last page of four megabytes. A second invariant,
  `KeptInv`, says what is still as the launcher left it; of each later write it
  only has to be shown that it goes to a page that was cleared.
* **Launch.** What the bootloader knows is what the launcher wrote for that card
  and that console; after each later step, `hw` is the function of both that the
  step's code computes. `SameGame` relates the card of the second read to that of
  the first, and says of what was not read only that it has no parameters of SDK 5:
  `HardwareAsChosen` then claims the mode for a card that was read, and registers
  that fit the mode for any. That hidden settings do nothing is shown for any two
  settings that agree on what is shown.

* **Algorithms.** `Calls` is any set of calls that satisfies `CallsAssumption`:
  sizes, distances and memories have no bound. A routine that moves memory is a
  sequence of writes that lie side by side (`Tiles`): the parts of `tonccpy` and
  `toncset` tile their stretches, tilings that meet make a tiling, and a tiling
  leaves in memory what its writes hold (`TilesGive`). The bank of video memory
  is described byte by byte after each copy over the one before (`Launched`,
  `LaunchReady`, `LaunchArrives`). A search stops at the first match: the places
  before it are excluded one by one, by a byte of the signature that the filler
  and the decoys lack. Statements over all lengths are proved by the least
  length that contradicts them.
* **Modes of operation** (`ReadBackTheorem`). CBC and CFB recur over blocks and
  bytes; both directions are followed side by side, with the set of the places up to
  which they agree (`UpTo`: 0 is in it, and with each place the next): the state that
  one leaves is the one the other finds, across the cut between two calls too.
  Counter runs are sums: the counter of block `n` is the first one and `n`, with
  its carries, so that sectors agree in any order. In the secure area each round of
  Key1 is the mirror image of one before it.
* **Sealed texts** (`SealsTheorem`). A seal is a flow: states, each from the one
  before and a block of the text. Two flows from one state whose cipher texts agree
  at a place agree there in the text as well; as every block goes through the
  cipher, one block that differs leaves another seal, and equal blocks behind it
  keep it another. The last block, filled up with key stream, opens to the zeros it
  was sealed with. In the block that seals, a changed mark or size is read as such.
  What is left out is named, `LeftToTheCipher`: with a nonce that was changed, or a
  size that was changed in the block and in the call alike, everything is opened
  under another stream, and there are ciphers under which the answer is 0.
* **Numbers and keys** (`NumbersTheorem`). A sum is described by its
  carries (`SumOf`), and the number a string stands for by those of its upper bytes,
  each 256 times the one before and a byte (`Tops`), so that no power of 256 is
  needed; turning is a map of the 128 bits onto themselves, once around and back.
  What a key is made from can be had back from it.
* **AES** (`AesDecrypts`, `AesOfTheStandard`). For every key of every length, every
  block and after each round: the context that decrypts holds the round keys
  backwards, their columns multiplied; a round that decrypts leaves what the round
  that encrypts had found; and each round is the standard's four steps one after the
  other. That the tables hold what they should (`BoxesAssumption`,
  `ColumnsAssumption`, `SumsAssumption`, `StandardAssumption`) has no variable in
  it: these are facts about 2560 numbers and their pairs, which TLC evaluates on each
  run of `algorithms`, entry by entry, from `aes_gen_tables` as the code makes it.

What is assumed of the constants is what the source fixes: the lengths and the
letters of the signatures (main.arm7.c:95, 101-104; hook.c:27-42), the offsets
of the launcher's block and the sizes of its bank, the values of the media. What
`CallsAssumption` asks of a call is what callers keep: `tonccpy` is given
stretches that do not overlap and whose last word lies in memory, `toncset16` an
even address, the loops by words whole words from a word's boundary, `copyLoop`
at least one of them; bootloader and engine are made to fit into the bank and end
at a word's boundary; a path has at least a medium and a name, and a title's
path has the depth the console gives it; keys and counters have 16 bytes, console
ids two words, both sides of an addition are equally long and not empty; sectors
are counted in 32 bits and there is one at least; a secure area is whole blocks; a
text to be sealed is shorter than 2^24 bytes, for its length gets three bytes, and
a nonce has twelve.

Only model-checked:

* all liveness (`BothBoot`, `PressAnswered`, `Terminates`), which with `ENABLED`
  is beyond the prover;
* that `SealsHold` includes a changed nonce: it is not true of every cipher, only
  of the one the run takes;
* what the tables of AES hold, as said above.

## 6. Disagreements found

Listed with quotations in `findings` of `PROJECT.json`, each shown by a run:
autoboot lost from files of version 1.0/1.1 (main.cpp:311); after a failed first
attempt a good header cleared as if it were FFs (read_card.c:523); the language
of SDK5 games with all memory visible (cardEngine.c:48).

Met while modelling, without a run of their own:

* an extended header of FFs is not cleared at the first attempt either, as the
  test looks at what was in memory before (read_card.c:523);
* conditions of cheats in a failing one are not pushed but popped
  (cheat_engine.s:75, 286), although line 43 allows them to be nested;
  `ExecutedRight` is said of lists without them;
* a reset whose last write the chip does not get leaves the game without sound and
  with the reboot block in its memory, until a later frame resets it
  (cardEngine.c:76);
* the last block of a binary is written over the beginning of one that was read
  before and lies right behind it (main.arm7.c:812); `Loadable` takes games whose
  later reads spare the earlier ones;
* of several sleep routines the first is patched (main.arm7.c:252), and no more
  than that is shown;
* `copyLoop` of no byte wraps around (common.h:85); the engine is switched off
  when its size is 0, so that nothing calls it so;
* LEFT or RIGHT together with A leaves the save entry out of its range
  (main.cpp:754), and Save then silently does nothing;
* a card that loses contact after its header was checked goes unnoticed
  (read_card.c:733);
* the search for a handler's end is not bounded by its binary (hook.c:66); the
  memories it is compared over hold a handler as a whole or not at all;
* `debugOutput` returns and `arm7_main` goes on when no card could be read
  (main.arm7.c:147, 1064). With `twlMode` 2, or a unit code left in memory, it reads
  from a card that was only reset (1076), and touchscreen, clocks and locks follow
  the mode of a header nobody gave: a DSi game may be set up and locked as a DS game.

## 7. Not modelled

* `polarssl/bignum.c`, `bn_mul.h`, `padlock.h`: vendored arithmetic for RSA and
  an x86 instruction, of which nothing is called;
* `decompress.c`: nothing calls it;
* drawing, fonts, icons, texts and the payloads of a debugging build: output only;
* writes for single games and for the DS browser (main.arm7.c:875-906, 977-985):
  constants written under one condition each;
* lists of register values without control (touchscreen routines, sound
  channels), and assembler helpers of a few instructions; the jumps, the clear
  and the change of the clock are steps of `BootHandshake`;
* DMA transfers of `dmaTwl.h` that nothing calls; key tables; build files.

Timing is not modelled: delays in the card protocol and in the wait for a
cartridge are steps without length. KEY2 and the bus itself belong to the
hardware.
