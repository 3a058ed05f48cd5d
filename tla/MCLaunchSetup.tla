---------------------------- MODULE MCLaunchSetup ----------------------------
(* A small instance of LaunchSetup.                                        *)
EXTENDS LaunchSetup

MCMachines == Machine

DsGame == [there |-> TRUE, unit |-> FALSE, sdk5 |-> FALSE, dsiTouch |-> FALSE,
           browser |-> FALSE, top |-> FALSE, hookable |-> TRUE]

(* A DS game, a DSi game, one that sets up its touchscreen, the browser, a *)
(* flashcard, and one without a table.                                     *)
MCCards ==
  {DsGame, [DsGame EXCEPT !.unit = TRUE, !.sdk5 = TRUE],
   [DsGame EXCEPT !.unit = TRUE, !.sdk5 = TRUE, !.dsiTouch = TRUE],
   [DsGame EXCEPT !.browser = TRUE], [DsGame EXCEPT !.top = TRUE],
   [DsGame EXCEPT !.unit = TRUE, !.hookable = FALSE]}

(* Cleared memory, and words that look like either kind of game.           *)
MCMisread ==
  {NoCard, [NoCard EXCEPT !.unit = TRUE, !.dsiTouch = TRUE, !.hookable = TRUE],
   [NoCard EXCEPT !.browser = TRUE, !.hookable = TRUE]}

(* The linker scripts.                                                     *)
MCOrigin == [base |-> 58490896, isne |-> 38830096, expRam |-> 223379472]
MCWramA == [first |-> 58458112, last |-> 58720255]

MCDefaults ==
  [n \in Names |->
     CASE n \in Twl \cup {"language", "cartridge_read_type"} -> Default
       [] n = "sleepMode" -> 1
       [] OTHER -> 0]

(* The defaults, but for one setting, with the card engine on and off.     *)
MCSavedSettings ==
  UNION {{[MCDefaults EXCEPT !["runCardEngine"] = e, ![n] = v] : v \in Range(n)} :
            n \in Names, e \in {0, 1}}
=============================================================================
