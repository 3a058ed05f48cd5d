--------------------------- MODULE MCBinaryLoader ---------------------------
(* TLC's instance of BinaryLoader: a small card with two secure areas, and *)
(* games of which one binary takes every place and length.                 *)
EXTENDS BinaryLoader

None == [rom |-> 0, size |-> 0, dest |-> 0]
NoArea == [rom |-> 0, size |-> 0, ctr |-> [hi |-> 0, lo |-> 0]]

Bin(rom, size, dest) == [rom |-> rom, size |-> size, dest |-> dest]

(* A DS game, with its first binary anywhere.                              *)
Plain(rom, size, mode) ==
  [bins |-> [arm9 |-> Bin(rom, size, 9), arm7 |-> Bin(13, 5, 0),
             arm9i |-> None, arm7i |-> None],
   areas |-> [b \in DsiBinaries |-> NoArea],
   ciphered |-> FALSE, unitCode |-> 0, twlArea |-> 0,
   dsiConsole |-> TRUE, twlMode |-> mode]

(* A DSi game, with a binary anywhere about the DSi secure area and an     *)
(* area in each DSi binary.                                                *)
Dsi(rom, size, first, last, c, mode, ciphered) ==
  [bins |-> [arm9 |-> Bin(9, 3, 26), arm7 |-> Bin(15, 2, 20),
             arm9i |-> Bin(rom, size, 8), arm7i |-> Bin(34, 4, 0)],
   areas |-> [arm9i |-> [rom |-> rom + first, size |-> last - first, ctr |-> c],
              arm7i |-> [rom |-> 35, size |-> 2, ctr |-> [hi |-> 0, lo |-> 1]]],
   ciphered |-> ciphered, unitCode |-> 2, twlArea |-> 24,
   dsiConsole |-> TRUE, twlMode |-> mode]

MCCounters == [hi: {1}, lo: {0, 1}]

MCGames ==
  {g \in {Plain(rom, size, mode) :
            rom \in 0..24, size \in 0..9, mode \in {0, 2}}
         \cup {Dsi(rom, size, first, last, c, mode, ciphered) :
                 rom \in 20..32, size \in 0..8, first, last \in 0..6,
                 c \in MCCounters, mode \in 0..1, ciphered \in BOOLEAN}
         \cup {[Dsi(24, 6, 0, 6, c, 2, TRUE) EXCEPT !.dsiConsole = FALSE] :
                 c \in MCCounters} :
     g \in GameType /\ Loadable(g)}
=============================================================================
