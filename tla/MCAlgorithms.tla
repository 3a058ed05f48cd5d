----------------------------- MODULE MCAlgorithms -----------------------------
(* A small instance of Algorithms.                                         *)
EXTENDS Algorithms, TLC

Ramp(n, first, step) == <<>> \o [i \in 1..n |-> (first + (step * (i - 1))) % 256]

(* A block cipher to chain: every byte depends on those before it, and     *)
(* they are turned around.                                                 *)
MCCipher(key, v) ==
  LET c[i \in 0..16] ==
        IF i = 0 THEN 1 ELSE (Xor(v[i], key[i]) + (3 * c[i - 1]) + i) % 256
  IN Backwards([i \in 1..16 |-> c[i]])
MCDecipher(key, v) ==
  LET c(i) == IF i = 0 THEN 1 ELSE v[17 - i]
  IN <<>> \o [i \in 1..16 |-> Xor((c(i) - (3 * c(i - 1)) - i) % 256, key[i])]

(* Tables of the bus cipher.                                               *)
MCTable(a, b) == <<>> \o [i \in 1..KeyWordsTotal |-> ((a * i * i) + (b * i) + a) % Words]
MCTwl == MCTable(59, 101)
MCTwlDev == MCTable(83, 29)
MCData == MCTable(37, 11)

-----------------------------------------------------------------------------
(* The example keys of the standard, and blocks of zeros.                  *)
MCJobs ==
  {[key |-> Ramp(n, first, 1), plain |-> plain] :
     n \in {16, 24, 32}, first \in {0, 251}, plain \in {Ramp(16, 0, 17), Zeros(16)}}

Strings == {<<0, 0, 0>>, <<255, 255, 255>>, <<0, 1, 0>>, <<1, 0, 128>>,
            <<255, 0, 1>>, <<129, 126, 64>>}
Arithmetics ==
  [alg : {"arithmetic"}, v : Strings, w : Strings, shift : {0, 1, 7, 8, 9, 17, 24, 42}]
    \cup [alg : {"arithmetic"}, v : {<<a, b>> : a, b \in {0, 1, 255}},
          w : {<<0, 0>>, <<0, 1>>, <<1, 0>>, <<255, 255>>}, shift : {3, 42}]

Longs == {Zeros(16), Ramp(16, 255, 0), Ramp(16, 250, 3), Ramp(16, 7, 111)}
Scrambles == [alg : {"scramble"}, key_x : Longs, key_y : Longs]

Consoles == {<<a, b>> : a, b \in {Zeros(4), <<1, 0, 0, 128>>, Ramp(4, 9, 77)}}
Derivations == [alg : {"derive"}, one : Consoles, other : Consoles, mode : Modes]

Chains ==
  {c \in [alg : {"chain"}, text : {Ramp(n, 5, 9) : n \in {15, 16, 32, 35}},
          cut : {0, 1, 15, 16, 17, 32}, key : {Ramp(16, 3, 7)},
          iv : {Zeros(16), Ramp(16, 1, 1)}, off : {0, 5, 15}] :
     c.cut <= Len(c.text)}

(* Texts of no byte, of one, of a block and around it; each byte of the    *)
(* text and of the block that seals it.                                    *)
Seals ==
  {c \in [alg : {"seal"}, key : {Ramp(16, 3, 7)},
          text : {Ramp(n, 100, 31) : n \in {0, 1, 15, 16, 17, 33}},
          nonce : {Ramp(12, 20, 1)}, random : BOOLEAN,
          inText : 0..33, inMeta : {0, 1, 16, 17, 18, 29, 30, 32}, more : {0, 1}] :
     /\ c.inText <= Len(c.text) /\ (c.inText = 0 \/ c.inMeta = 0)
     /\ c.inText \in {0, 1, 16, Len(c.text)}}

Sectors ==
  [alg : {"sectors"}, key : {Ramp(16, 3, 7)},
   iv : {Zeros(16), Ramp(16, 255, 0), <<254, 255, 255, 0>> \o Ramp(12, 4, 5)},
   text : {Ramp(n, 77, 13) : n \in {16, 33, 63, 64}}, offset : {0, 1, 255, 65535}]

Secures ==
  [alg : {"secure"}, idcode : {0, 1, 129, 255},
   plain : {Ramp(2, 0, 0), Ramp(2, 9, 77), Ramp(6, 200, 13)}, device : CardKeys]

Moved ==
  {c \in [alg : {"move"}, how : {"tonccpy", "toncset", "toncset16", "toncset32",
                                 "copyLoop", "dmaFill", "dma", "cpu"},
          mem : {Ramp(60, 10, 1)}, dst : 4..7, src : 32..35, size : 0..21] :
     /\ c.how \in {"toncset16", "toncset32"} => c.size <= 5
     /\ c.how = "toncset16" => c.dst % 2 = 0
     /\ c.how \in {"toncset32", "copyLoop", "dmaFill", "dma", "cpu"} => c.dst = 4
     /\ c.how \notin {"tonccpy"} => c.src = 32
     /\ c.how \in {"copyLoop", "dmaFill", "dma", "cpu"} => c.size % 4 = 0
     /\ c.how = "copyLoop" => c.size > 0}

(* Files on each medium, at and off the places titles are kept at; from    *)
(* none on a DS, and there is always an engine in DSi mode.  The largest   *)
(* path just fits.                                                         *)
MCSd == 1
MCSdmc == 2
MCNand == 3
MCTitle == 4
MCContent == 5
MCApps == {6}
Paths ==
  {<<>>, <<1, 8>>, <<1, 20, 8>>, <<2, 21, 8>>, <<9, 8>>, <<3, 4, 20, 21, 5, 6>>,
   <<3, 4, 20, 21, 5, 8>>, <<3, 4, 20, 21, 22, 6>>, <<3, 20, 4, 21, 5, 6>>,
   <<1, 4, 20, 21, 5, 6>>, <<1, 4, 20, 21, 22, 23, 6>>, <<3, 6>>}
MCEngine(words) ==
  <<>> \o [i \in 1..(4 * words) |-> IF i \in 5..8 THEN 0 ELSE 150 + i]
Handovers ==
  {c \in [alg : {"handover"}, boot : {Ramp(n, 50, 1) : n \in {12, 20}},
          copy_end : {12, 20, 24, 28}, params : {Ramp(8, 200, 1)},
          engine : {<<>>, MCEngine(6), MCEngine(8)}, path : Paths] :
     /\ c.copy_end >= Len(c.boot)
     /\ c.engine = <<>> => c.path = <<>>}

-----------------------------------------------------------------------------
MCParamsSignature == <<901, 902, 903, 904>>
MCSleepEnd == [sdk \in {LAST_NON_SDK5_VERSION, FIRST_SDK5_VERSION} |->
                 <<911, 912, 913, 914 + sdk>>]
MCSleep == <<921, 922>>
MCSleep2 == <<923, 922>>
MCBeq == <<924>>
MCNop == <<925, 926>>
MCNopThumb == 927
MCSpan == <<4, 5, 7>>
MCStart == <<931, 932, 933>>
MCEnd == <<934, 935>>
MCHookOfSize == (12 :> 41) @@ (14 :> 43)

Params ==
  [alg : {"params"}, pre : {0, 2, 6}, sdk : {4, 5}, words : 1..14,
   known : BOOLEAN, dsi : BOOLEAN]

Sleeps == [alg : {"sleep"}, kind : {"arm", "arm2", "thumb"}, gap : 0..5, sdk : {4, 5},
           sleepMode : BOOLEAN]

(* Behind the binary there is nothing, or another handler.                 *)
Hooks ==
  [alg : {"hook"}, handler : BOOLEAN, pre : {0, 1, 8, 12}, body : 0..5,
   table : {5, 30}, linked : {0, 100}, after : {<<>>, Handler(0, 50, 60)},
   unitCode : {0, 2}]

MCCalls == Arithmetics \cup Scrambles \cup Derivations \cup Chains \cup Seals
             \cup Sectors \cup Secures \cup Moved \cup Handovers \cup Params \cup Sleeps \cup Hooks
=============================================================================
