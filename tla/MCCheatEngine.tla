--------------------------- MODULE MCCheatEngine ----------------------------
(* TLC's instance of CheatEngine: all lists of up to three items from an   *)
(* alphabet with every kind of code, and of up to five from the codes that *)
(* steer execution.                                                        *)
EXTENDS CheatEngine

Unit(op) ==
  [op |-> op, at |-> 1, rel |-> FALSE, value |-> 1, cmp |-> "eq", n |-> 0]

(* Items: a code with the data it carries.                                 *)
Code(op) == <<Unit(op)>>
Test(cmp, at, rel) ==
  <<[Unit("if") EXCEPT !.cmp = cmp, !.at = at, !.rel = rel]>>
Repeat(n) == <<[Unit("loop") EXCEPT !.n = n]>>
Carrier(op, n) ==
  <<[Unit(op) EXCEPT !.n = n], Unit("data")>>
  \o (IF n > 8 THEN <<Unit("data")>> ELSE << >>)

Steering ==
  {Test("eq", 1, FALSE), Test("ne", 1, FALSE), Repeat(2),
   Code("write"), Code("endif"), Code("endclear"), Code("endloop"),
   Carrier("patch", 8)}

Alphabet ==
  Steering \cup
  {Code(op) : op \in Gated \ {"if"}} \cup
  {Test("hi", 0, TRUE), Test("cc", 1, TRUE), Carrier("custom", 9),
   Carrier("remote", 5), Code("remote"), Code("patch")}

Last == Code("end")

MCLists ==
  {a \o b \o c \o Last : a, b, c \in Alphabet}
    \cup {a \o b \o c \o d \o e \o Last : a, b, c, d, e \in Steering}
=============================================================================
