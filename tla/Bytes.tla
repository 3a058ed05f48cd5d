-------------------------------- MODULE Bytes --------------------------------
(***************************************************************************)
(* Bytes, tables and strings of bytes, for the modules about algorithms.   *)
(***************************************************************************)
EXTENDS Integers, Sequences

Byte == 0..255

(* A table of n entries, as a sequence: entry x is At(table, x).           *)
Table(n, entry(_)) == <<>> \o [i \in 1..n |-> entry(i - 1)]
At(table, x) == table[x + 1]

(* The operators of C on two bytes, from those on two nibbles.             *)
NibbleXor ==
  [a \in 0..15 |-> [b \in 0..15 |->
     LET bit(n) == (((a \div n) + (b \div n)) % 2) * n
     IN bit(1) + bit(2) + bit(4) + bit(8)]]
NibbleAnd ==
  [a \in 0..15 |-> [b \in 0..15 |->
     LET bit(n) == ((a \div n) % 2) * ((b \div n) % 2) * n
     IN bit(1) + bit(2) + bit(4) + bit(8)]]

Xor(a, b) ==
  (16 * NibbleXor[a \div 16][b \div 16]) + NibbleXor[a % 16][b % 16]
And(a, b) ==
  (16 * NibbleAnd[a \div 16][b \div 16]) + NibbleAnd[a % 16][b % 16]
Or(a, b) == (a + b) - And(a, b)

XorAll(v, w) == <<>> \o [i \in 1..Len(v) |-> Xor(v[i], w[i])]

Backwards(v) == <<>> \o [i \in 1..Len(v) |-> v[(Len(v) + 1) - i]]
Zeros(n) == <<>> \o [i \in 1..n |-> 0]

(* What is written over v at place p (counted from 0).                     *)
Over(v, p, w) ==
  SubSeq(v, 1, p) \o w \o SubSeq(v, p + Len(w) + 1, Len(v))
=============================================================================
