------------------------------ MODULE KeyProofs ------------------------------
(***************************************************************************)
(* Numbers, keys and the cipher that takes them.                           *)
(*                                                                         *)
(* The arithmetic of Uint128 is proved for strings of any length: what the *)
(* additions, differences and rotations of u128_math.c compute, that a key *)
(* scrambled by gm9i/f_xy.c gives back what it was made of, and that the   *)
(* keys of gm9i/crypto.c differ where the consoles do.  A sum is known by  *)
(* its carries (SumOf of CipherProofs), a number by the values of its      *)
(* upper bytes (Tops), a rotation by where it takes each bit from          *)
(* (TurnedBits within a byte, PlacesAround among the bytes).               *)
(*                                                                         *)
(* The block cipher (Aes) is proved for every key and block to be the      *)
(* standard, and to decrypt what it encrypts.  Its rounds are sums of      *)
(* words, the bytes of a block under an exclusive or; a decrypting round   *)
(* is a sum that goes through sums (UnmixedAdds), and so takes back what   *)
(* an encrypting round made, under the key from the other end of the       *)
(* schedule (RoundUndone).                                                 *)
(***************************************************************************)
EXTENDS CipherProofs

(* Quotient and remainder make up a number, and nothing else does.         *)
LEMMA Larger ==
  ASSUME NEW m \in Nat \ {0}, NEW y \in Int, NEW z \in Int, y < z
  PROVE  m * y + m <= m * z
<1>1. z - y >= 1 /\ z - y \in Int /\ m >= 1
  OBVIOUS
<1>2. m * (z - y) >= m
  <2> DEFINE d == z - y
  <2>1. d \in Int /\ d >= 1
    BY <1>1
  <2> HIDE DEF d
  <2>2. m * d >= m
    BY <1>1, <2>1
  <2> QED
    BY <2>2 DEF d
<1>3. m * (z - y) = m * z - m * y
  OBVIOUS
<1>4. m * z \in Int /\ m * y \in Int
  OBVIOUS
<1> QED
  BY <1>2, <1>3, <1>4

(* A remainder from a number that is made of quotient and remainder.       *)
LEMMA RemainderIs ==
  ASSUME NEW m \in Nat \ {0}, NEW r \in 0..(m - 1), NEW q \in Int, NEW a \in Int,
         a = (m * q) + r
  PROVE  a % m = r
<1> DEFINE p == a \div m
           s == a % m
<1>1. p \in Int /\ s \in 0..(m - 1) /\ a = (m * p) + s
  OBVIOUS
<1> HIDE DEF p, s
<1>2. m * p \in Int /\ m * q \in Int
  BY <1>1
<1>3. p < q => m * p + m <= m * q
  BY <1>1, Larger
<1>4. q < p => m * q + m <= m * p
  BY <1>1, Larger
<1>5. p = q
  BY <1>1, <1>2, <1>3, <1>4
<1>6. s = r
  BY <1>1, <1>2, <1>5
<1> QED
  BY <1>6 DEF s

(* Numbers of n bytes, one more byte at a time.                            *)
Many(m, n) == m \in [0..n -> Nat] /\ m[0] = 1 /\ \A i \in 1..n : m[i] = 256 * m[i - 1]

(* How many numbers n bytes can be, place by place.                        *)
LEMMA NumbersExist ==
  ASSUME NEW n \in Nat
  PROVE  \E m : Many(m, n) /\ Numbers(n) = m[n]
<1>1. n \in Nat /\ 1 \in Nat
  OBVIOUS
<1> DEFINE turn(i, z) == 256 * z
           step == [i \in 1..n |-> [z \in Nat |-> turn(i, z)]]
           many[i \in 0..n] == IF i = 0 THEN 1 ELSE turn(i, many[i - 1])
<1>2. ASSUME NEW i \in 1..n, NEW z \in Nat
      PROVE  turn(i, z) \in Nat
  OBVIOUS
<1>14. Numbers(n) = many[n]
  BY DEF Numbers
<1> HIDE DEF turn
<1>3. step \in [1..n -> [Nat -> Nat]]
  BY <1>2
<1>4. PICK j \in [0..n -> Nat] : Runs(j, n, 1, step)
  <2> HIDE DEF step
  <2> QED
    BY <1>1, <1>3, RunsExist
<1>5. ASSUME NEW i \in 1..n
      PROVE  j[i - 1] \in Nat /\ j[i] = turn(i, j[i - 1])
  <2>1. j[i - 1] \in Nat
    BY <1>1
  <2>2. j[i] = step[i][j[i - 1]]
    BY <1>4 DEF Runs
  <2> QED
    BY <2>1, <2>2
<1>6. j[0] = 1
  BY <1>4 DEF Runs
<1> HIDE DEF step
<1>7. j = [i \in 0..n |-> IF i = 0 THEN 1 ELSE turn(i, j[i - 1])]
  <2> DEFINE g == [i \in 0..n |-> IF i = 0 THEN 1 ELSE turn(i, j[i - 1])]
  <2>1. ASSUME NEW i \in 0..n PROVE j[i] = g[i]
    <3>1. CASE i = 0
      BY <1>6, <3>1
    <3>2. CASE i # 0
      <4>1. i \in 1..n
        BY <1>1, <3>2
      <4> QED
        BY <1>5, <3>2, <4>1
    <3> QED
      BY <3>1, <3>2
  <2>2. j = [i \in 0..n |-> j[i]] /\ g = [i \in 0..n |-> g[i]]
    OBVIOUS
  <2> HIDE DEF g
  <2>3. j = g
    BY <2>1, <2>2
  <2> QED
    BY <2>3 DEF g
<1>8. many = [i \in 0..n |-> IF i = 0 THEN 1 ELSE turn(i, many[i - 1])]
  <2> DEFINE P(g) == g = [i \in 0..n |-> IF i = 0 THEN 1 ELSE turn(i, g[i - 1])]
  <2>1. P(j)
    BY <1>7
  <2>2. many = CHOOSE g : P(g)
    OBVIOUS
  <2> HIDE DEF P, many
  <2>3. P(many)
    BY <2>1, <2>2, Zenon
  <2> QED
    BY <2>3 DEF P
<1> HIDE DEF many
<1>9. ASSUME NEW i \in 1..n PROVE many[i] = turn(i, many[i - 1])
  <2> DEFINE g == [y \in 0..n |-> IF y = 0 THEN 1 ELSE turn(y, many[y - 1])]
  <2>1. i \in 0..n /\ i # 0
    BY <1>1
  <2>2. g[i] = turn(i, many[i - 1])
    BY <2>1
  <2>3. many = g
    BY <1>8, Zenon
  <2> HIDE DEF g
  <2> QED
    BY <2>2, <2>3, Zenon
<1>10. many[0] = 1
  <2> DEFINE g == [y \in 0..n |-> IF y = 0 THEN 1 ELSE turn(y, many[y - 1])]
  <2>1. 0 \in 0..n
    BY <1>1
  <2>2. g[0] = 1
    BY <2>1
  <2>3. many = g
    BY <1>8, Zenon
  <2> HIDE DEF g
  <2> QED
    BY <2>2, <2>3, Zenon
<1>11. \A i \in 0..n : many[i] \in Nat
  <2> DEFINE T == {i \in 0..n : many[i] \in Nat}
  <2>1. 0 \in T
    BY <1>1, <1>10
  <2>2. ASSUME NEW i \in 1..n, i - 1 \in T PROVE i \in T
    <3>1. many[i - 1] \in Nat /\ i \in 0..n
      BY <1>1, <2>2
    <3> QED
      BY <1>2, <1>9, <3>1
  <2> HIDE DEF T
  <2>3. \A i \in 0..n : i \in T
    BY <1>1, <2>1, <2>2, UpTo
  <2> QED
    BY <2>3 DEF T
<1>12. many \in [0..n -> Nat]
  BY <1>8, <1>11
<1>13. ASSUME NEW i \in 1..n
       PROVE  many[i] = 256 * many[i - 1]
  BY <1>9 DEF turn
<1> QED
  BY <1>10, <1>12, <1>13, <1>14 DEF Many

(* The numbers of the highest bytes of v.                                  *)
Tops(t, v, n) ==
  /\ t \in [0..n -> Nat] /\ t[0] = 0
  /\ \A i \in 1..n : t[i] = v[(n + 1) - i] + (256 * t[i - 1])

(* The number that is made of the upper bytes, place by place.             *)
LEMMA TopsExist ==
  ASSUME NEW v, NEW n, Str(v, n)
  PROVE  \E t : Tops(t, v, n) /\ Value(v) = t[n]
<1>1. n \in Nat /\ 0 \in Nat
  BY StrIs
<1>20. \A i \in 1..n : v[(n + 1) - i] \in Nat
  <2>1. \A i \in 1..n : (n + 1) - i \in 1..n
    BY <1>1
  <2> QED
    BY <2>1, StrIs DEF Byte
<1> DEFINE turn(i, z) == v[(n + 1) - i] + (256 * z)
           step == [i \in 1..n |-> [z \in Nat |-> turn(i, z)]]
           top[i \in 0..n] == IF i = 0 THEN 0 ELSE turn(i, top[i - 1])
<1>2. ASSUME NEW i \in 1..n, NEW z \in Nat
      PROVE  turn(i, z) \in Nat
  BY <1>20
<1>14. Value(v) = top[n]
  BY DEF Value, Str
<1> HIDE DEF turn
<1>3. step \in [1..n -> [Nat -> Nat]]
  BY <1>2
<1>4. PICK j \in [0..n -> Nat] : Runs(j, n, 0, step)
  <2> HIDE DEF step
  <2> QED
    BY <1>1, <1>3, RunsExist
<1>5. ASSUME NEW i \in 1..n
      PROVE  j[i - 1] \in Nat /\ j[i] = turn(i, j[i - 1])
  <2>1. j[i - 1] \in Nat
    BY <1>1
  <2>2. j[i] = step[i][j[i - 1]]
    BY <1>4 DEF Runs
  <2> QED
    BY <2>1, <2>2
<1>6. j[0] = 0
  BY <1>4 DEF Runs
<1> HIDE DEF step
<1>7. j = [i \in 0..n |-> IF i = 0 THEN 0 ELSE turn(i, j[i - 1])]
  <2> DEFINE g == [i \in 0..n |-> IF i = 0 THEN 0 ELSE turn(i, j[i - 1])]
  <2>1. ASSUME NEW i \in 0..n PROVE j[i] = g[i]
    <3>1. CASE i = 0
      BY <1>6, <3>1
    <3>2. CASE i # 0
      <4>1. i \in 1..n
        BY <1>1, <3>2
      <4> QED
        BY <1>5, <3>2, <4>1
    <3> QED
      BY <3>1, <3>2
  <2>2. j = [i \in 0..n |-> j[i]] /\ g = [i \in 0..n |-> g[i]]
    OBVIOUS
  <2> HIDE DEF g
  <2>3. j = g
    BY <2>1, <2>2
  <2> QED
    BY <2>3 DEF g
<1>8. top = [i \in 0..n |-> IF i = 0 THEN 0 ELSE turn(i, top[i - 1])]
  <2> DEFINE P(g) == g = [i \in 0..n |-> IF i = 0 THEN 0 ELSE turn(i, g[i - 1])]
  <2>1. P(j)
    BY <1>7
  <2>2. top = CHOOSE g : P(g)
    OBVIOUS
  <2> HIDE DEF P, top
  <2>3. P(top)
    BY <2>1, <2>2, Zenon
  <2> QED
    BY <2>3 DEF P
<1> HIDE DEF top
<1>9. ASSUME NEW i \in 1..n PROVE top[i] = turn(i, top[i - 1])
  <2> DEFINE g == [y \in 0..n |-> IF y = 0 THEN 0 ELSE turn(y, top[y - 1])]
  <2>1. i \in 0..n /\ i # 0
    BY <1>1
  <2>2. g[i] = turn(i, top[i - 1])
    BY <2>1
  <2>3. top = g
    BY <1>8, Zenon
  <2> HIDE DEF g
  <2> QED
    BY <2>2, <2>3, Zenon
<1>10. top[0] = 0
  <2> DEFINE g == [y \in 0..n |-> IF y = 0 THEN 0 ELSE turn(y, top[y - 1])]
  <2>1. 0 \in 0..n
    BY <1>1
  <2>2. g[0] = 0
    BY <2>1
  <2>3. top = g
    BY <1>8, Zenon
  <2> HIDE DEF g
  <2> QED
    BY <2>2, <2>3, Zenon
<1>11. \A i \in 0..n : top[i] \in Nat
  <2> DEFINE T == {i \in 0..n : top[i] \in Nat}
  <2>1. 0 \in T
    BY <1>1, <1>10
  <2>2. ASSUME NEW i \in 1..n, i - 1 \in T PROVE i \in T
    <3>1. top[i - 1] \in Nat /\ i \in 0..n
      BY <1>1, <2>2
    <3> QED
      BY <1>2, <1>9, <3>1
  <2> HIDE DEF T
  <2>3. \A i \in 0..n : i \in T
    BY <1>1, <2>1, <2>2, UpTo
  <2> QED
    BY <2>3 DEF T
<1>12. top \in [0..n -> Nat]
  BY <1>8, <1>11
<1>13. ASSUME NEW i \in 1..n
       PROVE  top[i] = v[(n + 1) - i] + (256 * top[i - 1])
  BY <1>9 DEF turn
<1> QED
  BY <1>10, <1>12, <1>13, <1>14 DEF Tops

(* One byte of a difference, and what it borrows.                          *)
LEMMA Borrows ==
  ASSUME NEW a \in Byte, NEW b \in Byte, NEW c \in 0..1
  PROVE  /\ ((((a - b) - c) % 65536) \div 256) % 2 \in 0..1
         /\ ((a - b) - c) % 256 \in Byte
         /\ a + (256 * (((((a - b) - c) % 65536) \div 256) % 2))
              = (((a - b) - c) % 256) + b + c
<1> DEFINE d == (a - b) - c
<1>1. d \in -256..255 /\ a = d + b + c
  BY DEF Byte
<1>2. CASE d >= 0
  <2>1. d % 65536 = d /\ d \div 256 = 0 /\ d % 256 = d /\ 0 % 2 = 0
    BY <1>1, <1>2
  <2> QED
    BY <1>1, <1>2, <2>1 DEF Byte
<1>3. CASE d < 0
  <2>1. d % 65536 = d + 65536 /\ (d + 65536) \div 256 = 255 /\ d % 256 = d + 256
        /\ 255 % 2 = 1
    BY <1>1, <1>3
  <2> QED
    BY <1>1, <1>3, <2>1 DEF Byte
<1> QED
  BY <1>1, <1>2, <1>3

(* The difference is what, added, gives back (u128_sub).                   *)
LEMMA DifferenceExists ==
  ASSUME NEW v, NEW w, NEW n, Str(v, n), Str(w, n)
  PROVE  \E c : SumOf(v, u128_sub(v, w), w, n, c) /\ Str(u128_sub(v, w), n)
<1>20. n \in Nat /\ Len(v) = n /\ \A i \in 1..n : v[i] \in Byte /\ w[i] \in Byte
  BY StrIs
<1>1. n \in Nat /\ 0 \in 0..1
  BY <1>20
<1> DEFINE turn(i, z) == ((((v[i] - w[i]) - z) % 65536) \div 256) % 2
           step == [i \in 1..n |-> [z \in 0..1 |-> turn(i, z)]]
           carry[i \in 0..n] == IF i = 0 THEN 0 ELSE turn(i, carry[i - 1])
<1>2. ASSUME NEW i \in 1..n, NEW z \in 0..1
      PROVE  turn(i, z) \in 0..1
  BY <1>20, Borrows
<1> DEFINE e == [i \in 1..n |-> ((v[i] - w[i]) - carry[i - 1]) % 256]
<1>14. u128_sub(v, w) = <<>> \o e
  BY <1>20 DEF u128_sub
<1>15. \A i \in 1..n : e[i] = ((v[i] - w[i]) - carry[i - 1]) % 256
  OBVIOUS
<1>21. e = [i \in 1..n |-> e[i]]
  OBVIOUS
<1> HIDE DEF e
<1> HIDE DEF turn
<1>3. step \in [1..n -> [0..1 -> 0..1]]
  BY <1>2
<1>4. PICK j \in [0..n -> 0..1] : Runs(j, n, 0, step)
  <2> HIDE DEF step
  <2> QED
    BY <1>1, <1>3, RunsExist
<1>5. ASSUME NEW i \in 1..n
      PROVE  j[i - 1] \in 0..1 /\ j[i] = turn(i, j[i - 1])
  <2>1. j[i - 1] \in 0..1
    BY <1>1
  <2>2. j[i] = step[i][j[i - 1]]
    BY <1>4 DEF Runs
  <2> QED
    BY <2>1, <2>2
<1>6. j[0] = 0
  BY <1>4 DEF Runs
<1> HIDE DEF step
<1>7. j = [i \in 0..n |-> IF i = 0 THEN 0 ELSE turn(i, j[i - 1])]
  <2> DEFINE g == [i \in 0..n |-> IF i = 0 THEN 0 ELSE turn(i, j[i - 1])]
  <2>1. ASSUME NEW i \in 0..n PROVE j[i] = g[i]
    <3>1. CASE i = 0
      BY <1>6, <3>1
    <3>2. CASE i # 0
      <4>1. i \in 1..n
        BY <1>1, <3>2
      <4> QED
        BY <1>5, <3>2, <4>1
    <3> QED
      BY <3>1, <3>2
  <2>2. j = [i \in 0..n |-> j[i]] /\ g = [i \in 0..n |-> g[i]]
    OBVIOUS
  <2> HIDE DEF g
  <2>3. j = g
    BY <2>1, <2>2
  <2> QED
    BY <2>3 DEF g
<1>8. carry = [i \in 0..n |-> IF i = 0 THEN 0 ELSE turn(i, carry[i - 1])]
  <2> DEFINE P(g) == g = [i \in 0..n |-> IF i = 0 THEN 0 ELSE turn(i, g[i - 1])]
  <2>1. P(j)
    BY <1>7
  <2>2. carry = CHOOSE g : P(g)
    OBVIOUS
  <2> HIDE DEF P, carry
  <2>3. P(carry)
    BY <2>1, <2>2, Zenon
  <2> QED
    BY <2>3 DEF P
<1> HIDE DEF carry
<1>9. ASSUME NEW i \in 1..n PROVE carry[i] = turn(i, carry[i - 1])
  <2> DEFINE g == [y \in 0..n |-> IF y = 0 THEN 0 ELSE turn(y, carry[y - 1])]
  <2>1. i \in 0..n /\ i # 0
    BY <1>1
  <2>2. g[i] = turn(i, carry[i - 1])
    BY <2>1
  <2>3. carry = g
    BY <1>8, Zenon
  <2> HIDE DEF g
  <2> QED
    BY <2>2, <2>3, Zenon
<1>10. carry[0] = 0
  <2> DEFINE g == [y \in 0..n |-> IF y = 0 THEN 0 ELSE turn(y, carry[y - 1])]
  <2>1. 0 \in 0..n
    BY <1>1
  <2>2. g[0] = 0
    BY <2>1
  <2>3. carry = g
    BY <1>8, Zenon
  <2> HIDE DEF g
  <2> QED
    BY <2>2, <2>3, Zenon
<1>11. \A i \in 0..n : carry[i] \in 0..1
  <2> DEFINE T == {i \in 0..n : carry[i] \in 0..1}
  <2>1. 0 \in T
    BY <1>1, <1>10
  <2>2. ASSUME NEW i \in 1..n, i - 1 \in T PROVE i \in T
    <3>1. carry[i - 1] \in 0..1 /\ i \in 0..n
      BY <1>1, <2>2
    <3> QED
      BY <1>2, <1>9, <3>1
  <2> HIDE DEF T
  <2>3. \A i \in 0..n : i \in T
    BY <1>1, <2>1, <2>2, UpTo
  <2> QED
    BY <2>3 DEF T
<1>12. carry \in [0..n -> 0..1]
  BY <1>8, <1>11
<1>13. ASSUME NEW i \in 1..n
       PROVE  carry[i] = ((((v[i] - w[i]) - carry[i - 1]) % 65536) \div 256) % 2
  BY <1>9 DEF turn
<1>16. ASSUME NEW i \in 1..n
       PROVE  /\ e[i] \in Byte
              /\ v[i] + (256 * carry[i]) = e[i] + w[i] + carry[i - 1]
  <2>1. carry[i - 1] \in 0..1
    BY <1>1, <1>12
  <2>2. v[i] \in Byte /\ w[i] \in Byte
    BY <1>20
  <2>3. /\ carry[i] = ((((v[i] - w[i]) - carry[i - 1]) % 65536) \div 256) % 2
        /\ e[i] = ((v[i] - w[i]) - carry[i - 1]) % 256
    BY <1>13, <1>15
  <2> QED
    BY <2>1, <2>2, <2>3, Borrows
<1>17. e \in [1..n -> Byte]
  BY <1>16, <1>21
<1> DEFINE x == u128_sub(v, w)
<1>18. Str(x, n) /\ \A i \in 1..n : x[i] = e[i]
  <2>1. x = <<>> \o e
    BY <1>14
  <2> HIDE DEF x
  <2> QED
    BY <1>1, <1>17, <2>1, StrMade
<1> HIDE DEF x
<1>19. SumOf(v, x, w, n, carry)
  BY <1>10, <1>12, <1>16, <1>18 DEF SumOf
<1> QED
  BY <1>18, <1>19 DEF x

(* The number of a sum: what is carried out of it is lost.                 *)
LEMMA SumValue ==
  ASSUME NEW x, NEW v, NEW w, NEW n, NEW c, SumOf(x, v, w, n, c), Str(v, n), Str(w, n)
  PROVE  /\ Value(x) \in 0..(Numbers(n) - 1) /\ Value(v) \in 0..(Numbers(n) - 1)
         /\ Value(w) \in 0..(Numbers(n) - 1) /\ Numbers(n) \in Nat \ {0}
         /\ Value(v) + Value(w) = Value(x) + (IF c[n] = 1 THEN Numbers(n) ELSE 0)
<1>1. /\ n \in Nat /\ Str(x, n) /\ c \in [0..n -> 0..1] /\ c[0] = 0
      /\ \A i \in 1..n : x[i] + (256 * c[i]) = v[i] + w[i] + c[i - 1]
  BY StrIs DEF SumOf
<1>2. PICK m : Many(m, n) /\ Numbers(n) = m[n]
  BY <1>1, NumbersExist
<1>3. PICK p : Tops(p, v, n) /\ Value(v) = p[n]
  BY TopsExist
<1>4. PICK q : Tops(q, w, n) /\ Value(w) = q[n]
  BY TopsExist
<1>5. PICK r : Tops(r, x, n) /\ Value(x) = r[n]
  BY <1>1, TopsExist
<1> DEFINE out(h) == IF c[n] = 1 THEN m[h] ELSE 0
           T == {h \in 0..n : /\ p[h] + q[h] + c[n - h] = r[h] + out(h)
                              /\ p[h] < m[h] /\ q[h] < m[h] /\ r[h] < m[h]}
<1>6. \A h \in 0..n : p[h] \in Nat /\ q[h] \in Nat /\ r[h] \in Nat /\ m[h] \in Nat
                      /\ c[h] \in 0..1
  BY <1>1, <1>2, <1>3, <1>4, <1>5 DEF Many, Tops
<1>7. 0 \in T
  <2>1. p[0] = 0 /\ q[0] = 0 /\ r[0] = 0 /\ m[0] = 1
    BY <1>2, <1>3, <1>4, <1>5 DEF Many, Tops
  <2>2. n - 0 = n /\ c[n] \in 0..1 /\ 0 \in 0..n
    BY <1>1
  <2>3. out(0) = c[n]
    BY <2>1, <2>2
  <2> HIDE DEF out
  <2> QED
    BY <2>1, <2>2, <2>3
<1>8. ASSUME NEW h \in 1..n, h - 1 \in T
      PROVE  h \in T
  <2> DEFINE far == (n + 1) - h
             g == h - 1
  <2>1. far \in 1..n /\ far - 1 = n - h /\ n - g = far /\ g \in 0..n /\ h \in 0..n
    BY <1>1
  <2>2. /\ p[h] = v[far] + (256 * p[g]) /\ q[h] = w[far] + (256 * q[g])
        /\ r[h] = x[far] + (256 * r[g]) /\ m[h] = 256 * m[g]
    BY <1>2, <1>3, <1>4, <1>5 DEF Many, Tops
  <2>3. x[far] + (256 * c[far]) = v[far] + w[far] + c[n - h]
    <3>1. x[far] + (256 * c[far]) = v[far] + w[far] + c[far - 1]
      BY <1>1, <2>1
    <3> QED
      BY <2>1, <3>1
  <2>4. v[far] \in 0..255 /\ w[far] \in 0..255 /\ x[far] \in 0..255
    <3>1. v[far] \in Byte /\ w[far] \in Byte /\ x[far] \in Byte
      BY <1>1, <2>1, StrIs
    <3> QED
      BY <3>1 DEF Byte
  <2>5. /\ p[g] + q[g] + c[far] = r[g] + out(g)
        /\ p[g] < m[g] /\ q[g] < m[g] /\ r[g] < m[g]
    <3>1. g \in T
      BY <1>8
    <3> QED
      BY <2>1, <3>1
  <2>6. out(h) = 256 * out(g) /\ out(g) \in Nat
    <3>1. m[g] \in Nat
      BY <1>6, <2>1
    <3> QED
      BY <2>2, <3>1
  <2>7. p[g] \in Nat /\ q[g] \in Nat /\ r[g] \in Nat /\ m[g] \in Nat /\ c[far] \in 0..1
        /\ c[n - h] \in 0..1
    <3>1. far \in 0..n /\ n - h \in 0..n
      BY <1>1, <2>1
    <3> HIDE DEF far, g
    <3> QED
      BY <1>6, <2>1, <3>1
  <2> DEFINE pg == p[g]  qg == q[g]  rg == r[g]  mg == m[g]  og == out(g)  ck == c[far]
             cn == c[n - h]  vk == v[far]  wk == w[far]  xk == x[far]
             ph == p[h]  qh == q[h]  rh == r[h]  mh == m[h]  oh == out(h)
  <2>8. /\ ph = vk + (256 * pg) /\ qh = wk + (256 * qg) /\ rh = xk + (256 * rg)
        /\ mh = 256 * mg /\ oh = 256 * og /\ xk + (256 * ck) = vk + wk + cn
        /\ pg + qg + ck = rg + og /\ pg < mg /\ qg < mg /\ rg < mg
    BY <2>2, <2>3, <2>5, <2>6
  <2>9. /\ pg \in Nat /\ qg \in Nat /\ rg \in Nat /\ mg \in Nat /\ og \in Nat
        /\ ck \in 0..1 /\ cn \in 0..1 /\ vk \in 0..255 /\ wk \in 0..255 /\ xk \in 0..255
    BY <2>4, <2>6, <2>7
  <2>10. ph + qh + cn = rh + oh /\ ph < mh /\ qh < mh /\ rh < mh
    <3> HIDE DEF pg, qg, rg, mg, og, ck, cn, vk, wk, xk, ph, qh, rh, mh, oh
    <3> QED
      BY <2>8, <2>9
  <2> HIDE DEF out
  <2> QED
    BY <2>1, <2>10
<1>9. n \in T
  <2> HIDE DEF T
  <2>1. \A h \in 0..n : h \in T
    BY <1>1, <1>7, <1>8, UpTo
  <2> QED
    BY <1>1, <2>1
<1>10. n - n = 0 /\ n \in 0..n
  BY <1>1
<1>11. p[n] + q[n] + 0 = r[n] + out(n) /\ p[n] < m[n] /\ q[n] < m[n] /\ r[n] < m[n]
  BY <1>1, <1>9, <1>10
<1>12. p[n] \in Nat /\ q[n] \in Nat /\ r[n] \in Nat /\ m[n] \in Nat
  BY <1>6, <1>10
<1>13. Numbers(n) = m[n] /\ Value(v) = p[n] /\ Value(w) = q[n] /\ Value(x) = r[n]
  BY <1>2, <1>3, <1>4, <1>5
<1> QED
  BY <1>11, <1>12, <1>13

(* Remainders of what is less than twice the divisor.                      *)
LEMMA AroundOnce ==
  ASSUME NEW m \in Nat \ {0}, NEW y \in 0..(m - 1)
  PROVE  y % m = y /\ (y + m) % m = y /\ (y - m) % m = y
<1>1. y = (m * 0) + y /\ y + m = (m * 1) + y /\ y - m = (m * (-1)) + y
  OBVIOUS
<1>2. \A q \in Int, a \in Int : a = (m * q) + y => a % m = y
  BY RemainderIs
<1> QED
  BY <1>1, <1>2

(* The bits of a byte.                                                     *)
ByteBit(z, t) == (z \div TwoTo(t)) % 2

(* The powers a byte is shifted by.                                        *)
LEMMA TwoToIs ==
  /\ TwoTo(0) = 1 /\ TwoTo(1) = 2 /\ TwoTo(2) = 4 /\ TwoTo(3) = 8 /\ TwoTo(4) = 16
  /\ TwoTo(5) = 32 /\ TwoTo(6) = 64 /\ TwoTo(7) = 128 /\ TwoTo(8) = 256
  BY DEF TwoTo

EightBits == [0..7 -> 0..1]
ByteWith(f) ==
  f[0] + (2 * f[1]) + (4 * f[2]) + (8 * f[3]) + (16 * f[4]) + (32 * f[5]) + (64 * f[6])
    + (128 * f[7])

(* A byte is made up of its bits.                                          *)
LEMMA ByteHasBits ==
  ASSUME NEW x \in Byte
  PROVE  \E f \in EightBits : x = ByteWith(f) /\ \A t \in 0..7 : f[t] = ByteBit(x, t)
<1> DEFINE h1 == x \div 2  h2 == x \div 4  h3 == x \div 8  h4 == x \div 16
           h5 == x \div 32  h6 == x \div 64  h7 == x \div 128
           f == [t \in 0..7 |-> ByteBit(x, t)]
<1>1. /\ x \in 0..255 /\ h1 \in 0..127 /\ h2 \in 0..63 /\ h3 \in 0..31 /\ h4 \in 0..15
      /\ h5 \in 0..7 /\ h6 \in 0..3 /\ h7 \in 0..1
  BY DEF Byte
<1>2. /\ h1 \div 2 = h2 /\ h2 \div 2 = h3 /\ h3 \div 2 = h4 /\ h4 \div 2 = h5
      /\ h5 \div 2 = h6 /\ h6 \div 2 = h7 /\ x \div 1 = x
  BY DEF Byte
<1>3. /\ f[0] = x % 2 /\ f[1] = h1 % 2 /\ f[2] = h2 % 2 /\ f[3] = h3 % 2 /\ f[4] = h4 % 2
      /\ f[5] = h5 % 2 /\ f[6] = h6 % 2 /\ f[7] = h7 % 2
  BY <1>2, TwoToIs DEF ByteBit
<1>4. h1 = x \div 2
  OBVIOUS
<1>5. \A t \in 0..7 : f[t] = ByteBit(x, t)
  OBVIOUS
<1>6. f = [t \in 0..7 |-> f[t]]
  OBVIOUS
<1> HIDE DEF h1, h2, h3, h4, h5, h6, h7, f
<1>7. /\ x % 2 \in 0..1 /\ h1 % 2 \in 0..1 /\ h2 % 2 \in 0..1 /\ h3 % 2 \in 0..1
      /\ h4 % 2 \in 0..1 /\ h5 % 2 \in 0..1 /\ h6 % 2 \in 0..1 /\ h7 % 2 \in 0..1
  BY <1>1
<1>8. /\ x = (2 * h1) + (x % 2) /\ h1 = (2 * h2) + (h1 % 2) /\ h2 = (2 * h3) + (h2 % 2)
      /\ h3 = (2 * h4) + (h3 % 2) /\ h4 = (2 * h5) + (h4 % 2) /\ h5 = (2 * h6) + (h5 % 2)
      /\ h6 = (2 * h7) + (h6 % 2) /\ h7 = h7 % 2
  BY <1>1, <1>2, <1>4
<1>9. x = ByteWith(f)
  BY <1>1, <1>3, <1>8 DEF ByteWith
<1>10. \A t \in 0..7 : t = 0 \/ t = 1 \/ t = 2 \/ t = 3 \/ t = 4 \/ t = 5 \/ t = 6 \/ t = 7
  OBVIOUS
<1>11. f \in EightBits
  <2>1. \A t \in 0..7 : f[t] \in 0..1
    BY <1>3, <1>7, <1>10
  <2> QED
    BY <1>6, <2>1 DEF EightBits
<1> QED
  BY <1>5, <1>9, <1>11

(* And bits make up a byte that has them.                                  *)
LEMMA BitsMakeByte ==
  ASSUME NEW f \in EightBits
  PROVE  ByteWith(f) \in Byte /\ \A t \in 0..7 : ByteBit(ByteWith(f), t) = f[t]
<1> DEFINE f0 == f[0]  f1 == f[1]  f2 == f[2]  f3 == f[3]  f4 == f[4]
           f5 == f[5]  f6 == f[6]  f7 == f[7]
           x == ByteWith(f)
<1>1. f0 \in 0..1 /\ f1 \in 0..1 /\ f2 \in 0..1 /\ f3 \in 0..1
      /\ f4 \in 0..1 /\ f5 \in 0..1 /\ f6 \in 0..1 /\ f7 \in 0..1
  BY DEF EightBits
<1>2. x = f0 + (2 * f1) + (4 * f2) + (8 * f3) + (16 * f4) + (32 * f5) + (64 * f6) + (128 * f7)
  BY DEF ByteWith
<1>10. \A t \in 0..7 : t = 0 \/ t = 1 \/ t = 2 \/ t = 3 \/ t = 4 \/ t = 5 \/ t = 6 \/ t = 7
  OBVIOUS
<1>3. f[0] = f0 /\ f[1] = f1 /\ f[2] = f2 /\ f[3] = f3 /\ f[4] = f4 /\ f[5] = f5
         /\ f[6] = f6 /\ f[7] = f7
  OBVIOUS
<1> HIDE DEF f0, f1, f2, f3, f4, f5, f6, f7, x
<1>4. x \in Byte
  BY <1>1, <1>2 DEF Byte
<1>11. ByteBit(x, 0) = f0
  <2>1. x \div 1 = f0 + (2 * f1) + (4 * f2) + (8 * f3) + (16 * f4) + (32 * f5)
           + (64 * f6) + (128 * f7)
    BY <1>1, <1>2
  <2>2. (f0 + (2 * f1) + (4 * f2) + (8 * f3) + (16 * f4) + (32 * f5) + (64 * f6)
           + (128 * f7)) % 2 = f0
    BY <1>1
  <2> QED
    BY <2>1, <2>2, TwoToIs DEF ByteBit
<1>12. ByteBit(x, 1) = f1
  <2>1. x \div 2 = f1 + (2 * f2) + (4 * f3) + (8 * f4) + (16 * f5) + (32 * f6) + (64 * f7)
    BY <1>1, <1>2
  <2>2. (f1 + (2 * f2) + (4 * f3) + (8 * f4) + (16 * f5) + (32 * f6) + (64 * f7)) % 2 = f1
    BY <1>1
  <2> QED
    BY <2>1, <2>2, TwoToIs DEF ByteBit
<1>13. ByteBit(x, 2) = f2
  <2>1. x \div 4 = f2 + (2 * f3) + (4 * f4) + (8 * f5) + (16 * f6) + (32 * f7)
    BY <1>1, <1>2
  <2>2. (f2 + (2 * f3) + (4 * f4) + (8 * f5) + (16 * f6) + (32 * f7)) % 2 = f2
    BY <1>1
  <2> QED
    BY <2>1, <2>2, TwoToIs DEF ByteBit
<1>14. ByteBit(x, 3) = f3
  <2>1. x \div 8 = f3 + (2 * f4) + (4 * f5) + (8 * f6) + (16 * f7)
    BY <1>1, <1>2
  <2>2. (f3 + (2 * f4) + (4 * f5) + (8 * f6) + (16 * f7)) % 2 = f3
    BY <1>1
  <2> QED
    BY <2>1, <2>2, TwoToIs DEF ByteBit
<1>15. ByteBit(x, 4) = f4
  <2>1. x \div 16 = f4 + (2 * f5) + (4 * f6) + (8 * f7)
    BY <1>1, <1>2
  <2>2. (f4 + (2 * f5) + (4 * f6) + (8 * f7)) % 2 = f4
    BY <1>1
  <2> QED
    BY <2>1, <2>2, TwoToIs DEF ByteBit
<1>16. ByteBit(x, 5) = f5
  <2>1. x \div 32 = f5 + (2 * f6) + (4 * f7)
    BY <1>1, <1>2
  <2>2. (f5 + (2 * f6) + (4 * f7)) % 2 = f5
    BY <1>1
  <2> QED
    BY <2>1, <2>2, TwoToIs DEF ByteBit
<1>17. ByteBit(x, 6) = f6
  <2>1. x \div 64 = f6 + (2 * f7)
    BY <1>1, <1>2
  <2>2. (f6 + (2 * f7)) % 2 = f6
    BY <1>1
  <2> QED
    BY <2>1, <2>2, TwoToIs DEF ByteBit
<1>18. ByteBit(x, 7) = f7
  <2>1. x \div 128 = f7
    BY <1>1, <1>2
  <2>2. (f7) % 2 = f7
    BY <1>1
  <2> QED
    BY <2>1, <2>2, TwoToIs DEF ByteBit
<1>5. \A t \in 0..7 : ByteBit(x, t) = f[t]
  BY <1>3, <1>10, <1>11, <1>12, <1>13, <1>14, <1>15, <1>16, <1>17, <1>18
<1> QED
  BY <1>4, <1>5 DEF x

(* A byte moved up by b bits, with the highest of another behind them      *)
(* (u128_lrot, u128_rrot).                                                 *)
TurnedByte(x, y, b) == ((x * TwoTo(b)) % 256) + (y \div TwoTo(8 - b))

(* Each of its bits is one of the two bytes' (u128_math.c).                *)
LEMMA TurnedBits ==
  ASSUME NEW x \in Byte, NEW y \in Byte, NEW b \in 0..8
  PROVE  /\ TurnedByte(x, y, b) \in Byte
         /\ \A t \in 0..7 : ByteBit(TurnedByte(x, y, b), t)
                              = IF t >= b THEN ByteBit(x, t - b) ELSE ByteBit(y, (8 + t) - b)
<1>1. PICK f \in EightBits : x = ByteWith(f) /\ \A t \in 0..7 : f[t] = ByteBit(x, t)
  BY ByteHasBits
<1>2. PICK g \in EightBits : y = ByteWith(g) /\ \A t \in 0..7 : g[t] = ByteBit(y, t)
  BY ByteHasBits
<1> DEFINE e == [t \in 0..7 |-> IF t >= b THEN f[t - b] ELSE g[(8 + t) - b]]
           z == TurnedByte(x, y, b)
           f0 == f[0]  f1 == f[1]  f2 == f[2]  f3 == f[3]  f4 == f[4]
           f5 == f[5]  f6 == f[6]  f7 == f[7]
           g0 == g[0]  g1 == g[1]  g2 == g[2]  g3 == g[3]  g4 == g[4]
           g5 == g[5]  g6 == g[6]  g7 == g[7]
<1>3. \A t \in 0..7 : (t >= b => t - b \in 0..7) /\ (~(t >= b) => (8 + t) - b \in 0..7)
  OBVIOUS
<1>4. e \in EightBits
  BY <1>3 DEF EightBits
<1>5. \A t \in 0..7 : e[t] = IF t >= b THEN ByteBit(x, t - b) ELSE ByteBit(y, (8 + t) - b)
  BY <1>1, <1>2, <1>3
<1>6. f0 \in 0..1 /\ f1 \in 0..1 /\ f2 \in 0..1 /\ f3 \in 0..1
      /\ f4 \in 0..1 /\ f5 \in 0..1 /\ f6 \in 0..1 /\ f7 \in 0..1
      /\ g0 \in 0..1 /\ g1 \in 0..1 /\ g2 \in 0..1 /\ g3 \in 0..1
      /\ g4 \in 0..1 /\ g5 \in 0..1 /\ g6 \in 0..1 /\ g7 \in 0..1
  BY DEF EightBits
<1>7. x = f0 + (2 * f1) + (4 * f2) + (8 * f3) + (16 * f4) + (32 * f5) + (64 * f6) + (128 * f7)
  BY <1>1 DEF ByteWith
<1>8. y = g0 + (2 * g1) + (4 * g2) + (8 * g3) + (16 * g4) + (32 * g5) + (64 * g6) + (128 * g7)
  BY <1>2 DEF ByteWith
<1>9. z = ByteWith(e)
  <2>1. CASE b = 0
    <3> DEFINE lo == f0 + (2 * f1) + (4 * f2) + (8 * f3) + (16 * f4) + (32 * f5)
                     + (64 * f6) + (128 * f7)
               hi == 0
               under == g0 + (2 * g1) + (4 * g2) + (8 * g3) + (16 * g4) + (32 * g5)
                        + (64 * g6) + (128 * g7)
               over == 0
    <3>1. e[0] = f0 /\ e[1] = f1 /\ e[2] = f2 /\ e[3] = f3 /\ e[4] = f4 /\ e[5] = f5
             /\ e[6] = f6 /\ e[7] = f7
      BY <2>1
    <3>2. ByteWith(e) = (1 * lo) + over
      <4> HIDE DEF e
      <4>1. ByteWith(e) = f0 + (2 * f1) + (4 * f2) + (8 * f3) + (16 * f4)
               + (32 * f5) + (64 * f6) + (128 * f7)
        BY <3>1 DEF ByteWith
      <4> HIDE DEF f0, f1, f2, f3, f4, f5, f6, f7, g0, g1, g2, g3, g4, g5, g6, g7
      <4> QED
        BY <1>6, <4>1
    <3>3. /\ lo \in 0..255 /\ hi \in 0..0 /\ x = lo + (256 * hi)
          /\ under \in 0..255 /\ over \in 0..0 /\ y = under + (256 * over)
      <4> HIDE DEF f0, f1, f2, f3, f4, f5, f6, f7, g0, g1, g2, g3, g4, g5, g6, g7
      <4> QED
        BY <1>6, <1>7, <1>8
    <3> HIDE DEF lo, hi, under, over
    <3>4. (x * 1) % 256 = 1 * lo /\ y \div 256 = over
      BY <3>3
    <3>5. z = ((x * 1) % 256) + (y \div 256)
      <4>1. 8 - b = 8
        BY <2>1
      <4> QED
        BY <2>1, <4>1, TwoToIs DEF TurnedByte
    <3> QED
      BY <3>2, <3>4, <3>5
  <2>2. CASE b = 1
    <3> DEFINE lo == f0 + (2 * f1) + (4 * f2) + (8 * f3) + (16 * f4) + (32 * f5) + (64 * f6)
               hi == f7
               under == g0 + (2 * g1) + (4 * g2) + (8 * g3) + (16 * g4) + (32 * g5) + (64 * g6)
               over == g7
    <3>1. e[0] = g7 /\ e[1] = f0 /\ e[2] = f1 /\ e[3] = f2 /\ e[4] = f3 /\ e[5] = f4
             /\ e[6] = f5 /\ e[7] = f6
      BY <2>2
    <3>2. ByteWith(e) = (2 * lo) + over
      <4> HIDE DEF e
      <4>1. ByteWith(e) = g7 + (2 * f0) + (4 * f1) + (8 * f2) + (16 * f3)
               + (32 * f4) + (64 * f5) + (128 * f6)
        BY <3>1 DEF ByteWith
      <4> HIDE DEF f0, f1, f2, f3, f4, f5, f6, f7, g0, g1, g2, g3, g4, g5, g6, g7
      <4> QED
        BY <1>6, <4>1
    <3>3. /\ lo \in 0..127 /\ hi \in 0..1 /\ x = lo + (128 * hi)
          /\ under \in 0..127 /\ over \in 0..1 /\ y = under + (128 * over)
      <4> HIDE DEF f0, f1, f2, f3, f4, f5, f6, f7, g0, g1, g2, g3, g4, g5, g6, g7
      <4> QED
        BY <1>6, <1>7, <1>8
    <3> HIDE DEF lo, hi, under, over
    <3>4. (x * 2) % 256 = 2 * lo /\ y \div 128 = over
      BY <3>3
    <3>5. z = ((x * 2) % 256) + (y \div 128)
      <4>1. 8 - b = 7
        BY <2>2
      <4> QED
        BY <2>2, <4>1, TwoToIs DEF TurnedByte
    <3> QED
      BY <3>2, <3>4, <3>5
  <2>3. CASE b = 2
    <3> DEFINE lo == f0 + (2 * f1) + (4 * f2) + (8 * f3) + (16 * f4) + (32 * f5)
               hi == f6 + (2 * f7)
               under == g0 + (2 * g1) + (4 * g2) + (8 * g3) + (16 * g4) + (32 * g5)
               over == g6 + (2 * g7)
    <3>1. e[0] = g6 /\ e[1] = g7 /\ e[2] = f0 /\ e[3] = f1 /\ e[4] = f2 /\ e[5] = f3
             /\ e[6] = f4 /\ e[7] = f5
      BY <2>3
    <3>2. ByteWith(e) = (4 * lo) + over
      <4> HIDE DEF e
      <4>1. ByteWith(e) = g6 + (2 * g7) + (4 * f0) + (8 * f1) + (16 * f2)
               + (32 * f3) + (64 * f4) + (128 * f5)
        BY <3>1 DEF ByteWith
      <4> HIDE DEF f0, f1, f2, f3, f4, f5, f6, f7, g0, g1, g2, g3, g4, g5, g6, g7
      <4> QED
        BY <1>6, <4>1
    <3>3. /\ lo \in 0..63 /\ hi \in 0..3 /\ x = lo + (64 * hi)
          /\ under \in 0..63 /\ over \in 0..3 /\ y = under + (64 * over)
      <4> HIDE DEF f0, f1, f2, f3, f4, f5, f6, f7, g0, g1, g2, g3, g4, g5, g6, g7
      <4> QED
        BY <1>6, <1>7, <1>8
    <3> HIDE DEF lo, hi, under, over
    <3>4. (x * 4) % 256 = 4 * lo /\ y \div 64 = over
      BY <3>3
    <3>5. z = ((x * 4) % 256) + (y \div 64)
      <4>1. 8 - b = 6
        BY <2>3
      <4> QED
        BY <2>3, <4>1, TwoToIs DEF TurnedByte
    <3> QED
      BY <3>2, <3>4, <3>5
  <2>4. CASE b = 3
    <3> DEFINE lo == f0 + (2 * f1) + (4 * f2) + (8 * f3) + (16 * f4)
               hi == f5 + (2 * f6) + (4 * f7)
               under == g0 + (2 * g1) + (4 * g2) + (8 * g3) + (16 * g4)
               over == g5 + (2 * g6) + (4 * g7)
    <3>1. e[0] = g5 /\ e[1] = g6 /\ e[2] = g7 /\ e[3] = f0 /\ e[4] = f1 /\ e[5] = f2
             /\ e[6] = f3 /\ e[7] = f4
      BY <2>4
    <3>2. ByteWith(e) = (8 * lo) + over
      <4> HIDE DEF e
      <4>1. ByteWith(e) = g5 + (2 * g6) + (4 * g7) + (8 * f0) + (16 * f1)
               + (32 * f2) + (64 * f3) + (128 * f4)
        BY <3>1 DEF ByteWith
      <4> HIDE DEF f0, f1, f2, f3, f4, f5, f6, f7, g0, g1, g2, g3, g4, g5, g6, g7
      <4> QED
        BY <1>6, <4>1
    <3>3. /\ lo \in 0..31 /\ hi \in 0..7 /\ x = lo + (32 * hi)
          /\ under \in 0..31 /\ over \in 0..7 /\ y = under + (32 * over)
      <4> HIDE DEF f0, f1, f2, f3, f4, f5, f6, f7, g0, g1, g2, g3, g4, g5, g6, g7
      <4> QED
        BY <1>6, <1>7, <1>8
    <3> HIDE DEF lo, hi, under, over
    <3>4. (x * 8) % 256 = 8 * lo /\ y \div 32 = over
      BY <3>3
    <3>5. z = ((x * 8) % 256) + (y \div 32)
      <4>1. 8 - b = 5
        BY <2>4
      <4> QED
        BY <2>4, <4>1, TwoToIs DEF TurnedByte
    <3> QED
      BY <3>2, <3>4, <3>5
  <2>5. CASE b = 4
    <3> DEFINE lo == f0 + (2 * f1) + (4 * f2) + (8 * f3)
               hi == f4 + (2 * f5) + (4 * f6) + (8 * f7)
               under == g0 + (2 * g1) + (4 * g2) + (8 * g3)
               over == g4 + (2 * g5) + (4 * g6) + (8 * g7)
    <3>1. e[0] = g4 /\ e[1] = g5 /\ e[2] = g6 /\ e[3] = g7 /\ e[4] = f0 /\ e[5] = f1
             /\ e[6] = f2 /\ e[7] = f3
      BY <2>5
    <3>2. ByteWith(e) = (16 * lo) + over
      <4> HIDE DEF e
      <4>1. ByteWith(e) = g4 + (2 * g5) + (4 * g6) + (8 * g7) + (16 * f0)
               + (32 * f1) + (64 * f2) + (128 * f3)
        BY <3>1 DEF ByteWith
      <4> HIDE DEF f0, f1, f2, f3, f4, f5, f6, f7, g0, g1, g2, g3, g4, g5, g6, g7
      <4> QED
        BY <1>6, <4>1
    <3>3. /\ lo \in 0..15 /\ hi \in 0..15 /\ x = lo + (16 * hi)
          /\ under \in 0..15 /\ over \in 0..15 /\ y = under + (16 * over)
      <4> HIDE DEF f0, f1, f2, f3, f4, f5, f6, f7, g0, g1, g2, g3, g4, g5, g6, g7
      <4> QED
        BY <1>6, <1>7, <1>8
    <3> HIDE DEF lo, hi, under, over
    <3>4. (x * 16) % 256 = 16 * lo /\ y \div 16 = over
      BY <3>3
    <3>5. z = ((x * 16) % 256) + (y \div 16)
      <4>1. 8 - b = 4
        BY <2>5
      <4> QED
        BY <2>5, <4>1, TwoToIs DEF TurnedByte
    <3> QED
      BY <3>2, <3>4, <3>5
  <2>6. CASE b = 5
    <3> DEFINE lo == f0 + (2 * f1) + (4 * f2)
               hi == f3 + (2 * f4) + (4 * f5) + (8 * f6) + (16 * f7)
               under == g0 + (2 * g1) + (4 * g2)
               over == g3 + (2 * g4) + (4 * g5) + (8 * g6) + (16 * g7)
    <3>1. e[0] = g3 /\ e[1] = g4 /\ e[2] = g5 /\ e[3] = g6 /\ e[4] = g7 /\ e[5] = f0
             /\ e[6] = f1 /\ e[7] = f2
      BY <2>6
    <3>2. ByteWith(e) = (32 * lo) + over
      <4> HIDE DEF e
      <4>1. ByteWith(e) = g3 + (2 * g4) + (4 * g5) + (8 * g6) + (16 * g7)
               + (32 * f0) + (64 * f1) + (128 * f2)
        BY <3>1 DEF ByteWith
      <4> HIDE DEF f0, f1, f2, f3, f4, f5, f6, f7, g0, g1, g2, g3, g4, g5, g6, g7
      <4> QED
        BY <1>6, <4>1
    <3>3. /\ lo \in 0..7 /\ hi \in 0..31 /\ x = lo + (8 * hi)
          /\ under \in 0..7 /\ over \in 0..31 /\ y = under + (8 * over)
      <4> HIDE DEF f0, f1, f2, f3, f4, f5, f6, f7, g0, g1, g2, g3, g4, g5, g6, g7
      <4> QED
        BY <1>6, <1>7, <1>8
    <3> HIDE DEF lo, hi, under, over
    <3>4. (x * 32) % 256 = 32 * lo /\ y \div 8 = over
      BY <3>3
    <3>5. z = ((x * 32) % 256) + (y \div 8)
      <4>1. 8 - b = 3
        BY <2>6
      <4> QED
        BY <2>6, <4>1, TwoToIs DEF TurnedByte
    <3> QED
      BY <3>2, <3>4, <3>5
  <2>7. CASE b = 6
    <3> DEFINE lo == f0 + (2 * f1)
               hi == f2 + (2 * f3) + (4 * f4) + (8 * f5) + (16 * f6) + (32 * f7)
               under == g0 + (2 * g1)
               over == g2 + (2 * g3) + (4 * g4) + (8 * g5) + (16 * g6) + (32 * g7)
    <3>1. e[0] = g2 /\ e[1] = g3 /\ e[2] = g4 /\ e[3] = g5 /\ e[4] = g6 /\ e[5] = g7
             /\ e[6] = f0 /\ e[7] = f1
      BY <2>7
    <3>2. ByteWith(e) = (64 * lo) + over
      <4> HIDE DEF e
      <4>1. ByteWith(e) = g2 + (2 * g3) + (4 * g4) + (8 * g5) + (16 * g6)
               + (32 * g7) + (64 * f0) + (128 * f1)
        BY <3>1 DEF ByteWith
      <4> HIDE DEF f0, f1, f2, f3, f4, f5, f6, f7, g0, g1, g2, g3, g4, g5, g6, g7
      <4> QED
        BY <1>6, <4>1
    <3>3. /\ lo \in 0..3 /\ hi \in 0..63 /\ x = lo + (4 * hi)
          /\ under \in 0..3 /\ over \in 0..63 /\ y = under + (4 * over)
      <4> HIDE DEF f0, f1, f2, f3, f4, f5, f6, f7, g0, g1, g2, g3, g4, g5, g6, g7
      <4> QED
        BY <1>6, <1>7, <1>8
    <3> HIDE DEF lo, hi, under, over
    <3>4. (x * 64) % 256 = 64 * lo /\ y \div 4 = over
      BY <3>3
    <3>5. z = ((x * 64) % 256) + (y \div 4)
      <4>1. 8 - b = 2
        BY <2>7
      <4> QED
        BY <2>7, <4>1, TwoToIs DEF TurnedByte
    <3> QED
      BY <3>2, <3>4, <3>5
  <2>8. CASE b = 7
    <3> DEFINE lo == f0
               hi == f1 + (2 * f2) + (4 * f3) + (8 * f4) + (16 * f5) + (32 * f6) + (64 * f7)
               under == g0
               over == g1 + (2 * g2) + (4 * g3) + (8 * g4) + (16 * g5) + (32 * g6) + (64 * g7)
    <3>1. e[0] = g1 /\ e[1] = g2 /\ e[2] = g3 /\ e[3] = g4 /\ e[4] = g5 /\ e[5] = g6
             /\ e[6] = g7 /\ e[7] = f0
      BY <2>8
    <3>2. ByteWith(e) = (128 * lo) + over
      <4> HIDE DEF e
      <4>1. ByteWith(e) = g1 + (2 * g2) + (4 * g3) + (8 * g4) + (16 * g5)
               + (32 * g6) + (64 * g7) + (128 * f0)
        BY <3>1 DEF ByteWith
      <4> HIDE DEF f0, f1, f2, f3, f4, f5, f6, f7, g0, g1, g2, g3, g4, g5, g6, g7
      <4> QED
        BY <1>6, <4>1
    <3>3. /\ lo \in 0..1 /\ hi \in 0..127 /\ x = lo + (2 * hi)
          /\ under \in 0..1 /\ over \in 0..127 /\ y = under + (2 * over)
      <4> HIDE DEF f0, f1, f2, f3, f4, f5, f6, f7, g0, g1, g2, g3, g4, g5, g6, g7
      <4> QED
        BY <1>6, <1>7, <1>8
    <3> HIDE DEF lo, hi, under, over
    <3>4. (x * 128) % 256 = 128 * lo /\ y \div 2 = over
      BY <3>3
    <3>5. z = ((x * 128) % 256) + (y \div 2)
      <4>1. 8 - b = 1
        BY <2>8
      <4> QED
        BY <2>8, <4>1, TwoToIs DEF TurnedByte
    <3> QED
      BY <3>2, <3>4, <3>5
  <2>9. CASE b = 8
    <3> DEFINE lo == 0
               hi == f0 + (2 * f1) + (4 * f2) + (8 * f3) + (16 * f4) + (32 * f5)
                     + (64 * f6) + (128 * f7)
               under == 0
               over == g0 + (2 * g1) + (4 * g2) + (8 * g3) + (16 * g4) + (32 * g5)
                       + (64 * g6) + (128 * g7)
    <3>1. e[0] = g0 /\ e[1] = g1 /\ e[2] = g2 /\ e[3] = g3 /\ e[4] = g4 /\ e[5] = g5
             /\ e[6] = g6 /\ e[7] = g7
      BY <2>9
    <3>2. ByteWith(e) = (256 * lo) + over
      <4> HIDE DEF e
      <4>1. ByteWith(e) = g0 + (2 * g1) + (4 * g2) + (8 * g3) + (16 * g4)
               + (32 * g5) + (64 * g6) + (128 * g7)
        BY <3>1 DEF ByteWith
      <4> HIDE DEF f0, f1, f2, f3, f4, f5, f6, f7, g0, g1, g2, g3, g4, g5, g6, g7
      <4> QED
        BY <1>6, <4>1
    <3>3. /\ lo \in 0..0 /\ hi \in 0..255 /\ x = lo + (1 * hi)
          /\ under \in 0..0 /\ over \in 0..255 /\ y = under + (1 * over)
      <4> HIDE DEF f0, f1, f2, f3, f4, f5, f6, f7, g0, g1, g2, g3, g4, g5, g6, g7
      <4> QED
        BY <1>6, <1>7, <1>8
    <3> HIDE DEF lo, hi, under, over
    <3>4. (x * 256) % 256 = 256 * lo /\ y \div 1 = over
      BY <3>3
    <3>5. z = ((x * 256) % 256) + (y \div 1)
      <4>1. 8 - b = 0
        BY <2>9
      <4> QED
        BY <2>9, <4>1, TwoToIs DEF TurnedByte
    <3> QED
      BY <3>2, <3>4, <3>5
  <2> QED
    BY <2>1, <2>2, <2>3, <2>4, <2>5, <2>6, <2>7, <2>8, <2>9
<1> HIDE DEF e, z
<1>10. z \in Byte /\ \A t \in 0..7 : ByteBit(z, t) = e[t]
  BY <1>4, <1>9, BitsMakeByte
<1> QED
  BY <1>5, <1>10 DEF z

(* A byte is known by its bits.                                            *)
LEMMA SameBits ==
  ASSUME NEW x \in Byte, NEW y \in Byte, \A t \in 0..7 : ByteBit(x, t) = ByteBit(y, t)
  PROVE  x = y
<1>1. PICK f \in EightBits : x = ByteWith(f) /\ \A t \in 0..7 : f[t] = ByteBit(x, t)
  BY ByteHasBits
<1>2. PICK g \in EightBits : y = ByteWith(g) /\ \A t \in 0..7 : g[t] = ByteBit(y, t)
  BY ByteHasBits
<1>3. \A t \in 0..7 : f[t] = g[t]
  BY <1>1, <1>2
<1>4. f = g
  BY <1>3 DEF EightBits
<1> QED
  BY <1>1, <1>2, <1>4

-----------------------------------------------------------------------------
(* Rotations.                                                              *)

(* s and J lie a few times m apart, but for y, which is z times m.         *)
Away(s, m, J, z, y) ==
  /\ m \in Nat \ {0} /\ J \in 0..(m - 1) /\ z \in Int /\ s \in Int /\ y \in Int
  /\ y = m * z /\ s + y \in {J, J + m, J + m + m, J - m, (J - m) - m}

(* The remainder of such a number.                                         *)
LEMMA Around ==
  ASSUME NEW s, NEW m, NEW J, NEW z, NEW y, Away(s, m, J, z, y)
  PROVE  s % m = J
<1>1. /\ m \in Nat \ {0} /\ J \in 0..(m - 1) /\ z \in Int /\ s \in Int /\ y \in Int
      /\ y = m * z /\ s + y \in {J, J + m, J + m + m, J - m, (J - m) - m}
  BY DEF Away
<1>2. /\ m * (-z) = -y /\ m * ((-z) + 1) = (-y) + m /\ m * ((-z) + 2) = ((-y) + m) + m
      /\ m * ((-z) - 1) = (-y) - m /\ m * ((-z) - 2) = ((-y) - m) - m
  BY <1>1
<1>3. \A q \in Int : s = (m * q) + J => s % m = J
  BY <1>1, RemainderIs
<1>4. /\ -z \in Int /\ (-z) + 1 \in Int /\ (-z) + 2 \in Int
      /\ (-z) - 1 \in Int /\ (-z) - 2 \in Int
  BY <1>1
<1>5. \/ s = (-y) + J \/ s = ((-y) + m) + J \/ s = (((-y) + m) + m) + J
      \/ s = ((-y) - m) + J \/ s = (((-y) - m) - m) + J
  <2>1. s \in Int /\ y \in Int /\ J \in Int /\ m \in Int
    BY <1>1
  <2>2. s + y \in {J, J + m, J + m + m, J - m, (J - m) - m}
    BY <1>1
  <2> QED
    BY <2>1, <2>2
<1> QED
  BY <1>2, <1>3, <1>4, <1>5

(* The place that many places down from i of n, around, and up.            *)
Down(i, far, n) == IF i > far THEN i - far ELSE (i - far) + n
Up(i, far, n) == IF i + far <= n THEN i + far ELSE (i + far) - n

(* They are the places the code's remainders stand for.                    *)
LEMMA PlacesAround ==
  ASSUME NEW n \in Nat \ {0}, NEW i \in 1..n, NEW far \in 0..n
  PROVE  /\ Down(i, far, n) \in 1..n /\ Up(i, far, n) \in 1..n
         /\ (((i - 1) + n) - far) % n = Down(i, far, n) - 1
         /\ ((i - 1) + far) % n = Up(i, far, n) - 1
<1>1. Down(i, far, n) \in 1..n /\ Up(i, far, n) \in 1..n
  BY DEF Down, Up
<1>2. (((i - 1) + n) - far) % n = Down(i, far, n) - 1
  <2> DEFINE J == Down(i, far, n) - 1
             s == ((i - 1) + n) - far
             o == 0
             y == n * o
  <2>1. J \in 0..(n - 1) /\ s \in Int /\ y \in Int /\ o \in Int
    BY <1>1
  <2>2. s + 0 \in {J, J + n}
    BY <1>1 DEF Down
  <2>3. y = 0
    OBVIOUS
  <2> HIDE DEF J, s, y, o
  <2>4. s + y \in {J, J + n}
    BY <2>2, <2>3
  <2>5. y = n * o
    BY DEF y
  <2>6. Away(s, n, J, o, y)
    BY <2>1, <2>4, <2>5 DEF Away
  <2>7. s % n = J
    BY <2>6, Around
  <2> QED
    BY <2>7 DEF s, J
<1>3. ((i - 1) + far) % n = Up(i, far, n) - 1
  <2> DEFINE J == Up(i, far, n) - 1
             s == (i - 1) + far
             o == 0
             y == n * o
  <2>1. J \in 0..(n - 1) /\ s \in Int /\ y \in Int /\ o \in Int
    BY <1>1
  <2>2. s + 0 \in {J, J + n}
    BY <1>1 DEF Up
  <2>3. y = 0
    OBVIOUS
  <2> HIDE DEF J, s, y, o
  <2>4. s + y \in {J, J + n}
    BY <2>2, <2>3
  <2>5. y = n * o
    BY DEF y
  <2>6. Away(s, n, J, o, y)
    BY <2>1, <2>4, <2>5 DEF Away
  <2>7. s % n = J
    BY <2>6, Around
  <2> QED
    BY <2>7 DEF s, J
<1> QED
  BY <1>1, <1>2, <1>3

(* A number of bits in bytes.                                              *)
LEMMA Eighth ==
  ASSUME NEW p \in Int, NEW b \in 0..7
  PROVE  ((8 * p) + b) \div 8 = p
OBVIOUS

(* q steps: far, and z times around.                                       *)
Winds(n, far, z, q) == z \in Int /\ q \in Int /\ q = (n * z) + far

(* The same place from a number that is some divisors more.                *)
LEMMA UpAround ==
  ASSUME NEW n \in Nat \ {0}, NEW i \in 1..n, NEW far \in 0..(n - 1), NEW z,
         NEW q, Winds(n, far, z, q)
  PROVE  /\ ((i - 1) + q) % n = Up(i, far, n) - 1
         /\ (i + q) % n = Up(Up(i, far, n), 1, n) - 1
<1> DEFINE d == Up(i, far, n)
           h == Up(d, 1, n)
           u == n * (-z)
           w == -z
           s == (i - 1) + q
           t == i + q
           J == d - 1
           K == h - 1
<1>1. d \in 1..n /\ (d = i + far \/ d = (i + far) - n)
  BY DEF Up
<1>2. h \in 1..n /\ (h = d + 1 \/ h = (d + 1) - n)
  <2> HIDE DEF d
  <2> QED
    BY <1>1 DEF Up
<1>3. w \in Int /\ u \in Int /\ u = n * w /\ q + u = far /\ q \in Int
  <2> DEFINE y == n * z
  <2>1. y \in Int /\ u = -y /\ q = y + far /\ q \in Int
    BY DEF Winds
  <2>2. w \in Int /\ u = n * w
    BY DEF Winds
  <2> HIDE DEF y, u, w
  <2> QED
    BY <2>1, <2>2
<1> HIDE DEF d, h, u, w
<1>4. s \in Int /\ t \in Int /\ J \in 0..(n - 1) /\ K \in 0..(n - 1)
  BY <1>1, <1>2, <1>3
<1>5. s + u \in {J, J + n} /\ t + u \in {K, K + n, K + n + n}
  <2>1. s + u = (i - 1) + far /\ t + u = i + far
    BY <1>3
  <2> QED
    BY <1>1, <1>2, <2>1
<1> HIDE DEF s, t, J, K
<1>6. Away(s, n, J, w, u) /\ Away(t, n, K, w, u)
  BY <1>3, <1>4, <1>5 DEF Away
<1>7. s % n = J
  BY <1>6, Around
<1>8. t % n = K
  BY <1>6, Around
<1> QED
  BY <1>7, <1>8 DEF s, t, J, K, d, h

(* How far a rotation goes: b bits, far bytes and z times around.          *)
Far(shift, n, b, far, z) ==
  /\ n \in Nat \ {0} /\ shift \in Nat /\ b \in 0..7 /\ far \in 0..(n - 1) /\ z \in Int
  /\ shift % 8 = b /\ (shift \div 8) % n = far /\ shift = (8 * ((n * z) + far)) + b

(* Every shift is one of these.                                            *)
LEMMA FarIs ==
  ASSUME NEW shift \in Nat, NEW n \in Nat \ {0}
  PROVE  \E b, far, z : Far(shift, n, b, far, z)
<1> DEFINE q == shift \div 8
           b == shift % 8
           far == q % n
           z == q \div n
<1>1. q \in Nat /\ b \in 0..7 /\ shift = (8 * q) + b
  OBVIOUS
<1> HIDE DEF q, b
<1>2. far \in 0..(n - 1) /\ z \in Int /\ q = (n * z) + far
  BY <1>1
<1>3. q % n = far
  OBVIOUS
<1> HIDE DEF far, z
<1>4. shift = (8 * ((n * z) + far)) + b
  BY <1>1, <1>2
<1>5. shift % 8 = b /\ (shift \div 8) % n = far
  BY <1>3 DEF b, q
<1>6. Far(shift, n, b, far, z)
  BY <1>1, <1>2, <1>4, <1>5 DEF Far
<1> QED
  BY <1>6

(* The bytes of a string that was rotated up ...                           *)
LEMMA LrotIs ==
  ASSUME NEW v, NEW n, Str(v, n), NEW shift, NEW b, NEW far, NEW z, Far(shift, n, b, far, z)
  PROVE  /\ Str(u128_lrot(v, shift), n)
         /\ \A i \in 1..n :
              u128_lrot(v, shift)[i]
                = TurnedByte(v[Down(i, far, n)], v[Down(Down(i, far, n), 1, n)], b)
<1>1. /\ n \in Nat \ {0} /\ b \in 0..7 /\ far \in 0..(n - 1) /\ shift % 8 = b
      /\ (shift \div 8) % n = far /\ Len(v) = n
  BY StrIs DEF Far
<1> DEFINE turned(i) == ((v[i + 1] * TwoTo(b)) % 256)
                          + (v[(((i + n) - 1) % n) + 1] \div TwoTo(8 - b))
           place(i) == ((i + n) - far) % n
           e == [i \in 1..n |-> turned(place(i - 1))]
           f == [i \in 1..n |->
                TurnedByte(v[Down(i, far, n)], v[Down(Down(i, far, n), 1, n)], b)]
<1>2. u128_lrot(v, shift) = <<>> \o e
  BY <1>1 DEF u128_lrot
<1>3. ASSUME NEW i \in 1..n
      PROVE  e[i] = f[i] /\ f[i] \in Byte
  <2> DEFINE d == Down(i, far, n)
             h == Down(d, 1, n)
  <2>1. d \in 1..n /\ place(i - 1) = d - 1
    <3>1. n \in Nat \ {0} /\ far \in 0..n
      BY <1>1
    <3>2. d \in 1..n /\ (((i - 1) + n) - far) % n = d - 1
      BY <3>1, PlacesAround
    <3> QED
      BY <3>2
  <2>2. h \in 1..n /\ (((d - 1) + n) - 1) % n = h - 1
    <3> HIDE DEF d
    <3>1. 1 \in 0..n
      BY <1>1
    <3> QED
      BY <1>1, <2>1, <3>1, PlacesAround
  <2>3. v[d] \in Byte /\ v[h] \in Byte
    BY <2>1, <2>2, StrIs
  <2>4. f[i] = TurnedByte(v[d], v[h], b)
    OBVIOUS
  <2>5. e[i] = turned(place(i - 1))
    OBVIOUS
  <2> HIDE DEF d, h, e, f, place
  <2>6. (d - 1) + 1 = d /\ (h - 1) + 1 = h
    BY <2>1, <2>2
  <2>7. turned(d - 1) = ((v[d] * TwoTo(b)) % 256) + (v[h] \div TwoTo(8 - b))
    BY <2>2, <2>6
  <2>8. e[i] = f[i]
    BY <2>1, <2>4, <2>5, <2>7 DEF TurnedByte
  <2>9. f[i] \in Byte
    <3>1. b \in 0..8
      BY <1>1
    <3> QED
      BY <2>3, <2>4, <3>1, TurnedBits
  <2> QED
    BY <2>8, <2>9
<1>4. \A i \in 1..n : f[i] = TurnedByte(v[Down(i, far, n)], v[Down(Down(i, far, n), 1, n)], b)
  OBVIOUS
<1>5. e = [i \in 1..n |-> e[i]] /\ n \in Nat
  BY <1>1
<1> DEFINE x == u128_lrot(v, shift)
<1> HIDE DEF e, f, x
<1>6. e \in [1..n -> Byte]
  BY <1>3, <1>5
<1>7. Str(x, n) /\ \A i \in 1..n : x[i] = e[i]
  <2>1. x = <<>> \o e
    BY <1>2 DEF x
  <2> QED
    BY <1>5, <1>6, <2>1, StrMade
<1> QED
  BY <1>3, <1>4, <1>7 DEF x

(* ... and down.                                                           *)
LEMMA RrotIs ==
  ASSUME NEW v, NEW n, Str(v, n), NEW shift, NEW b, NEW far, NEW z, Far(shift, n, b, far, z)
  PROVE  /\ Str(u128_rrot(v, shift), n)
         /\ \A i \in 1..n :
              u128_rrot(v, shift)[i]
                = TurnedByte(v[Up(Up(i, far, n), 1, n)], v[Up(i, far, n)], 8 - b)
<1>1. /\ n \in Nat \ {0} /\ b \in 0..7 /\ far \in 0..(n - 1) /\ shift % 8 = b
      /\ shift = (8 * ((n * z) + far)) + b /\ Len(v) = n /\ z \in Int /\ shift \in Nat
  BY StrIs DEF Far
<1> DEFINE q == shift \div 8
           from(i) == v[((i + q) % n) + 1]
           e == [i \in 1..n |-> (from(i - 1) \div TwoTo(b)) + ((from(i) * TwoTo(8 - b)) % 256)]
           f == [i \in 1..n |-> TurnedByte(v[Up(Up(i, far, n), 1, n)], v[Up(i, far, n)], 8 - b)]
<1>2. u128_rrot(v, shift) = <<>> \o e
  BY <1>1 DEF u128_rrot
<1>8. q = (n * z) + far /\ q \in Int
  <2> DEFINE p == (n * z) + far
  <2>1. p \in Int /\ shift = (8 * p) + b
    BY <1>1
  <2> HIDE DEF p
  <2>2. b \in 0..7
    BY <1>1
  <2>3. q = p
    BY <2>1, <2>2, Eighth
  <2> QED
    BY <2>1, <2>3 DEF p
<1>9. 8 - b \in 0..8 /\ 8 - (8 - b) = b
  <2>1. b \in 0..7
    BY <1>1
  <2> QED
    BY <2>1
<1> HIDE DEF q
<1>3. ASSUME NEW i \in 1..n
      PROVE  e[i] = f[i] /\ f[i] \in Byte
  <2> DEFINE d == Up(i, far, n)
             h == Up(d, 1, n)
             j == i - 1
             a == 8 - b
  <2>1. d \in 1..n
    <3>1. n \in Nat \ {0} /\ far \in 0..n
      BY <1>1
    <3> QED
      BY <3>1, PlacesAround
  <2>2. h \in 1..n
    <3> HIDE DEF d
    <3>1. 1 \in 0..n
      BY <1>1
    <3> QED
      BY <1>1, <2>1, <3>1, PlacesAround
  <2>3. v[d] \in Byte /\ v[h] \in Byte
    BY <2>1, <2>2, StrIs
  <2>4. f[i] = TurnedByte(v[h], v[d], a)
    OBVIOUS
  <2>5. e[i] = (from(j) \div TwoTo(b)) + ((from(i) * TwoTo(a)) % 256)
    OBVIOUS
  <2>6. (j + q) % n = d - 1 /\ (i + q) % n = h - 1
    <3>1. Winds(n, far, z, q)
      BY <1>1, <1>8 DEF Winds
    <3> QED
      BY <1>1, <3>1, UpAround
  <2>7. a \in 0..8 /\ 8 - a = b
    BY <1>9
  <2> HIDE DEF d, h, f, e, j, a
  <2>8. (d - 1) + 1 = d /\ (h - 1) + 1 = h
    BY <2>1, <2>2
  <2>9. from(j) = v[d] /\ from(i) = v[h]
    BY <2>6, <2>8
  <2> HIDE DEF from
  <2>10. e[i] = (v[d] \div TwoTo(b)) + ((v[h] * TwoTo(a)) % 256)
    BY <2>5, <2>9
  <2>11. f[i] = ((v[h] * TwoTo(a)) % 256) + (v[d] \div TwoTo(b))
    BY <2>4, <2>7 DEF TurnedByte
  <2>12. f[i] \in Byte
    BY <2>3, <2>4, <2>7, TurnedBits
  <2>13. e[i] = f[i]
    <3> DEFINE l == v[d] \div TwoTo(b)
               r == (v[h] * TwoTo(a)) % 256
    <3>1. \A t \in 0..8 : TwoTo(t) \in Nat \ {0}
      <4>1. \A t \in 0..8 : t = 0 \/ t = 1 \/ t = 2 \/ t = 3 \/ t = 4 \/ t = 5
               \/ t = 6 \/ t = 7 \/ t = 8
        OBVIOUS
      <4> QED
        BY <4>1, TwoToIs
    <3>2. TwoTo(b) \in Nat \ {0} /\ TwoTo(a) \in Nat \ {0}
      <4>1. b \in 0..8
        BY <1>1
      <4> QED
        BY <2>7, <3>1, <4>1
    <3>3. l \in Int /\ r \in Int
      BY <2>3, <3>2 DEF Byte
    <3>4. e[i] = l + r /\ f[i] = r + l
      BY <2>10, <2>11
    <3> HIDE DEF l, r
    <3> QED
      BY <3>3, <3>4
  <2> QED
    BY <2>12, <2>13
<1>4. \A i \in 1..n : f[i] = TurnedByte(v[Up(Up(i, far, n), 1, n)], v[Up(i, far, n)], 8 - b)
  OBVIOUS
<1>5. e = [i \in 1..n |-> e[i]] /\ n \in Nat
  BY <1>1
<1> DEFINE x == u128_rrot(v, shift)
<1> HIDE DEF e, f, x
<1>6. e \in [1..n -> Byte]
  BY <1>3, <1>5
<1>7. Str(x, n) /\ \A i \in 1..n : x[i] = e[i]
  <2>1. x = <<>> \o e
    BY <1>2 DEF x
  <2> QED
    BY <1>5, <1>6, <2>1, StrMade
<1> QED
  BY <1>3, <1>4, <1>7 DEF x

(* A bit of a string is a bit of a byte.                                   *)
LEMMA BitPlace ==
  ASSUME NEW v, NEW p \in Int, NEW t \in 0..7
  PROVE  BitOf(v, (8 * (p - 1)) + t) = ByteBit(v[p], t)
<1> DEFINE j == (8 * (p - 1)) + t
<1>1. j \div 8 = p - 1 /\ j % 8 = t /\ (p - 1) + 1 = p
  OBVIOUS
<1> HIDE DEF j
<1>2. BitOf(v, j) = ByteBit(v[p], t)
  BY <1>1 DEF BitOf, ByteBit
<1> QED
  BY <1>2 DEF j

(* Every bit has a byte and a place there.                                 *)
LEMMA PlaceOfBit ==
  ASSUME NEW n \in Nat, NEW j \in 0..((8 * n) - 1)
  PROVE  \E p \in 1..n, t \in 0..7 : j = (8 * (p - 1)) + t
<1> DEFINE p == (j \div 8) + 1
           t == j % 8
<1>1. p \in 1..n /\ t \in 0..7 /\ j = (8 * (p - 1)) + t
  OBVIOUS
<1> QED
  BY <1>1

(* Where a bit comes from that was moved up by a rotation ...              *)
LEMMA BitDown ==
  ASSUME NEW shift, NEW n, NEW b, NEW far, NEW z, Far(shift, n, b, far, z),
         NEW p \in 1..n, NEW t \in 0..7
  PROVE  (((8 * (p - 1)) + t) - shift) % (8 * n)
           = IF t >= b THEN (8 * (Down(p, far, n) - 1)) + (t - b)
             ELSE (8 * (Down(Down(p, far, n), 1, n) - 1)) + ((8 + t) - b)
<1> DEFINE y == n * z
           m == 8 * n
           x == m * z
           d == Down(p, far, n)
           h == Down(d, 1, n)
           s == ((8 * (p - 1)) + t) - shift
           J == IF t >= b THEN (8 * (d - 1)) + (t - b) ELSE (8 * (h - 1)) + ((8 + t) - b)
<1>1. n \in Nat \ {0} /\ b \in 0..7 /\ far \in 0..(n - 1) /\ z \in Int /\ shift \in Nat
  BY DEF Far
<1>2. y \in Int /\ x \in Int /\ x = 8 * y /\ shift = (8 * (y + far)) + b
  BY <1>1 DEF Far
<1>3. x = m * z /\ m \in Nat \ {0}
  BY <1>1
<1>4. d \in 1..n /\ (d = p - far \/ d = (p - far) + n)
  BY <1>1 DEF Down
<1> HIDE DEF d
<1>5. h \in 1..n /\ (h = d - 1 \/ h = (d - 1) + n)
  BY <1>1, <1>4 DEF Down
<1> HIDE DEF h, x, y
<1>6. s + x = ((8 * ((p - 1) - far)) + t) - b /\ s \in Int
  BY <1>1, <1>2
<1>7. J \in 0..(m - 1)
  <2>1. \A g \in 1..n, r \in 0..7 : (8 * (g - 1)) + r \in 0..((8 * n) - 1)
    BY <1>1
  <2>2. CASE t >= b
    <3>1. t - b \in 0..7
      BY <1>1, <2>2
    <3> QED
      BY <1>4, <1>5, <2>1, <2>2, <3>1
  <2>3. CASE ~(t >= b)
    <3>1. (8 + t) - b \in 0..7
      BY <1>1, <2>3
    <3> QED
      BY <1>4, <1>5, <2>1, <2>3, <3>1
  <2> QED
    BY <2>2, <2>3
<1>8. s + x \in {J, J + m, J + m + m, J - m, (J - m) - m}
  <2> DEFINE g == ((8 * (d - 1)) + t) - b
  <2>1. g \in Int /\ (s + x = g \/ s + x = g - m)
    <3> HIDE DEF s
    <3> QED
      BY <1>1, <1>4, <1>6
  <2>2. CASE t >= b
    <3>1. J = g
      BY <1>1, <1>4, <1>5, <2>2
    <3> HIDE DEF s, J, g, m
    <3> QED
      BY <1>3, <2>1, <3>1
  <2>3. CASE ~(t >= b)
    <3>1. J = g \/ J = g + m
      <4>1. J = (8 * (h - 1)) + ((8 + t) - b)
        BY <2>3
      <4>2. h \in Int /\ d \in Int /\ n \in Int /\ b \in Int
        BY <1>1, <1>4, <1>5
      <4> HIDE DEF J
      <4>3. CASE h = d - 1
        BY <4>1, <4>2, <4>3
      <4>4. CASE h = (d - 1) + n
        BY <4>1, <4>2, <4>4
      <4> QED
        BY <1>5, <4>3, <4>4
    <3> HIDE DEF s, J, g, m
    <3> QED
      BY <1>3, <2>1, <3>1
  <2> QED
    BY <2>2, <2>3
<1> HIDE DEF s, J, m
<1>9. Away(s, m, J, z, x)
  BY <1>1, <1>2, <1>3, <1>6, <1>7, <1>8 DEF Away
<1>10. s % m = J
  BY <1>9, Around
<1> QED
  BY <1>10 DEF s, J, m, d, h

(* ... or down.                                                            *)
LEMMA BitUp ==
  ASSUME NEW shift, NEW n, NEW b, NEW far, NEW z, Far(shift, n, b, far, z),
         NEW p \in 1..n, NEW t \in 0..7
  PROVE  (((8 * (p - 1)) + t) - (-shift)) % (8 * n)
           = IF t >= 8 - b THEN (8 * (Up(Up(p, far, n), 1, n) - 1)) + (t - (8 - b))
             ELSE (8 * (Up(p, far, n) - 1)) + ((8 + t) - (8 - b))
<1> DEFINE y == n * z
           m == 8 * n
           w == -z
           x == m * w
           d == Up(p, far, n)
           h == Up(d, 1, n)
           s == ((8 * (p - 1)) + t) - (-shift)
           J == IF t >= 8 - b THEN (8 * (h - 1)) + (t - (8 - b))
                ELSE (8 * (d - 1)) + ((8 + t) - (8 - b))
<1>1. n \in Nat \ {0} /\ b \in 0..7 /\ far \in 0..(n - 1) /\ z \in Int /\ shift \in Nat
  BY DEF Far
<1>2. y \in Int /\ x \in Int /\ x = -(8 * y) /\ shift = (8 * (y + far)) + b
  BY <1>1 DEF Far
<1>3. x = m * w /\ m \in Nat \ {0} /\ w \in Int
  BY <1>1
<1>4. d \in 1..n /\ (d = p + far \/ d = (p + far) - n)
  BY <1>1 DEF Up
<1> HIDE DEF d
<1>5. h \in 1..n /\ (h = d + 1 \/ h = (d + 1) - n)
  BY <1>1, <1>4 DEF Up
<1> HIDE DEF h, x, y, w
<1>6. s + x = (8 * ((p - 1) + far)) + t + b /\ s \in Int
  BY <1>1, <1>2
<1>7. J \in 0..(m - 1)
  <2>1. \A g \in 1..n, r \in 0..7 : (8 * (g - 1)) + r \in 0..((8 * n) - 1)
    BY <1>1
  <2>2. CASE t >= 8 - b
    <3>1. t - (8 - b) \in 0..7
      BY <1>1, <2>2
    <3> QED
      BY <1>4, <1>5, <2>1, <2>2, <3>1
  <2>3. CASE ~(t >= 8 - b)
    <3>1. (8 + t) - (8 - b) \in 0..7
      BY <1>1, <2>3
    <3> QED
      BY <1>4, <1>5, <2>1, <2>3, <3>1
  <2> QED
    BY <2>2, <2>3
<1>8. s + x \in {J, J + m, J + m + m, J - m, (J - m) - m}
  <2> DEFINE g == (8 * (d - 1)) + t + b
  <2>1. g \in Int /\ (s + x = g \/ s + x = g + m)
    <3> HIDE DEF s
    <3> QED
      BY <1>1, <1>4, <1>6
  <2>2. CASE t >= 8 - b
    <3>1. J = g \/ J = g - m
      BY <1>1, <1>4, <1>5, <2>2
    <3> HIDE DEF s, J, g, m
    <3> QED
      BY <1>3, <2>1, <3>1
  <2>3. CASE ~(t >= 8 - b)
    <3>1. J = g
      BY <1>1, <1>4, <1>5, <2>3
    <3> HIDE DEF s, J, g, m
    <3> QED
      BY <1>3, <2>1, <3>1
  <2> QED
    BY <2>2, <2>3
<1> HIDE DEF s, J, m
<1>9. Away(s, m, J, w, x)
  BY <1>1, <1>2, <1>3, <1>6, <1>7, <1>8 DEF Away
<1>10. s % m = J
  BY <1>9, Around
<1> QED
  BY <1>10 DEF s, J, m, d, h

(* A string that was turned is rotated bit by bit (u128_lrot) ...          *)
LEMMA LeftBits ==
  ASSUME NEW v, NEW n, Str(v, n), n # 0, NEW shift \in Nat
  PROVE  RotationOf(v, shift, u128_lrot(v, shift)) /\ Str(u128_lrot(v, shift), n)
<1>1. n \in Nat \ {0} /\ Len(v) = n
  BY StrIs
<1>2. PICK b, far, z : Far(shift, n, b, far, z)
  BY <1>1, FarIs
<1> DEFINE w == u128_lrot(v, shift)
<1>3. /\ Str(w, n)
      /\ \A i \in 1..n : w[i] =
               TurnedByte(v[Down(i, far, n)], v[Down(Down(i, far, n), 1, n)], b)
  BY <1>2, LrotIs
<1> HIDE DEF w
<1>4. b \in 0..7 /\ b \in 0..8 /\ far \in 0..n /\ 1 \in 0..n
  <2>1. b \in 0..7 /\ far \in 0..(n - 1)
    BY <1>2 DEF Far
  <2> QED
    BY <1>1, <2>1
<1>5. ASSUME NEW j \in 0..((8 * n) - 1)
      PROVE  BitOf(w, j) = BitOf(v, (j - shift) % (8 * n))
  <2>1. PICK p \in 1..n, t \in 0..7 : j = (8 * (p - 1)) + t
    BY <1>1, PlaceOfBit
  <2> DEFINE d == Down(p, far, n)
             h == Down(d, 1, n)
  <2>2. d \in 1..n
    BY <1>1, <1>4, PlacesAround
  <2>3. h \in 1..n
    <3> HIDE DEF d
    <3> QED
      BY <1>1, <1>4, <2>2, PlacesAround
  <2>4. (j - shift) % (8 * n) = IF t >= b THEN (8 * (d - 1)) + (t - b)
                                ELSE (8 * (h - 1)) + ((8 + t) - b)
    BY <1>2, <2>1, BitDown
  <2>5. w[p] = TurnedByte(v[d], v[h], b)
    BY <1>3
  <2> HIDE DEF d, h
  <2>6. v[d] \in Byte /\ v[h] \in Byte /\ p \in Int /\ d \in Int /\ h \in Int
    BY <1>1, <2>2, <2>3, StrIs
  <2>7. ByteBit(w[p], t) = IF t >= b THEN ByteBit(v[d], t - b) ELSE ByteBit(v[h], (8 + t) - b)
    BY <1>4, <2>5, <2>6, TurnedBits
  <2>8. BitOf(w, j) = ByteBit(w[p], t)
    BY <2>1, <2>6, BitPlace
  <2>9. CASE t >= b
    <3> DEFINE a == t - b
    <3>1. a \in 0..7
      BY <1>4, <2>9
    <3> HIDE DEF a
    <3>2. BitOf(v, (8 * (d - 1)) + a) = ByteBit(v[d], a)
      BY <2>6, <3>1, BitPlace
    <3> QED
      BY <2>4, <2>7, <2>8, <2>9, <3>2 DEF a
  <2>10. CASE ~(t >= b)
    <3> DEFINE a == (8 + t) - b
    <3>1. a \in 0..7
      BY <1>4, <2>10
    <3> HIDE DEF a
    <3>2. BitOf(v, (8 * (h - 1)) + a) = ByteBit(v[h], a)
      BY <2>6, <3>1, BitPlace
    <3> QED
      BY <2>4, <2>7, <2>8, <2>10, <3>2 DEF a
  <2> QED
    BY <2>9, <2>10
<1> QED
  BY <1>1, <1>3, <1>5 DEF RotationOf, w

(* ... in either direction (u128_rrot).                                    *)
LEMMA RightBits ==
  ASSUME NEW v, NEW n, Str(v, n), n # 0, NEW shift \in Nat
  PROVE  RotationOf(v, -shift, u128_rrot(v, shift)) /\ Str(u128_rrot(v, shift), n)
<1>1. n \in Nat \ {0} /\ Len(v) = n
  BY StrIs
<1>2. PICK b, far, z : Far(shift, n, b, far, z)
  BY <1>1, FarIs
<1> DEFINE w == u128_rrot(v, shift)
           c == 8 - b
           o == -shift
<1>3. /\ Str(w, n)
      /\ \A i \in 1..n : w[i] = TurnedByte(v[Up(Up(i, far, n), 1, n)], v[Up(i, far, n)], c)
  BY <1>2, RrotIs
<1>4. b \in 0..7 /\ c \in 0..8 /\ far \in 0..n /\ 1 \in 0..n
  <2>1. b \in 0..7 /\ far \in 0..(n - 1)
    BY <1>2 DEF Far
  <2> QED
    BY <1>1, <2>1
<1> HIDE DEF w
<1>5. ASSUME NEW j \in 0..((8 * n) - 1)
      PROVE  BitOf(w, j) = BitOf(v, (j - o) % (8 * n))
  <2>1. PICK p \in 1..n, t \in 0..7 : j = (8 * (p - 1)) + t
    BY <1>1, PlaceOfBit
  <2> DEFINE d == Up(p, far, n)
             h == Up(d, 1, n)
  <2>2. d \in 1..n
    BY <1>1, <1>4, PlacesAround
  <2>3. h \in 1..n
    <3> HIDE DEF d
    <3> QED
      BY <1>1, <1>4, <2>2, PlacesAround
  <2>4. (j - o) % (8 * n) = IF t >= c THEN (8 * (h - 1)) + (t - c)
                            ELSE (8 * (d - 1)) + ((8 + t) - c)
    <3> DEFINE e == (8 * (p - 1)) + t
    <3>1. (e - o) % (8 * n) = IF t >= c THEN (8 * (h - 1)) + (t - c)
                              ELSE (8 * (d - 1)) + ((8 + t) - c)
      BY <1>2, BitUp
    <3>2. j = e
      BY <2>1
    <3> HIDE DEF e, o, c, d, h
    <3> QED
      BY <3>1, <3>2
  <2>5. w[p] = TurnedByte(v[h], v[d], c)
    BY <1>3
  <2> HIDE DEF d, h, c, o
  <2>6. v[d] \in Byte /\ v[h] \in Byte /\ p \in Int /\ d \in Int /\ h \in Int
    BY <1>1, <2>2, <2>3, StrIs
  <2>7. ByteBit(w[p], t) = IF t >= c THEN ByteBit(v[h], t - c) ELSE ByteBit(v[d], (8 + t) - c)
    BY <1>4, <2>5, <2>6, TurnedBits
  <2>8. BitOf(w, j) = ByteBit(w[p], t)
    BY <2>1, <2>6, BitPlace
  <2>9. CASE t >= c
    <3> DEFINE a == t - c
    <3>1. a \in 0..7
      BY <1>4, <2>9
    <3> HIDE DEF a
    <3>2. BitOf(v, (8 * (h - 1)) + a) = ByteBit(v[h], a)
      BY <2>6, <3>1, BitPlace
    <3> QED
      BY <2>4, <2>7, <2>8, <2>9, <3>2 DEF a
  <2>10. CASE ~(t >= c)
    <3> DEFINE a == (8 + t) - c
    <3>1. a \in 0..7
      BY <1>4, <2>10
    <3> HIDE DEF a
    <3>2. BitOf(v, (8 * (d - 1)) + a) = ByteBit(v[d], a)
      BY <2>6, <3>1, BitPlace
    <3> QED
      BY <2>4, <2>7, <2>8, <2>10, <3>2 DEF a
  <2> QED
    BY <2>9, <2>10
<1> QED
  BY <1>1, <1>3, <1>5 DEF RotationOf, w

(* A rotation down takes back one up, bit by bit.                          *)
LEMMA TurnedBack ==
  ASSUME NEW v, NEW n, Str(v, n), n # 0, NEW shift \in Nat
  PROVE  u128_rrot(u128_lrot(v, shift), shift) = v
<1> DEFINE l == u128_lrot(v, shift)
           r == u128_rrot(l, shift)
           m == 8 * n
           o == -shift
<1>1. n \in Nat \ {0} /\ Len(v) = n
  BY StrIs
<1>2. RotationOf(v, shift, l) /\ Str(l, n)
  BY LeftBits
<1> HIDE DEF l
<1>3. RotationOf(l, o, r) /\ Str(r, n)
  BY <1>2, RightBits
<1> HIDE DEF r
<1>4. Len(l) = n /\ m \in Nat \ {0}
  BY <1>1, <1>2, StrIs
<1>5. \A j \in 0..(m - 1) : BitOf(l, j) = BitOf(v, (j - shift) % m)
  BY <1>1, <1>2 DEF RotationOf
<1>6. \A j \in 0..(m - 1) : BitOf(r, j) = BitOf(l, (j - o) % m)
  BY <1>3, <1>4 DEF RotationOf
<1>7. ASSUME NEW j \in 0..(m - 1)
      PROVE  BitOf(r, j) = BitOf(v, j)
  <2> DEFINE a == j - o
             g == a % m
             q == a \div m
             y == m * q
             s == g - shift
  <2>1. a \in Int /\ a = j + shift
    OBVIOUS
  <2> HIDE DEF a, m
  <2>2. g \in 0..(m - 1) /\ q \in Int /\ a = (m * q) + g
    BY <1>4, <2>1
  <2>3. y \in Int /\ y = m * q /\ a = y + g
    BY <1>4, <2>2
  <2> HIDE DEF g, q, y
  <2>4. s \in Int /\ s + y = j
    BY <2>1, <2>2, <2>3
  <2>5. s + y \in {j, j + m, j + m + m, j - m, (j - m) - m}
    BY <2>4
  <2> HIDE DEF s
  <2>6. s % m = j
    <3>1. Away(s, m, j, q, y)
      BY <1>4, <2>2, <2>3, <2>4, <2>5 DEF Away
    <3> QED
      BY <3>1, Around
  <2>7. BitOf(r, j) = BitOf(l, g)
    BY <1>6 DEF g, a
  <2>8. BitOf(l, g) = BitOf(v, s % m)
    BY <1>5, <2>2 DEF s
  <2> QED
    BY <2>6, <2>7, <2>8
<1>8. ASSUME NEW i \in 1..n
      PROVE  r[i] = v[i]
  <2>1. ASSUME NEW t \in 0..7
        PROVE  ByteBit(r[i], t) = ByteBit(v[i], t)
    <3> DEFINE j == (8 * (i - 1)) + t
    <3>1. j \in 0..(m - 1) /\ i \in Int
      BY <1>1
    <3>2. BitOf(r, j) = ByteBit(r[i], t) /\ BitOf(v, j) = ByteBit(v[i], t)
      BY <3>1, BitPlace
    <3> HIDE DEF j
    <3> QED
      BY <1>7, <3>1, <3>2
  <2>2. r[i] \in Byte /\ v[i] \in Byte
    BY <1>3, StrIs
  <2> QED
    BY <2>1, <2>2, SameBits
<1>9. r = v
  BY <1>3, <1>8, StrEqual
<1> QED
  BY <1>9 DEF r, l

-----------------------------------------------------------------------------
(* Sums and differences.                                                   *)

(* Summands may be exchanged.                                              *)
LEMMA SumsCommute ==
  ASSUME NEW x, NEW v, NEW w, NEW n, NEW c, SumOf(x, v, w, n, c), Str(v, n), Str(w, n)
  PROVE  SumOf(x, w, v, n, c)
<1>1. /\ Str(x, n) /\ c \in [0..n -> 0..1] /\ c[0] = 0 /\ n \in Nat
      /\ \A i \in 1..n : x[i] + (256 * c[i]) = v[i] + w[i] + c[i - 1]
      /\ \A i \in 1..n : v[i] \in Byte /\ w[i] \in Byte
  BY StrIs DEF SumOf
<1>2. ASSUME NEW i \in 1..n
      PROVE  x[i] + (256 * c[i]) = w[i] + v[i] + c[i - 1]
  <2> DEFINE p == v[i]  q == w[i]  e == c[i - 1]
  <2>1. p \in Int /\ q \in Int /\ e \in Int
    <3>1. c[i - 1] \in 0..1
      BY <1>1
    <3>2. v[i] \in Byte /\ w[i] \in Byte
      BY <1>1
    <3> QED
      BY <3>1, <3>2 DEF Byte
  <2>2. x[i] + (256 * c[i]) = p + q + e
    BY <1>1
  <2> HIDE DEF p, q, e
  <2>3. p + q + e = q + p + e
    BY <2>1
  <2> QED
    BY <2>2, <2>3 DEF p, q, e
<1> QED
  BY <1>1, <1>2 DEF SumOf

(* A sum and one of its summands determine the other.                      *)
LEMMA SumCancels ==
  ASSUME NEW x, NEW v, NEW u, NEW w, NEW n, NEW c, NEW d, Str(v, n), Str(u, n), Str(w, n),
         SumOf(x, v, w, n, c), SumOf(x, u, w, n, d)
  PROVE  u = v
<1>1. /\ Str(x, n) /\ c[0] = 0 /\ d[0] = 0
      /\ \A i \in 0..n : c[i] \in 0..1 /\ d[i] \in 0..1
      /\ \A i \in 1..n : x[i] + (256 * c[i]) = v[i] + w[i] + c[i - 1]
      /\ \A i \in 1..n : x[i] + (256 * d[i]) = u[i] + w[i] + d[i - 1]
  BY DEF SumOf
<1>2. /\ n \in Nat
      /\ \A i \in 1..n : x[i] \in Byte /\ v[i] \in Byte /\ u[i] \in Byte /\ w[i] \in Byte
  BY <1>1, StrIs
<1> DEFINE T == {i \in 0..n : c[i] = d[i]}
<1>3. ASSUME NEW i \in 1..n, c[i - 1] = d[i - 1]
      PROVE  c[i] = d[i] /\ u[i] = v[i]
  <2> DEFINE p == v[i]  q == u[i]  a == w[i]  g == x[i]  e == c[i]  f == d[i]  h == c[i - 1]
  <2>1. g + (256 * e) = p + a + h /\ g + (256 * f) = q + a + h
    BY <1>1, <1>3
  <2>2. /\ p \in 0..255 /\ q \in 0..255 /\ a \in 0..255 /\ g \in 0..255
        /\ e \in 0..1 /\ f \in 0..1 /\ h \in 0..1
    <3>1. i - 1 \in 0..n /\ i \in 0..n
      BY <1>2
    <3> QED
      BY <1>1, <1>2, <3>1 DEF Byte
  <2> HIDE DEF p, q, a, g, e, f, h
  <2>3. e = f /\ q = p
    BY <2>1, <2>2
  <2> QED
    BY <2>3 DEF p, q, e, f
<1>4. \A i \in 0..n : i \in T
  <2>1. 0 \in T
    BY <1>1, <1>2
  <2>2. \A i \in 1..n : i - 1 \in T => i \in T
    BY <1>2, <1>3
  <2> HIDE DEF T
  <2> QED
    BY <1>2, <2>1, <2>2, UpTo
<1>5. \A i \in 1..n : u[i] = v[i]
  <2>1. \A i \in 1..n : i - 1 \in 0..n
    BY <1>2
  <2> QED
    BY <1>3, <1>4, <2>1
<1> QED
  BY <1>5, StrEqual

(* What was added is what is left when the rest is taken away.             *)
LEMMA TakenAway ==
  ASSUME NEW v, NEW w, NEW n, Str(v, n), Str(w, n)
  PROVE  u128_sub(u128_add(v, w), v) = w /\ u128_add(v, w) = u128_add(w, v)
         /\ Str(u128_add(v, w), n)
<1> DEFINE s == u128_add(v, w)
           t == u128_add(w, v)
           r == u128_sub(s, v)
<1>1. PICK c : SumOf(s, v, w, n, c)
  BY SumExists
<1>2. PICK d : SumOf(t, w, v, n, d)
  BY SumExists
<1> HIDE DEF s, t
<1>3. SumOf(s, w, v, n, c) /\ Str(s, n)
  <2>1. Str(s, n)
    BY <1>1 DEF SumOf
  <2> QED
    BY <1>1, <2>1, SumsCommute
<1>4. s = t
  BY <1>2, <1>3, SumOnce
<1>5. PICK e : SumOf(s, r, v, n, e) /\ Str(r, n)
  BY <1>3, DifferenceExists
<1> HIDE DEF r
<1>6. r = w
  BY <1>3, <1>5, SumCancels
<1> QED
  BY <1>3, <1>4, <1>6 DEF s, t, r

(* Sums and differences are those of the numbers (u128_math.c).            *)
LEMMA NumbersAdded ==
  ASSUME NEW v, NEW w, NEW n, Str(v, n), Str(w, n)
  PROVE  /\ Value(u128_add(v, w)) = (Value(v) + Value(w)) % Numbers(n)
         /\ Value(u128_sub(v, w)) = (Value(v) - Value(w)) % Numbers(n)
         /\ Str(u128_add(v, w), n) /\ Str(u128_sub(v, w), n)
<1> DEFINE s == u128_add(v, w)
           r == u128_sub(v, w)
           m == Numbers(n)
           a == Value(v)
           b == Value(w)
           e == Value(s)
           f == Value(r)
<1>1. PICK c : SumOf(s, v, w, n, c)
  BY SumExists
<1>2. PICK d : SumOf(v, r, w, n, d) /\ Str(r, n)
  BY DifferenceExists
<1> HIDE DEF s, r
<1>3. Str(s, n)
  BY <1>1 DEF SumOf
<1>4. /\ e \in 0..(m - 1) /\ a \in 0..(m - 1) /\ b \in 0..(m - 1) /\ m \in Nat \ {0}
      /\ a + b = e + (IF c[n] = 1 THEN m ELSE 0)
  BY <1>1, SumValue
<1>5. f \in 0..(m - 1) /\ f + b = a + (IF d[n] = 1 THEN m ELSE 0)
  BY <1>2, SumValue
<1> HIDE DEF m, a, b, e, f
<1>6. a + b = e \/ a + b = e + m
  BY <1>4
<1>7. a - b = f \/ a - b = f - m
  BY <1>4, <1>5
<1>8. (a + b) % m = e /\ (a - b) % m = f
  BY <1>4, <1>5, <1>6, <1>7, AroundOnce
<1> QED
  BY <1>2, <1>3, <1>8 DEF s, r, m, a, b, e, f

-----------------------------------------------------------------------------
(* Keys.                                                                   *)

(* The constants that keys are scrambled with (gm9i/f_xy.c).               *)
LEMMA KeysAreStrings ==
  /\ Str(DSi_KEY_MAGIC, 16) /\ Str(DSi_NAND_KEY_Y, 16) /\ Str(DSi_ES_KEY_Y, 16)
  /\ Str(KEYSEED_DSI_NAND_0, 4) /\ Str(KEYSEED_DSI_NAND_1, 4)
  /\ Str(KEYSEED_ES_0, 4) /\ Str(KEYSEED_ES_1, 4) /\ Str(KEYSEED_ES_2, 4)
<1>1. Str(DSi_KEY_MAGIC, 16)
  BY DEF DSi_KEY_MAGIC, Str, Byte
<1>2. Str(DSi_NAND_KEY_Y, 16)
  BY DEF DSi_NAND_KEY_Y, Str, Byte
<1>3. Str(DSi_ES_KEY_Y, 16)
  BY DEF DSi_ES_KEY_Y, Str, Byte
<1>4. Str(KEYSEED_DSI_NAND_0, 4) /\ Str(KEYSEED_DSI_NAND_1, 4)
  BY DEF KEYSEED_DSI_NAND_0, KEYSEED_DSI_NAND_1, Str, Byte
<1>5. Str(KEYSEED_ES_0, 4) /\ Str(KEYSEED_ES_1, 4) /\ Str(KEYSEED_ES_2, 4)
  BY DEF KEYSEED_ES_0, KEYSEED_ES_1, KEYSEED_ES_2, Str, Byte
<1> QED
  BY <1>1, <1>2, <1>3, <1>4, <1>5

(* F_XY_reverse gets back what F_XY was given, and what is scrambled in    *)
(* place is the same key (gm9i/f_xy.c, main.arm7.c).                       *)
LEMMA KeyUnscrambled ==
  ASSUME NEW x, NEW y, Str(x, 16), Str(y, 16)
  PROVE  F_XY_reverse(F_XY(x, y)) = XorAll(x, y) /\ Scrambled(x, y) = F_XY(x, y)
<1> DEFINE far == XorAll(x, y)
           magic == DSi_KEY_MAGIC
           s == u128_add(magic, far)
           t == u128_add(far, magic)
           o == 42
           n == 16
<1>1. Str(far, n) /\ Str(magic, n) /\ o \in Nat /\ n # 0
  BY XorAllIs, KeysAreStrings
<1>2. F_XY(x, y) = u128_lrot(s, o) /\ Scrambled(x, y) = u128_lrot(t, o)
  BY DEF F_XY, Scrambled, u128_xor
<1>3. F_XY_reverse(u128_lrot(s, o)) = u128_sub(u128_rrot(u128_lrot(s, o), o), magic)
  BY DEF F_XY_reverse
<1> HIDE DEF far, magic, o, n
<1>4. u128_sub(s, magic) = far /\ s = t /\ Str(s, n)
  BY <1>1, TakenAway
<1> HIDE DEF s, t
<1>5. u128_rrot(u128_lrot(s, o), o) = s
  BY <1>1, <1>4, TurnedBack
<1> QED
  BY <1>2, <1>3, <1>4, <1>5, Zenon DEF far

(* Four words in a row, and each of them in its place.                     *)
Four(x, a, b, c, d) ==
  /\ Str(x, 16)
  /\ \A i \in 1..4 : x[i] = a[i] /\ x[4 + i] = b[i] /\ x[8 + i] = c[i] /\ x[12 + i] = d[i]

(* Four words one behind the other.                                        *)
LEMMA FourWords ==
  ASSUME NEW a, NEW b, NEW c, NEW d, Str(a, 4), Str(b, 4), Str(c, 4), Str(d, 4)
  PROVE  Four(a \o b \o c \o d, a, b, c, d)
<1> DEFINE x == a \o b
           y == x \o c
           z == y \o d
<1>1. Appended(x, a, b, 4, 4)
  BY StrJoined
<1>2. Str(x, 8) /\ \A i \in 1..4 : x[i] = a[i] /\ x[4 + i] = b[i]
  <2>1. Str(x, 4 + 4) /\ \A i \in 1..4 : x[i] = a[i] /\ x[4 + i] = b[i]
    BY <1>1 DEF Appended
  <2>2. 4 + 4 = 8
    OBVIOUS
  <2> QED
    BY <2>1, <2>2
<1> HIDE DEF x
<1>3. Appended(y, x, c, 8, 4)
  BY <1>2, StrJoined
<1>4. Str(y, 12) /\ \A i \in 1..8 : y[i] = x[i]
  <2>1. Str(y, 8 + 4) /\ \A i \in 1..8 : y[i] = x[i]
    BY <1>3 DEF Appended
  <2>2. 8 + 4 = 12
    OBVIOUS
  <2> QED
    BY <2>1, <2>2
<1>5. \A i \in 1..4 : y[8 + i] = c[i]
  BY <1>3 DEF Appended
<1> HIDE DEF y
<1>6. Appended(z, y, d, 12, 4)
  BY <1>4, StrJoined
<1>7. Str(z, 16) /\ \A i \in 1..12 : z[i] = y[i]
  <2>1. Str(z, 12 + 4) /\ \A i \in 1..12 : z[i] = y[i]
    BY <1>6 DEF Appended
  <2>2. 12 + 4 = 16
    OBVIOUS
  <2> QED
    BY <2>1, <2>2
<1>8. \A i \in 1..4 : z[12 + i] = d[i]
  BY <1>6 DEF Appended
<1> HIDE DEF z
<1>9. ASSUME NEW i \in 1..4
      PROVE  z[i] = a[i] /\ z[4 + i] = b[i] /\ z[8 + i] = c[i] /\ z[12 + i] = d[i]
  <2>1. i \in 1..8 /\ i \in 1..12 /\ 4 + i \in 1..8 /\ 4 + i \in 1..12 /\ 8 + i \in 1..12
    OBVIOUS
  <2> QED
    BY <1>2, <1>4, <1>5, <1>7, <1>8, <2>1
<1> QED
  BY <1>7, <1>9 DEF Four, z, y, x

(* A console's number of two words.                                        *)
Id(id) == /\ id = <<id[1], id[2]>> /\ Str(id[1], 4) /\ Str(id[2], 4)

(* What a call is given is such a number.                                  *)
LEMMA ConsolesAre ==
  ASSUME NEW id \in ConsoleIds
  PROVE  Id(id)
  BY DEF Id, ConsoleIds, Str

(* The words a console's key is made of tell its number (gm9i/crypto.c).   *)
LEMMA WordsTellConsoles ==
  ASSUME NEW id, NEW other, Id(id), Id(other), NEW mode, mode \in {"NAND", "ES"}
  PROVE  /\ Str(KeyWords(id, mode), 16)
         /\ KeyWords(id, mode) = KeyWords(other, mode) => id = other
<1> DEFINE a == id[1]  b == id[2]  c == other[1]  d == other[2]
           x == KeyWords(id, mode)
           y == KeyWords(other, mode)
           s0 == KEYSEED_DSI_NAND_0  s1 == KEYSEED_DSI_NAND_1
           e0 == KEYSEED_ES_0  e1 == KEYSEED_ES_1  e2 == KEYSEED_ES_2
<1>1. /\ id = <<a, b>> /\ other = <<c, d>>
      /\ Str(a, 4) /\ Str(b, 4) /\ Str(c, 4) /\ Str(d, 4)
  BY DEF Id
<1>2. /\ Str(s0, 4) /\ Str(s1, 4) /\ Str(e0, 4) /\ Str(e1, 4) /\ Str(e2, 4)
  BY KeysAreStrings
<1>3. mode = "NAND" => /\ x = a \o XorAll(a, s0) \o XorAll(b, s1) \o b
                       /\ y = c \o XorAll(c, s0) \o XorAll(d, s1) \o d
  BY DEF KeyWords
<1>4. mode = "ES" => /\ x = e0 \o e1 \o XorAll(b, e2) \o a
                     /\ y = e0 \o e1 \o XorAll(d, e2) \o c
  BY DEF KeyWords
<1> HIDE DEF a, b, c, d, x, y, s0, s1, e0, e1, e2
<1>5. CASE mode = "NAND"
  <2> DEFINE p == XorAll(a, s0)  q == XorAll(b, s1)  g == XorAll(c, s0)  h == XorAll(d, s1)
  <2>1. Str(p, 4) /\ Str(q, 4) /\ Str(g, 4) /\ Str(h, 4)
    BY <1>1, <1>2, XorAllIs
  <2>2. x = a \o p \o q \o b /\ y = c \o g \o h \o d
    BY <1>3, <1>5
  <2> HIDE DEF p, q, g, h
  <2>3. Four(x, a, p, q, b) /\ Four(y, c, g, h, d)
    BY <1>1, <2>1, <2>2, FourWords
  <2>4. Str(x, 16)
    BY <2>3 DEF Four
  <2>5. ASSUME x = y
        PROVE  a = c /\ b = d
    <3>1. \A i \in 1..4 : a[i] = c[i] /\ b[i] = d[i]
      BY <2>3, <2>5 DEF Four
    <3> QED
      BY <1>1, <3>1, StrEqual
  <2> QED
    BY <1>1, <2>4, <2>5 DEF x, y
<1>6. CASE mode = "ES"
  <2> DEFINE p == XorAll(b, e2)  q == XorAll(d, e2)
  <2>1. Str(p, 4) /\ Str(q, 4) /\ XorAll(p, e2) = b /\ XorAll(q, e2) = d
    BY <1>1, <1>2, XorAllIs, XorAllTwice
  <2>2. x = e0 \o e1 \o p \o a /\ y = e0 \o e1 \o q \o c
    BY <1>4, <1>6
  <2> HIDE DEF p, q
  <2>3. Four(x, e0, e1, p, a) /\ Four(y, e0, e1, q, c)
    BY <1>1, <1>2, <2>1, <2>2, FourWords
  <2>4. Str(x, 16)
    BY <2>3 DEF Four
  <2>5. ASSUME x = y
        PROVE  a = c /\ b = d
    <3>1. \A i \in 1..4 : a[i] = c[i] /\ p[i] = q[i]
      BY <2>3, <2>5 DEF Four
    <3>2. a = c
      BY <1>1, <3>1, StrEqual
    <3>3. p = q
      BY <2>1, <3>1, StrEqual
    <3> QED
      BY <2>1, <3>2, <3>3
  <2> QED
    BY <1>1, <2>4, <2>5 DEF x, y
<1> QED
  BY <1>5, <1>6

(* Two consoles have two keys (gm9i/crypto.c).                             *)
LEMMA KeysTellConsoles ==
  ASSUME NEW id, NEW other, Id(id), Id(other), NEW mode, mode \in {"NAND", "ES"},
         generate_key(id, mode) = generate_key(other, mode)
  PROVE  id = other
<1> DEFINE y == IF mode = "ES" THEN DSi_ES_KEY_Y ELSE DSi_NAND_KEY_Y
           v == KeyWords(id, mode)
           w == KeyWords(other, mode)
<1>1. Str(y, 16)
  BY KeysAreStrings
<1>2. Str(v, 16) /\ Str(w, 16) /\ (v = w => id = other)
  BY WordsTellConsoles
<1>3. Scrambled(v, y) = Scrambled(w, y)
  BY DEF generate_key
<1> HIDE DEF y, v, w
<1>4. F_XY_reverse(F_XY(v, y)) = XorAll(v, y) /\ Scrambled(v, y) = F_XY(v, y)
  BY <1>1, <1>2, KeyUnscrambled
<1>5. F_XY_reverse(F_XY(w, y)) = XorAll(w, y) /\ Scrambled(w, y) = F_XY(w, y)
  BY <1>1, <1>2, KeyUnscrambled
<1>6. XorAll(v, y) = XorAll(w, y)
  BY <1>3, <1>4, <1>5
<1>7. XorAll(XorAll(v, y), y) = v /\ XorAll(XorAll(w, y), y) = w
  BY <1>1, <1>2, XorAllTwice
<1> QED
  BY <1>2, <1>6, <1>7

(* One call of the arithmetic (u128_math.c).                               *)
LEMMA ArithmeticAgrees ==
  ASSUME call \in ArithmeticCalls, Len(call.v) = Len(call.w), call.v # <<>>, Arithmetic,
         call' = call
  PROVE  NumbersAgree'
<1> DEFINE v == call.v
           w == call.w
           n == Len(v)
           o == call.shift
           sum == u128_add(v, w)
           difference == u128_sub(v, w)
           left == u128_lrot(v, o)
           right == u128_rrot(v, o)
           value == [sum |-> sum, difference |-> difference, left |-> left, right |-> right]
<1>1. v \in Seq(Byte) /\ w \in Seq(Byte) /\ o \in Nat /\ Len(w) = n /\ v # <<>>
  BY DEF ArithmeticCalls
<1>2. Str(v, n) /\ Str(w, n) /\ n # 0
  BY <1>1 DEF Str
<1>3. result' = value /\ v' = v /\ w' = w /\ o' = o
  BY DEF Arithmetic, Returns
<1> HIDE DEF v, w, n, o
<1>4. /\ Value(sum) = (Value(v) + Value(w)) % Numbers(n)
      /\ Value(difference) = (Value(v) - Value(w)) % Numbers(n)
      /\ Str(sum, n) /\ Str(difference, n)
  BY <1>2, NumbersAdded
<1>5. RotationOf(v, o, left) /\ Str(left, n)
  BY <1>1, <1>2, LeftBits
<1>6. RotationOf(v, -o, right) /\ Str(right, n)
  BY <1>1, <1>2, RightBits
<1> HIDE DEF sum, difference, left, right
<1>7. /\ value.sum = sum /\ value.difference = difference /\ value.left = left
      /\ value.right = right
  OBVIOUS
<1> HIDE DEF value
<1>8. \A x \in {value.sum, value.difference, value.left, value.right} :
         x \in Seq(Byte) /\ Len(x) = n
  BY <1>4, <1>5, <1>6, <1>7 DEF Str
<1>9. n = Len(v)
  BY DEF n
<1>10. ArithmeticOf(v, w, o, value)
  BY <1>4, <1>5, <1>6, <1>7, <1>8, <1>9, Zenon DEF ArithmeticOf
<1>11. ArithmeticOf(v', w', o', result')
  BY <1>3, <1>10
<1> QED
  BY <1>11 DEF NumbersAgree, v, w, o

(* One call that scrambles a key (gm9i/f_xy.c) ...                         *)
LEMMA ScrambleAgrees ==
  ASSUME call \in ScrambleCalls, Scramble, call' = call
  PROVE  KeysKeepTheirSecret'
<1>1. Str(call.key_x, 16) /\ Str(call.key_y, 16) /\ call.alg = "scramble"
  BY DEF ScrambleCalls, Blocks16, Str
<1>2. result'.key = F_XY(call.key_x, call.key_y)
      /\ result'.modcrypt = Scrambled(call.key_x, call.key_y)
  BY DEF Scramble, Returns
<1>3. /\ F_XY_reverse(F_XY(call.key_x, call.key_y)) = XorAll(call.key_x, call.key_y)
      /\ Scrambled(call.key_x, call.key_y) = F_XY(call.key_x, call.key_y)
  BY <1>1, KeyUnscrambled
<1> QED
  BY <1>1, <1>2, <1>3 DEF KeysKeepTheirSecret, Unscrambled

(* ... and one that derives two consoles' keys (gm9i/crypto.c).            *)
LEMMA DeriveAgrees ==
  ASSUME call \in DeriveCalls, DeriveKeys, call' = call
  PROVE  KeysKeepTheirSecret'
<1>1. /\ call.alg = "derive" /\ call.one \in ConsoleIds /\ call.other \in ConsoleIds
      /\ call.mode \in Modes
  BY DEF DeriveCalls
<1>2. Id(call.one) /\ Id(call.other)
  BY <1>1, ConsolesAre
<1>3. /\ result'.one = generate_key(call.one, call.mode)
      /\ result'.other = generate_key(call.other, call.mode)
  BY DEF DeriveKeys, Returns
<1>4. ASSUME call.mode # "NAND_3DS"
      PROVE  result'.one = result'.other <=> call.one = call.other
  <2>1. call.mode \in {"NAND", "ES"}
    BY <1>1, <1>4 DEF Modes
  <2> QED
    BY <1>2, <1>3, <2>1, KeysTellConsoles
<1> QED
  BY <1>1, <1>4 DEF KeysKeepTheirSecret

(* Strings of bytes are added, taken away and turned as the numbers they   *)
(* stand for, whatever their length; a scrambled key gives back what it    *)
(* was made of, and two consoles have two keys (u128_math.c, gm9i/f_xy.c,  *)
(* gm9i/crypto.c, main.arm7.c).                                            *)
THEOREM NumbersTheorem == Spec => []NumbersAndKeys
<1>1. Init => NumbersAndKeys
  BY DEF Init, NumbersAndKeys, NumbersAgree, KeysKeepTheirSecret, Nothing
<1>2. CallOK /\ NumbersAndKeys /\ [Next]_algVars => NumbersAndKeys'
  <2> SUFFICES ASSUME CallOK, NumbersAndKeys, [Next]_algVars
               PROVE  NumbersAndKeys'
    OBVIOUS
  <2>1. call' = call
    BY Steps
  <2>2. CASE result' = result
    BY <2>1, <2>2 DEF NumbersAndKeys, NumbersAgree, KeysKeepTheirSecret
  <2>3. CASE result' # result
    <3>1. NumbersAgree'
      <4>1. CASE call.alg # "arithmetic"
        BY <2>1, <4>1 DEF NumbersAgree
      <4>2. CASE call.alg = "arithmetic"
        <5>1. Arithmetic
          BY <2>3, <4>2, Steps
        <5>2. call \in ArithmeticCalls /\ Len(call.v) = Len(call.w) /\ call.v # <<>>
          BY <4>2, CallsAssumption DEF CallOK
        <5> QED
          BY <2>1, <5>1, <5>2, ArithmeticAgrees
      <4> QED
        BY <4>1, <4>2
    <3>2. KeysKeepTheirSecret'
      <4>1. CASE call.alg \notin {"scramble", "derive"}
        BY <2>1, <4>1 DEF KeysKeepTheirSecret
      <4>2. CASE call.alg = "scramble"
        <5>1. Scramble
          BY <2>3, <4>2, Steps
        <5>2. call \in ScrambleCalls
          BY <4>2, CallsAssumption DEF CallOK
        <5> QED
          BY <2>1, <5>1, <5>2, ScrambleAgrees
      <4>3. CASE call.alg = "derive"
        <5>1. DeriveKeys
          BY <2>3, <4>3, Steps
        <5>2. call \in DeriveCalls
          BY <4>3, CallsAssumption DEF CallOK
        <5> QED
          BY <2>1, <5>1, <5>2, DeriveAgrees
      <4> QED
        BY <4>1, <4>2, <4>3
    <3> QED
      BY <3>1, <3>2 DEF NumbersAndKeys
  <2> QED
    BY <2>2, <2>3
<1> QED
  BY <1>1, <1>2, CallInvariance, PTL DEF Spec

-----------------------------------------------------------------------------
(* Zero is nothing to an exclusive or, and what is the same is nothing.    *)
LEMMA XorZero ==
  ASSUME NEW b \in Byte
  PROVE  Xor(0, b) = b /\ Xor(b, 0) = b /\ Xor(b, b) = 0
<1>1. \A d \in 0..15 : NibbleXor[0][d] = d
  <2> SUFFICES ASSUME NEW d \in 0..15 PROVE NibbleXor[0][d] = d
    OBVIOUS
  <2>1. NibbleXor[0][d] = Bits(0, d, 1) + (2 * Bits(0, d, 2)) + (4 * Bits(0, d, 4))
                            + (8 * Bits(0, d, 8))
    BY NibbleXorIs
  <2>2. /\ Bits(0, d, 1) = d % 2 /\ Bits(0, d, 2) = (d \div 2) % 2
        /\ Bits(0, d, 4) = (d \div 4) % 2 /\ Bits(0, d, 8) = (d \div 8) % 2
    BY DEF Bits
  <2>3. d = (d % 2) + (2 * ((d \div 2) % 2)) + (4 * ((d \div 4) % 2))
              + (8 * ((d \div 8) % 2))
    BY FourBits
  <2> QED
    BY <2>1, <2>2, <2>3
<1>2. 0 \div 16 = 0 /\ 0 % 16 = 0
  OBVIOUS
<1>3. b \div 16 \in 0..15 /\ b % 16 \in 0..15 /\ b = (16 * (b \div 16)) + (b % 16)
  BY DEF Byte
<1>4. Xor(0, b) = b
  BY <1>1, <1>2, <1>3 DEF Xor
<1>5. 0 \in Byte
  BY DEF Byte
<1>6. Xor(b, 0) = b
  BY <1>4, <1>5, XorCancels
<1>7. Xor(b, b) = 0
  BY <1>4, <1>5, XorCancels
<1> QED
  BY <1>4, <1>6, <1>7

-----------------------------------------------------------------------------
(* Words: four bytes,                                                      *)
LEMMA WordMade ==
  ASSUME NEW a \in Byte, NEW b \in Byte, NEW c \in Byte, NEW d \in Byte
  PROVE  <<a, b, c, d>> \in Word
  BY DEF Word

(* which are bytes,                                                        *)
LEMMA WordIs ==
  ASSUME NEW w \in Word
  PROVE  /\ w = <<w[1], w[2], w[3], w[4]>>
         /\ w[1] \in Byte /\ w[2] \in Byte /\ w[3] \in Byte /\ w[4] \in Byte
  BY DEF Word

(* and whose exclusive or, byte by byte, is a word, the same either way    *)
(* round, and undoes itself.                                               *)
LEMMA WordXorIs ==
  ASSUME NEW v \in Word, NEW w \in Word
  PROVE  /\ WordXor(v, w) \in Word
         /\ WordXor(v, w) = WordXor(w, v)
         /\ WordXor(WordXor(v, w), w) = v
         /\ WordXor(w, WordXor(w, v)) = v
         /\ WordXor(v, v) = <<0, 0, 0, 0>>
<1>1. /\ v = <<v[1], v[2], v[3], v[4]>>
      /\ v[1] \in Byte /\ v[2] \in Byte /\ v[3] \in Byte /\ v[4] \in Byte
  BY WordIs
<1>2. /\ w = <<w[1], w[2], w[3], w[4]>>
      /\ w[1] \in Byte /\ w[2] \in Byte /\ w[3] \in Byte /\ w[4] \in Byte
  BY WordIs
<1>3. WordXor(v, w) \in Word
  BY <1>1, <1>2, XorCancels, WordMade DEF WordXor
<1>4. WordXor(v, w) = WordXor(w, v)
  BY <1>1, <1>2, XorCancels DEF WordXor
<1>5. WordXor(WordXor(v, w), w) = v
  <2> DEFINE x1 == Xor(v[1], w[1])  x2 == Xor(v[2], w[2])
             x3 == Xor(v[3], w[3])  x4 == Xor(v[4], w[4])
  <2>1. WordXor(WordXor(v, w), w) = <<Xor(x1, w[1]), Xor(x2, w[2]), Xor(x3, w[3]), Xor(x4, w[4])>>
    BY DEF WordXor
  <2>2. /\ Xor(x1, w[1]) = v[1] /\ Xor(x2, w[2]) = v[2]
        /\ Xor(x3, w[3]) = v[3] /\ Xor(x4, w[4]) = v[4]
    BY <1>1, <1>2, XorCancels
  <2> QED
    BY <1>1, <2>1, <2>2
<1>6. WordXor(w, WordXor(w, v)) = v
  <2> DEFINE x1 == Xor(w[1], v[1])  x2 == Xor(w[2], v[2])
             x3 == Xor(w[3], v[3])  x4 == Xor(w[4], v[4])
  <2>1. WordXor(w, WordXor(w, v)) = <<Xor(w[1], x1), Xor(w[2], x2), Xor(w[3], x3), Xor(w[4], x4)>>
    BY DEF WordXor
  <2>2. /\ Xor(w[1], x1) = v[1] /\ Xor(w[2], x2) = v[2]
        /\ Xor(w[3], x3) = v[3] /\ Xor(w[4], x4) = v[4]
    BY <1>1, <1>2, XorBack
  <2> QED
    BY <1>1, <2>1, <2>2
<1>7. WordXor(v, v) = <<0, 0, 0, 0>>
  BY <1>1, XorZero DEF WordXor
<1> QED
  BY <1>3, <1>4, <1>5, <1>6, <1>7

(* The order is of no account.                                             *)
LEMMA WordXorAssociates ==
  ASSUME NEW u \in Word, NEW v \in Word, NEW w \in Word
  PROVE  WordXor(WordXor(u, v), w) = WordXor(u, WordXor(v, w))
<1>1. /\ u[1] \in Byte /\ u[2] \in Byte /\ u[3] \in Byte /\ u[4] \in Byte
      /\ v[1] \in Byte /\ v[2] \in Byte /\ v[3] \in Byte /\ v[4] \in Byte
      /\ w[1] \in Byte /\ w[2] \in Byte /\ w[3] \in Byte /\ w[4] \in Byte
  BY WordIs
<1> DEFINE a(n) == Xor(Xor(u[n], v[n]), w[n])
           b(n) == Xor(u[n], Xor(v[n], w[n]))
<1>2. a(1) = b(1) /\ a(2) = b(2) /\ a(3) = b(3) /\ a(4) = b(4)
  <2>1. Xor(Xor(u[1], v[1]), w[1]) = Xor(u[1], Xor(v[1], w[1]))
    BY <1>1, XorAssociates
  <2>2. Xor(Xor(u[2], v[2]), w[2]) = Xor(u[2], Xor(v[2], w[2]))
    BY <1>1, XorAssociates
  <2>3. Xor(Xor(u[3], v[3]), w[3]) = Xor(u[3], Xor(v[3], w[3]))
    BY <1>1, XorAssociates
  <2>4. Xor(Xor(u[4], v[4]), w[4]) = Xor(u[4], Xor(v[4], w[4]))
    BY <1>1, XorAssociates
  <2> QED
    BY <2>1, <2>2, <2>3, <2>4
<1>3. WordXor(WordXor(u, v), w) = <<a(1), a(2), a(3), a(4)>>
  BY DEF WordXor
<1>4. WordXor(u, WordXor(v, w)) = <<b(1), b(2), b(3), b(4)>>
  BY DEF WordXor
<1> QED
  BY <1>2, <1>3, <1>4

(* Two sums of two, taken crosswise.                                       *)
LEMMA Crosswise ==
  ASSUME NEW u \in Word, NEW v \in Word, NEW w \in Word, NEW x \in Word
  PROVE  WordXor(WordXor(u, v), WordXor(w, x)) = WordXor(WordXor(u, w), WordXor(v, x))
<1>1. WordXor(v, WordXor(w, x)) = WordXor(w, WordXor(v, x))
  <2>1. WordXor(v, WordXor(w, x)) = WordXor(WordXor(v, w), x)
    BY WordXorAssociates
  <2>2. WordXor(w, WordXor(v, x)) = WordXor(WordXor(w, v), x)
    BY WordXorAssociates
  <2>3. WordXor(v, w) = WordXor(w, v)
    BY WordXorIs
  <2> QED
    BY <2>1, <2>2, <2>3
<1>2. WordXor(w, x) \in Word /\ WordXor(v, x) \in Word
  BY WordXorIs
<1>3. WordXor(WordXor(u, v), WordXor(w, x)) = WordXor(u, WordXor(v, WordXor(w, x)))
  BY <1>2, WordXorAssociates
<1>4. WordXor(WordXor(u, w), WordXor(v, x)) = WordXor(u, WordXor(w, WordXor(v, x)))
  BY <1>2, WordXorAssociates
<1> QED
  BY <1>1, <1>3, <1>4

(* What Looked adds up.                                                    *)
Sum4(a, b, c, d) == WordXor(WordXor(WordXor(a, b), c), d)

(* It is a word.                                                           *)
LEMMA Sum4Is ==
  ASSUME NEW a \in Word, NEW b \in Word, NEW c \in Word, NEW d \in Word
  PROVE  Sum4(a, b, c, d) \in Word
  BY WordXorIs DEF Sum4

(* The sum of sums is that of the parts.                                   *)
Words4(a, b, c, d) == a \in Word /\ b \in Word /\ c \in Word /\ d \in Word

(* So the sum of four sums is the sum of two sums of four.                 *)
LEMMA SumsOfFour ==
  ASSUME NEW a, NEW b, NEW c, NEW d, NEW e, NEW f, NEW g, NEW h,
         Words4(a, b, c, d), Words4(e, f, g, h)
  PROVE  Sum4(WordXor(a, e), WordXor(b, f), WordXor(c, g), WordXor(d, h))
           = WordXor(Sum4(a, b, c, d), Sum4(e, f, g, h))
<1> DEFINE ab == WordXor(a, b)  ef == WordXor(e, f)
           abc == WordXor(ab, c)  efg == WordXor(ef, g)
<1>0. /\ a \in Word /\ b \in Word /\ c \in Word /\ d \in Word
      /\ e \in Word /\ f \in Word /\ g \in Word /\ h \in Word
  BY DEF Words4
<1>1. ab \in Word /\ ef \in Word
  BY <1>0, WordXorIs
<1>2. WordXor(WordXor(a, e), WordXor(b, f)) = WordXor(ab, ef)
  BY <1>0, Crosswise
<1> HIDE DEF ab, ef
<1>3. abc \in Word /\ efg \in Word
  BY <1>0, <1>1, WordXorIs
<1>4. WordXor(WordXor(ab, ef), WordXor(c, g)) = WordXor(abc, efg)
  BY <1>0, <1>1, Crosswise
<1>5. Sum4(a, b, c, d) = WordXor(abc, d) /\ Sum4(e, f, g, h) = WordXor(efg, h)
  BY DEF Sum4, ab, ef
<1>6. Sum4(WordXor(a, e), WordXor(b, f), WordXor(c, g), WordXor(d, h))
        = WordXor(WordXor(WordXor(ab, ef), WordXor(c, g)), WordXor(d, h))
  BY <1>2 DEF Sum4
<1> HIDE DEF abc, efg
<1>7. WordXor(WordXor(abc, efg), WordXor(d, h)) = WordXor(WordXor(abc, d), WordXor(efg, h))
  BY <1>0, <1>3, Crosswise
<1> QED
  BY <1>4, <1>5, <1>6, <1>7

(* Four entries of four tables (Looked).                                   *)
LEMMA LookedIs ==
  ASSUME NEW T, NEW b,
         At(T[1], b[1]) \in Word, At(T[2], b[2]) \in Word,
         At(T[3], b[3]) \in Word, At(T[4], b[4]) \in Word
  PROVE  /\ Looked(T, b) = Sum4(At(T[1], b[1]), At(T[2], b[2]), At(T[3], b[3]), At(T[4], b[4]))
         /\ Looked(T, b) \in Word
<1> DEFINE t(n) == At(T[n], b[n])
           z == <<0, 0, 0, 0>>
           Sums(f) == f = [n \in 0..4 |-> IF n = 0 THEN z ELSE WordXor(f[n - 1], t(n))]
           sum == CHOOSE f : Sums(f)
           s1 == t(1)
           s2 == WordXor(s1, t(2))
           s3 == WordXor(s2, t(3))
           s4 == WordXor(s3, t(4))
           g == [n \in 0..4 |-> CASE n = 0 -> z [] n = 1 -> s1 [] n = 2 -> s2
                                   [] n = 3 -> s3 [] n = 4 -> s4]
<1>1. WordXor(z, t(1)) = s1
  <2>1. /\ s1 = <<s1[1], s1[2], s1[3], s1[4]>>
        /\ s1[1] \in Byte /\ s1[2] \in Byte /\ s1[3] \in Byte /\ s1[4] \in Byte
    BY WordIs
  <2>2. /\ Xor(0, s1[1]) = s1[1] /\ Xor(0, s1[2]) = s1[2]
        /\ Xor(0, s1[3]) = s1[3] /\ Xor(0, s1[4]) = s1[4]
    BY <2>1, XorZero
  <2>3. WordXor(z, s1) = <<Xor(0, s1[1]), Xor(0, s1[2]), Xor(0, s1[3]), Xor(0, s1[4])>>
    BY DEF WordXor
  <2> HIDE DEF s1
  <2> QED
    BY <2>1, <2>2, <2>3 DEF s1
<1> HIDE DEF t, z
<1>2. Sums(g)
  <2>1. ASSUME NEW n \in 0..4
        PROVE  g[n] = IF n = 0 THEN z ELSE WordXor(g[n - 1], t(n))
    <3>1. CASE n = 0
      BY <3>1
    <3>2. CASE n = 1
      BY <3>2, <1>1
    <3>3. CASE n = 2
      BY <3>3
    <3>4. CASE n = 3
      BY <3>4
    <3>5. CASE n = 4
      BY <3>5
    <3> QED
      BY <3>1, <3>2, <3>3, <3>4, <3>5
  <2> HIDE DEF s1, s2, s3, s4
  <2>2. g = [n \in 0..4 |-> g[n]]
    OBVIOUS
  <2> HIDE DEF g
  <2> QED
    BY <2>1, <2>2
<1>3. Sums(sum)
  <2> HIDE DEF Sums, g
  <2> QED
    BY <1>2
<1>4. Looked(T, b) = sum[4]
  BY DEF Looked, t, z
<1> HIDE DEF sum
<1>5. sum[0] = z
  BY <1>3
<1>6. sum[1] = WordXor(sum[0], t(1))
  BY <1>3
<1>7. sum[2] = WordXor(sum[1], t(2))
  BY <1>3
<1>8. sum[3] = WordXor(sum[2], t(3))
  BY <1>3
<1>9. sum[4] = WordXor(sum[3], t(4))
  BY <1>3
<1>10. Looked(T, b) = Sum4(t(1), t(2), t(3), t(4))
  BY <1>1, <1>4, <1>5, <1>6, <1>7, <1>8, <1>9 DEF Sum4
<1>11. Sum4(t(1), t(2), t(3), t(4)) \in Word
  BY Sum4Is DEF t
<1> QED
  BY <1>10, <1>11 DEF t

-----------------------------------------------------------------------------
(* The box on a word, and the other on what it makes.                      *)
LEMMA SubIs ==
  ASSUME NEW w \in Word
  PROVE  /\ Sub(w) \in Word
         /\ \A n \in 1..4 : Sub(w)[n] = At(aes_gen_tables.FSb, w[n])
<1> DEFINE F == aes_gen_tables.FSb
           e == [i \in 1..4 |-> At(F, w[i])]
<1>1. \A i \in 1..4 : w[i] \in Byte
  <2>1. w[1] \in Byte /\ w[2] \in Byte /\ w[3] \in Byte /\ w[4] \in Byte
    BY WordIs
  <2> QED
    BY <2>1
<1>2. \A i \in 1..4 : At(F, w[i]) \in Byte
  BY <1>1, BoxesAssumption
<1>3. Sub(w) = <<>> \o e
  BY DEF Sub
<1> HIDE DEF F
<1>4. e \in [1..4 -> Byte]
  BY <1>2
<1>5. /\ <<>> \o e \in Seq(Byte) /\ Len(<<>> \o e) = 4
      /\ \A i \in 1..4 : (<<>> \o e)[i] = e[i]
  BY <1>4
<1> DEFINE v == <<>> \o e
<1>6. v[1] \in Byte /\ v[2] \in Byte /\ v[3] \in Byte /\ v[4] \in Byte
  BY <1>4, <1>5
<1>7. v = <<v[1], v[2], v[3], v[4]>>
  BY <1>5
<1>8. \A i \in 1..4 : v[i] = At(F, w[i])
  BY <1>5
<1> HIDE DEF v
<1>9. v \in Word
  BY <1>6, <1>7, WordMade
<1> QED
  BY <1>3, <1>8, <1>9 DEF v, F

(* The columns that the decrypting rounds make of a word, once it has been *)
(* through the box.                                                        *)
Unmixed(w) == Looked(aes_gen_tables.RT, Sub(w))
Reverse(n, x) == At(aes_gen_tables.RT[n], At(aes_gen_tables.FSb, x))

(* An entry of a table of decryption, found through the box, is a word,    *)
LEMMA ReverseIs ==
  ASSUME NEW n \in 1..4, NEW x \in Byte
  PROVE  Reverse(n, x) \in Word
<1>1. At(aes_gen_tables.FSb, x) \in Byte
  BY BoxesAssumption
<1> QED
  BY <1>1, ColumnsAssumption DEF Reverse

(* and the entry of a sum is the sum of the entries (AES_RROUND).          *)
LEMMA ReverseAdds ==
  ASSUME NEW n \in 1..4, NEW x \in Byte, NEW y \in Byte
  PROVE  Reverse(n, Xor(x, y)) = WordXor(Reverse(n, x), Reverse(n, y))
  BY SumsAssumption DEF Reverse

(* They are the sum of four such entries.                                  *)
LEMMA UnmixedIs ==
  ASSUME NEW w \in Word
  PROVE  /\ Unmixed(w) = Sum4(Reverse(1, w[1]), Reverse(2, w[2]),
                            Reverse(3, w[3]), Reverse(4, w[4]))
         /\ Unmixed(w) \in Word
<1> DEFINE RT == aes_gen_tables.RT
           b == Sub(w)
<1>1. w[1] \in Byte /\ w[2] \in Byte /\ w[3] \in Byte /\ w[4] \in Byte
  BY WordIs
<1>2. /\ At(RT[1], b[1]) = Reverse(1, w[1]) /\ At(RT[2], b[2]) = Reverse(2, w[2])
      /\ At(RT[3], b[3]) = Reverse(3, w[3]) /\ At(RT[4], b[4]) = Reverse(4, w[4])
  BY SubIs DEF Reverse
<1>3. /\ Reverse(1, w[1]) \in Word /\ Reverse(2, w[2]) \in Word
      /\ Reverse(3, w[3]) \in Word /\ Reverse(4, w[4]) \in Word
  BY <1>1, ReverseIs
<1>4. Unmixed(w) = Looked(RT, b)
  BY DEF Unmixed
<1> HIDE DEF RT, b
<1>5. /\ At(RT[1], b[1]) \in Word /\ At(RT[2], b[2]) \in Word
      /\ At(RT[3], b[3]) \in Word /\ At(RT[4], b[4]) \in Word
  BY <1>2, <1>3
<1>6. /\ Looked(RT, b) = Sum4(At(RT[1], b[1]), At(RT[2], b[2]),
                              At(RT[3], b[3]), At(RT[4], b[4]))
      /\ Looked(RT, b) \in Word
  BY <1>5, LookedIs
<1> QED
  BY <1>2, <1>4, <1>6

(* It goes through an exclusive or.                                        *)
LEMMA UnmixedAdds ==
  ASSUME NEW v \in Word, NEW w \in Word
  PROVE  Unmixed(WordXor(v, w)) = WordXor(Unmixed(v), Unmixed(w))
<1> DEFINE x == WordXor(v, w)
<1>1. /\ v[1] \in Byte /\ v[2] \in Byte /\ v[3] \in Byte /\ v[4] \in Byte
      /\ w[1] \in Byte /\ w[2] \in Byte /\ w[3] \in Byte /\ w[4] \in Byte
  BY WordIs
<1>2. x \in Word
  BY WordXorIs
<1>3. /\ x[1] = Xor(v[1], w[1]) /\ x[2] = Xor(v[2], w[2])
      /\ x[3] = Xor(v[3], w[3]) /\ x[4] = Xor(v[4], w[4])
  BY DEF WordXor
<1> HIDE DEF x
<1>4. Reverse(1, x[1]) = WordXor(Reverse(1, v[1]), Reverse(1, w[1]))
  BY <1>1, <1>3, ReverseAdds
<1>5. Reverse(2, x[2]) = WordXor(Reverse(2, v[2]), Reverse(2, w[2]))
  BY <1>1, <1>3, ReverseAdds
<1>6. Reverse(3, x[3]) = WordXor(Reverse(3, v[3]), Reverse(3, w[3]))
  BY <1>1, <1>3, ReverseAdds
<1>7. Reverse(4, x[4]) = WordXor(Reverse(4, v[4]), Reverse(4, w[4]))
  BY <1>1, <1>3, ReverseAdds
<1>8. /\ Reverse(1, v[1]) \in Word /\ Reverse(2, v[2]) \in Word
      /\ Reverse(3, v[3]) \in Word /\ Reverse(4, v[4]) \in Word
  BY <1>1, ReverseIs
<1>9. /\ Reverse(1, w[1]) \in Word /\ Reverse(2, w[2]) \in Word
      /\ Reverse(3, w[3]) \in Word /\ Reverse(4, w[4]) \in Word
  BY <1>1, ReverseIs
<1>10. Unmixed(x) = Sum4(Reverse(1, x[1]), Reverse(2, x[2]), Reverse(3, x[3]), Reverse(4, x[4]))
  BY <1>2, UnmixedIs
<1>11. /\ Unmixed(v) = Sum4(Reverse(1, v[1]), Reverse(2, v[2]), Reverse(3, v[3]), Reverse(4, v[4]))
       /\ Unmixed(w) = Sum4(Reverse(1, w[1]), Reverse(2, w[2]), Reverse(3, w[3]), Reverse(4, w[4]))
  BY UnmixedIs
<1>12. Unmixed(x) = WordXor(Unmixed(v), Unmixed(w))
  <2> DEFINE a == Reverse(1, v[1])  b == Reverse(2, v[2])
             c == Reverse(3, v[3])  d == Reverse(4, v[4])
             e == Reverse(1, w[1])  f == Reverse(2, w[2])
             g == Reverse(3, w[3])  h == Reverse(4, w[4])
  <2>1. /\ Reverse(1, x[1]) = WordXor(a, e) /\ Reverse(2, x[2]) = WordXor(b, f)
        /\ Reverse(3, x[3]) = WordXor(c, g) /\ Reverse(4, x[4]) = WordXor(d, h)
    BY <1>4, <1>5, <1>6, <1>7
  <2>2. Unmixed(v) = Sum4(a, b, c, d) /\ Unmixed(w) = Sum4(e, f, g, h)
    BY <1>11
  <2>3. Words4(a, b, c, d)
    BY <1>8 DEF Words4
  <2>4. Words4(e, f, g, h)
    BY <1>9 DEF Words4
  <2> HIDE DEF a, b, c, d, e, f, g, h
  <2>5. Unmixed(x) = Sum4(WordXor(a, e), WordXor(b, f), WordXor(c, g), WordXor(d, h))
    BY <1>10, <2>1
  <2>6. Sum4(WordXor(a, e), WordXor(b, f), WordXor(c, g), WordXor(d, h))
          = WordXor(Sum4(a, b, c, d), Sum4(e, f, g, h))
    BY <2>3, <2>4, SumsOfFour
  <2> QED
    BY <2>2, <2>5, <2>6
<1> QED
  BY <1>12 DEF x

(* The columns that the encrypting rounds make of a word; what undoes them *)
(* leaves the word as the box has it.                                      *)
Columns(w) == Looked(aes_gen_tables.FT, w)

(* So they are undone (aes_gen_tables: RT0 to RT3 against FT0 to FT3).     *)
LEMMA ColumnsAre ==
  ASSUME NEW w \in Word
  PROVE  Columns(w) \in Word /\ Unmixed(Columns(w)) = Sub(w)
<1> DEFINE FT == aes_gen_tables.FT
           F(x) == At(aes_gen_tables.FSb, x)
           t1 == At(FT[1], w[1])  t2 == At(FT[2], w[2])
           t3 == At(FT[3], w[3])  t4 == At(FT[4], w[4])
<1>1. w[1] \in Byte /\ w[2] \in Byte /\ w[3] \in Byte /\ w[4] \in Byte
  BY WordIs
<1>2. t1 \in Word /\ t2 \in Word /\ t3 \in Word /\ t4 \in Word
  BY <1>1, ColumnsAssumption
<1>3. /\ Unmixed(t1) = Alone(1, F(w[1])) /\ Unmixed(t2) = Alone(2, F(w[2]))
      /\ Unmixed(t3) = Alone(3, F(w[3])) /\ Unmixed(t4) = Alone(4, F(w[4]))
  BY <1>1, ColumnsAssumption DEF Unmixed
<1>4. Columns(w) = Sum4(t1, t2, t3, t4) /\ Columns(w) \in Word
  BY <1>2, LookedIs DEF Columns
<1>5. F(w[1]) \in Byte /\ F(w[2]) \in Byte /\ F(w[3]) \in Byte /\ F(w[4]) \in Byte
  BY <1>1, BoxesAssumption
<1>6. Sub(w) = <<F(w[1]), F(w[2]), F(w[3]), F(w[4])>>
  <2>1. Sub(w) = <<Sub(w)[1], Sub(w)[2], Sub(w)[3], Sub(w)[4]>>
    BY SubIs, WordIs
  <2>2. /\ Sub(w)[1] = F(w[1]) /\ Sub(w)[2] = F(w[2])
        /\ Sub(w)[3] = F(w[3]) /\ Sub(w)[4] = F(w[4])
    BY SubIs
  <2> QED
    BY <2>1, <2>2
<1> DEFINE a == F(w[1])  b == F(w[2])  c == F(w[3])  d == F(w[4])
<1> HIDE DEF FT, t1, t2, t3, t4, F
<1>7. Unmixed(Sum4(t1, t2, t3, t4)) = Sum4(Unmixed(t1), Unmixed(t2), Unmixed(t3), Unmixed(t4))
  <2> DEFINE s2 == WordXor(t1, t2)
             s3 == WordXor(s2, t3)
  <2>1. s2 \in Word /\ Unmixed(s2) = WordXor(Unmixed(t1), Unmixed(t2))
    BY <1>2, WordXorIs, UnmixedAdds
  <2> HIDE DEF s2
  <2>2. s3 \in Word /\ Unmixed(s3) = WordXor(Unmixed(s2), Unmixed(t3))
    BY <1>2, <2>1, WordXorIs, UnmixedAdds
  <2> HIDE DEF s3
  <2>3. Unmixed(WordXor(s3, t4)) = WordXor(Unmixed(s3), Unmixed(t4))
    BY <1>2, <2>2, UnmixedAdds
  <2>4. Sum4(t1, t2, t3, t4) = WordXor(s3, t4)
    BY DEF Sum4, s3, s2
  <2> QED
    BY <2>1, <2>2, <2>3, <2>4 DEF Sum4
<1>8. /\ Alone(1, a) = <<a, 0, 0, 0>> /\ Alone(2, b) = <<0, b, 0, 0>>
      /\ Alone(3, c) = <<0, 0, c, 0>> /\ Alone(4, d) = <<0, 0, 0, d>>
  <2> HIDE DEF a, b, c, d
  <2>1. ASSUME NEW n \in 1..4, NEW x
        PROVE  Alone(n, x) = <<IF n = 1 THEN x ELSE 0, IF n = 2 THEN x ELSE 0,
                               IF n = 3 THEN x ELSE 0, IF n = 4 THEN x ELSE 0>>
    BY DEF Alone
  <2> QED
    BY <2>1
<1>9. Sum4(<<a, 0, 0, 0>>, <<0, b, 0, 0>>, <<0, 0, c, 0>>, <<0, 0, 0, d>>) = <<a, b, c, d>>
  <2> HIDE DEF a, b, c, d
  <2>1. a \in Byte /\ b \in Byte /\ c \in Byte /\ d \in Byte /\ 0 \in Byte
    BY <1>5 DEF a, b, c, d, Byte
  <2>2. Xor(0, 0) = 0 /\ Xor(a, 0) = a /\ Xor(0, b) = b /\ Xor(b, 0) = b
    BY <2>1, XorZero
  <2>3. Xor(c, 0) = c /\ Xor(0, c) = c /\ Xor(0, d) = d /\ Xor(d, 0) = d
    BY <2>1, XorZero
  <2>4. WordXor(<<a, 0, 0, 0>>, <<0, b, 0, 0>>) = <<a, b, 0, 0>>
    BY <2>2 DEF WordXor
  <2>5. WordXor(<<a, b, 0, 0>>, <<0, 0, c, 0>>) = <<a, b, c, 0>>
    BY <2>2, <2>3 DEF WordXor
  <2>6. WordXor(<<a, b, c, 0>>, <<0, 0, 0, d>>) = <<a, b, c, d>>
    BY <2>2, <2>3 DEF WordXor
  <2> QED
    BY <2>4, <2>5, <2>6 DEF Sum4
<1>10. /\ Unmixed(t1) = <<a, 0, 0, 0>> /\ Unmixed(t2) = <<0, b, 0, 0>>
       /\ Unmixed(t3) = <<0, 0, c, 0>> /\ Unmixed(t4) = <<0, 0, 0, d>>
  BY <1>3, <1>8
<1>11. Sub(w) = <<a, b, c, d>>
  BY <1>6
<1> QED
  BY <1>4, <1>7, <1>9, <1>10, <1>11

-----------------------------------------------------------------------------
(* Blocks: four words.                                                     *)
Square == Word \X Word \X Word \X Word

(* Four words make one,                                                    *)
LEMMA SquareMade ==
  ASSUME NEW a \in Word, NEW b \in Word, NEW c \in Word, NEW d \in Word
  PROVE  <<a, b, c, d>> \in Square
  BY DEF Square

(* which has them, and their bytes.                                        *)
LEMMA SquareIs ==
  ASSUME NEW y \in Square
  PROVE  /\ y = <<y[1], y[2], y[3], y[4]>>
         /\ \A i \in 1..4 : y[i] \in Word
         /\ \A i, n \in 1..4 : y[i][n] \in Byte
<1>1. /\ y = <<y[1], y[2], y[3], y[4]>>
      /\ y[1] \in Word /\ y[2] \in Word /\ y[3] \in Word /\ y[4] \in Word
  BY DEF Square
<1>2. \A i \in 1..4 : y[i] \in Word
  BY <1>1
<1>3. ASSUME NEW i \in 1..4, NEW n \in 1..4
      PROVE  y[i][n] \in Byte
  <2>1. y[i] \in Word
    BY <1>2
  <2>2. y[i][1] \in Byte /\ y[i][2] \in Byte /\ y[i][3] \in Byte /\ y[i][4] \in Byte
    BY <2>1, WordIs
  <2> QED
    BY <2>2
<1> QED
  BY <1>1, <1>2, <1>3

(* What is made word by word is a block,                                   *)
LEMMA SquareOf ==
  ASSUME NEW e, \A i \in 1..4 : e[i] \in Word, e = [i \in 1..4 |-> e[i]]
  PROVE  /\ <<>> \o e \in Square
         /\ \A i \in 1..4 : (<<>> \o e)[i] = e[i]
<1>1. e \in [1..4 -> Word]
  OBVIOUS
<1>2. /\ <<>> \o e \in Seq(Word) /\ Len(<<>> \o e) = 4
      /\ \A i \in 1..4 : (<<>> \o e)[i] = e[i]
  BY <1>1
<1> DEFINE v == <<>> \o e
<1>3. v[1] \in Word /\ v[2] \in Word /\ v[3] \in Word /\ v[4] \in Word
  BY <1>2
<1>4. v = <<v[1], v[2], v[3], v[4]>>
  BY <1>2
<1> HIDE DEF v
<1>5. v \in Square
  BY <1>3, <1>4, SquareMade
<1> QED
  BY <1>2, <1>5 DEF v

(* and a word byte by byte.                                                *)
LEMMA WordOf ==
  ASSUME NEW e, \A i \in 1..4 : e[i] \in Byte, e = [i \in 1..4 |-> e[i]]
  PROVE  /\ <<>> \o e \in Word
         /\ \A i \in 1..4 : (<<>> \o e)[i] = e[i]
<1>1. e \in [1..4 -> Byte]
  OBVIOUS
<1>2. /\ <<>> \o e \in Seq(Byte) /\ Len(<<>> \o e) = 4
      /\ \A i \in 1..4 : (<<>> \o e)[i] = e[i]
  BY <1>1
<1> DEFINE v == <<>> \o e
<1>3. v[1] \in Byte /\ v[2] \in Byte /\ v[3] \in Byte /\ v[4] \in Byte
  BY <1>2
<1>4. v = <<v[1], v[2], v[3], v[4]>>
  BY <1>2
<1> HIDE DEF v
<1>5. v \in Word
  BY <1>3, <1>4, WordMade
<1> QED
  BY <1>2, <1>5 DEF v

(* Blocks with the same bytes are the same.                                *)
LEMMA SameWord ==
  ASSUME NEW v \in Word, NEW w \in Word, \A n \in 1..4 : v[n] = w[n]
  PROVE  v = w
<1>1. v = <<v[1], v[2], v[3], v[4]>> /\ w = <<w[1], w[2], w[3], w[4]>>
  BY WordIs
<1>2. v[1] = w[1] /\ v[2] = w[2] /\ v[3] = w[3] /\ v[4] = w[4]
  OBVIOUS
<1> QED
  BY <1>1, <1>2

(* word by word,                                                           *)
LEMMA SameSquare ==
  ASSUME NEW y \in Square, NEW z \in Square, \A i \in 1..4 : y[i] = z[i]
  PROVE  y = z
<1>1. y = <<y[1], y[2], y[3], y[4]>> /\ z = <<z[1], z[2], z[3], z[4]>>
  BY SquareIs
<1>2. y[1] = z[1] /\ y[2] = z[2] /\ y[3] = z[3] /\ y[4] = z[4]
  OBVIOUS
<1> QED
  BY <1>1, <1>2

(* or byte by byte.                                                        *)
LEMMA SameBytes ==
  ASSUME NEW y \in Square, NEW z \in Square, \A i, n \in 1..4 : y[i][n] = z[i][n]
  PROVE  y = z
<1>1. ASSUME NEW i \in 1..4
      PROVE  y[i] = z[i]
  <2>1. y[i] \in Word /\ z[i] \in Word
    BY SquareIs
  <2>2. \A n \in 1..4 : y[i][n] = z[i][n]
    OBVIOUS
  <2> QED
    BY <2>1, <2>2, SameWord
<1> QED
  BY <1>1, SameSquare

(* The bytes of a round, and the place each comes from.                    *)
Place(i, n, step) == ((i - 1 + (step * (n - 1))) % 4) + 1

(* A byte that was moved along its row by encryption is moved back by      *)
(* decryption.                                                             *)
LEMMA PlacesBack ==
  ASSUME NEW i \in 1..4, NEW n \in 1..4
  PROVE  /\ Place(i, n, 1) \in 1..4 /\ Place(i, n, 3) \in 1..4
         /\ Place(Place(i, n, 3), n, 1) = i
<1>1. n = 1 \/ n = 2 \/ n = 3 \/ n = 4
  OBVIOUS
<1>2. i = 1 \/ i = 2 \/ i = 3 \/ i = 4
  OBVIOUS
<1> QED
  BY <1>1, <1>2 DEF Place

(* The bytes that go into the words of a round come from those places      *)
(* (AES_FROUND, AES_RROUND).                                               *)
LEMMA GatheredIs ==
  ASSUME NEW y \in Square, NEW step \in {1, 3}
  PROVE  /\ Gathered(y, step) \in Square
         /\ \A i, n \in 1..4 : Gathered(y, step)[i][n] = y[Place(i, n, step)][n]
<1> DEFINE row(i) == [n \in 1..4 |-> Taken(y, i, n, step)]
           e == [i \in 1..4 |-> <<>> \o row(i)]
<1>1. ASSUME NEW i \in 1..4
      PROVE  /\ <<>> \o row(i) \in Word
             /\ \A n \in 1..4 : (<<>> \o row(i))[n] = y[Place(i, n, step)][n]
  <2>1. ASSUME NEW n \in 1..4
        PROVE  row(i)[n] = y[Place(i, n, step)][n] /\ row(i)[n] \in Byte
    <3>1. row(i)[n] = y[Place(i, n, step)][n]
      BY DEF Taken, Place
    <3>2. Place(i, n, step) \in 1..4
      BY PlacesBack
    <3> QED
      BY <3>1, <3>2, SquareIs
  <2> DEFINE r == row(i)
  <2>2. r = [n \in 1..4 |-> r[n]]
    OBVIOUS
  <2>3. \A n \in 1..4 : r[n] \in Byte /\ r[n] = y[Place(i, n, step)][n]
    BY <2>1
  <2> HIDE DEF r
  <2>4. <<>> \o r \in Word /\ \A n \in 1..4 : (<<>> \o r)[n] = r[n]
    BY <2>2, <2>3, WordOf
  <2> QED
    BY <2>3, <2>4 DEF r
<1>2. Gathered(y, step) = <<>> \o e
  BY DEF Gathered
<1> HIDE DEF row
<1>3. \A i \in 1..4 : e[i] = <<>> \o row(i)
  OBVIOUS
<1>4. e = [i \in 1..4 |-> e[i]]
  OBVIOUS
<1> HIDE DEF e
<1>5. \A i \in 1..4 : e[i] \in Word
  BY <1>1, <1>3
<1>6. <<>> \o e \in Square /\ \A i \in 1..4 : (<<>> \o e)[i] = e[i]
  BY <1>4, <1>5, SquareOf
<1> QED
  BY <1>1, <1>2, <1>3, <1>6

(* A block with each byte through the box, after its rows were moved: what *)
(* a round makes its words from, and the last of them leaves.              *)
Boxed(y) == <<Sub(y[1]), Sub(y[2]), Sub(y[3]), Sub(y[4])>>
Stage(y) == Boxed(Gathered(y, 1))

(* It is a block.                                                          *)
LEMMA BoxedIs ==
  ASSUME NEW y \in Square
  PROVE  /\ Boxed(y) \in Square
         /\ \A i \in 1..4 : Boxed(y)[i] = Sub(y[i])
         /\ \A i, n \in 1..4 : Boxed(y)[i][n] = At(aes_gen_tables.FSb, y[i][n])
<1>1. \A i \in 1..4 : Boxed(y)[i] = Sub(y[i])
  BY DEF Boxed
<1>2. \A i \in 1..4 : y[i] \in Word
  BY SquareIs
<1>3. Sub(y[1]) \in Word /\ Sub(y[2]) \in Word /\ Sub(y[3]) \in Word /\ Sub(y[4]) \in Word
  BY <1>2, SubIs
<1>4. Boxed(y) \in Square
  BY <1>3, SquareMade DEF Boxed
<1>5. ASSUME NEW i \in 1..4, NEW n \in 1..4
      PROVE  Boxed(y)[i][n] = At(aes_gen_tables.FSb, y[i][n])
  BY <1>1, <1>2, SubIs
<1> QED
  BY <1>1, <1>4, <1>5

(* The decrypting rounds move the rows back.                               *)
LEMMA StageMovedBack ==
  ASSUME NEW y \in Square
  PROVE  Stage(y) \in Square /\ Gathered(Stage(y), 3) = Boxed(y)
<1> DEFINE g == Gathered(y, 1)
           t == Boxed(g)
           F(x) == At(aes_gen_tables.FSb, x)
<1>1. g \in Square /\ \A i, n \in 1..4 : g[i][n] = y[Place(i, n, 1)][n]
  BY GatheredIs
<1> HIDE DEF g
<1>2. t \in Square /\ \A i, n \in 1..4 : t[i][n] = F(g[i][n])
  BY <1>1, BoxedIs
<1> HIDE DEF t
<1> DEFINE h == Gathered(t, 3)
<1>3. h \in Square /\ \A i, n \in 1..4 : h[i][n] = t[Place(i, n, 3)][n]
  BY <1>2, GatheredIs
<1> HIDE DEF h
<1>4. Boxed(y) \in Square /\ \A i, n \in 1..4 : Boxed(y)[i][n] = F(y[i][n])
  BY BoxedIs
<1> HIDE DEF F
<1>5. ASSUME NEW i \in 1..4, NEW n \in 1..4
      PROVE  h[i][n] = Boxed(y)[i][n]
  <2> DEFINE p == Place(i, n, 3)
  <2>1. p \in 1..4 /\ Place(p, n, 1) = i
    BY PlacesBack
  <2>2. h[i][n] = t[p][n]
    BY <1>3
  <2> HIDE DEF p
  <2>3. t[p][n] = F(g[p][n])
    BY <1>2, <2>1
  <2>4. g[p][n] = y[i][n]
    BY <1>1, <2>1
  <2> QED
    BY <1>4, <2>2, <2>3, <2>4
<1>6. h = Boxed(y)
  BY <1>3, <1>4, <1>5, SameBytes
<1>7. Stage(y) = t
  BY DEF Stage, t, g
<1> QED
  BY <1>2, <1>6, <1>7 DEF h

-----------------------------------------------------------------------------
(* The key of a round: four words of a schedule.                           *)
Schedule(SK, n) == SK \in Seq(Word) /\ n \in Nat /\ Len(SK) >= (4 * n) + 4
KeyAt(SK, r) == <<SK[(4 * r) + 1], SK[(4 * r) + 2], SK[(4 * r) + 3], SK[(4 * r) + 4]>>

(* It is a block, and what RK points to in the round (aes_crypt_ecb).      *)
LEMMA KeyAtIs ==
  ASSUME NEW SK, NEW n, Schedule(SK, n), NEW r \in 0..n
  PROVE  /\ KeyAt(SK, r) \in Square
         /\ SubSeq(SK, (4 * r) + 1, (4 * r) + 4) = KeyAt(SK, r)
<1>1. SK \in Seq(Word) /\ n \in Nat /\ Len(SK) >= (4 * n) + 4
  BY DEF Schedule
<1>2. \A i \in 1..Len(SK) : SK[i] \in Word
  BY <1>1
<1> DEFINE at == 4 * r
<1>3. at \in Nat /\ at + 4 <= Len(SK) /\ Len(SK) \in Nat
  BY <1>1
<1> HIDE DEF at
<1>4. at + 1 \in 1..Len(SK) /\ at + 2 \in 1..Len(SK) /\ at + 3 \in 1..Len(SK) /\ at + 4 \in 1..Len(SK)
  BY <1>3
<1>5. SK[at + 1] \in Word /\ SK[at + 2] \in Word /\ SK[at + 3] \in Word /\ SK[at + 4] \in Word
  BY <1>2, <1>4
<1>6. KeyAt(SK, r) = <<SK[at + 1], SK[at + 2], SK[at + 3], SK[at + 4]>>
  BY DEF KeyAt, at
<1>7. KeyAt(SK, r) \in Square
  BY <1>5, <1>6, SquareMade
<1> DEFINE s == SubSeq(SK, at + 1, at + 4)
<1>8. s \in Seq(Word) /\ Len(s) = 4 /\ \A i \in 1..4 : s[i] = SK[at + i]
  <2>1. \A i \in (at + 1)..(at + 4) : SK[i] \in Word
    BY <1>2, <1>3
  <2>2. at + 1 \in Int /\ at + 4 \in Int /\ at + 1 <= at + 4
        /\ (at + 4) - (at + 1) + 1 = 4
    BY <1>3
  <2> DEFINE m == at + 1
             q == at + 4
  <2>3. /\ SubSeq(SK, m, q) \in Seq(Word)
        /\ Len(SubSeq(SK, m, q)) = IF m <= q THEN q - m + 1 ELSE 0
        /\ \A i \in 1..(q - m + 1) : SubSeq(SK, m, q)[i] = SK[m + i - 1]
    <3>1. m \in Int /\ q \in Int /\ \A i \in m..q : SK[i] \in Word
      BY <2>1, <2>2
    <3> HIDE DEF m, q
    <3> QED
      BY <3>1, SubSeqProperties
  <2>4. s \in Seq(Word) /\ Len(s) = 4 /\ \A i \in 1..4 : s[i] = SK[at + 1 + i - 1]
    BY <2>2, <2>3
  <2>5. \A i \in 1..4 : at + 1 + i - 1 = at + i
    BY <1>3
  <2> QED
    BY <2>4, <2>5
<1>9. s = <<SK[at + 1], SK[at + 2], SK[at + 3], SK[at + 4]>>
  <2> HIDE DEF s
  <2>1. s[1] = SK[at + 1] /\ s[2] = SK[at + 2] /\ s[3] = SK[at + 3] /\ s[4] = SK[at + 4]
    BY <1>8
  <2> QED
    BY <1>8, <2>1
<1> QED
  BY <1>6, <1>7, <1>9 DEF at

(* AddKey, and adding the same key again.                                  *)
LEMMA AddKeyIs ==
  ASSUME NEW key \in Square, NEW y \in Square
  PROVE  /\ AddKey(key, y) \in Square
         /\ \A i \in 1..4 : AddKey(key, y)[i] = WordXor(key[i], y[i])
         /\ AddKey(key, AddKey(key, y)) = y
<1> DEFINE Added(z) == [i \in 1..4 |-> WordXor(key[i], z[i])]
<1>1. \A i \in 1..4 : key[i] \in Word
  BY SquareIs
<1>2. ASSUME NEW z \in Square
      PROVE  /\ AddKey(key, z) \in Square
             /\ \A i \in 1..4 : AddKey(key, z)[i] = WordXor(key[i], z[i])
  <2> DEFINE e == Added(z)
  <2>1. e = [i \in 1..4 |-> e[i]] /\ \A i \in 1..4 : e[i] = WordXor(key[i], z[i])
    OBVIOUS
  <2>2. AddKey(key, z) = <<>> \o e
    BY DEF AddKey
  <2> HIDE DEF e
  <2>3. \A i \in 1..4 : e[i] \in Word
    <3> SUFFICES ASSUME NEW i \in 1..4 PROVE e[i] \in Word
      OBVIOUS
    <3>1. key[i] \in Word /\ z[i] \in Word
      BY SquareIs
    <3> QED
      BY <2>1, <3>1, WordXorIs
  <2>4. <<>> \o e \in Square /\ \A i \in 1..4 : (<<>> \o e)[i] = e[i]
    BY <2>1, <2>3, SquareOf
  <2> QED
    BY <2>1, <2>2, <2>4
<1> DEFINE z == AddKey(key, y)
           t == AddKey(key, z)
<1>3. z \in Square /\ \A i \in 1..4 : z[i] = WordXor(key[i], y[i])
  BY <1>2
<1> HIDE DEF z
<1>4. t \in Square /\ \A i \in 1..4 : t[i] = WordXor(key[i], z[i])
  BY <1>2, <1>3
<1> HIDE DEF t
<1>5. ASSUME NEW i \in 1..4
      PROVE  t[i] = y[i]
  <2>1. key[i] \in Word /\ y[i] \in Word
    BY SquareIs
  <2>2. t[i] = WordXor(key[i], WordXor(key[i], y[i]))
    BY <1>3, <1>4
  <2> QED
    BY <2>1, <2>2, WordXorIs
<1>6. t = y
  BY <1>4, <1>5, SameSquare
<1> QED
  BY <1>3, <1>6 DEF t, z

(* A round and the last, word by word.                                     *)
LEMMA RoundIs ==
  ASSUME NEW key \in Square, NEW y \in Square
  PROVE  /\ Round(key, y, aes_gen_tables.FT, 1) \in Square
         /\ \A i \in 1..4 : Round(key, y, aes_gen_tables.FT, 1)[i]
                              = WordXor(key[i], Columns(Gathered(y, 1)[i]))
<1> DEFINE g == Gathered(y, 1)
           e == [i \in 1..4 |-> WordXor(key[i], Columns(g[i]))]
<1>1. g \in Square
  BY GatheredIs
<1>2. Round(key, y, aes_gen_tables.FT, 1) = <<>> \o e
  BY DEF Round, Columns
<1> HIDE DEF g
<1>3. e = [i \in 1..4 |-> e[i]] /\ \A i \in 1..4 : e[i] = WordXor(key[i], Columns(g[i]))
  OBVIOUS
<1> HIDE DEF e
<1>4. ASSUME NEW i \in 1..4
      PROVE  e[i] \in Word
  <2>1. key[i] \in Word /\ g[i] \in Word
    BY <1>1, SquareIs
  <2>2. Columns(g[i]) \in Word
    BY <2>1, ColumnsAre
  <2> QED
    BY <1>3, <2>1, <2>2, WordXorIs
<1>5. <<>> \o e \in Square /\ \A i \in 1..4 : (<<>> \o e)[i] = e[i]
  BY <1>3, <1>4, SquareOf
<1> QED
  BY <1>2, <1>3, <1>5 DEF g

(* The last adds its key to the stage.                                     *)
LEMMA LastRoundIs ==
  ASSUME NEW key \in Square, NEW y \in Square
  PROVE  LastRound(key, y, aes_gen_tables.FSb, 1) = AddKey(key, Stage(y))
<1> DEFINE g == Gathered(y, 1)
           F == aes_gen_tables.FSb
           a == [i \in 1..4 |-> WordXor(key[i], <<>> \o [n \in 1..4 |-> At(F, g[i][n])])]
           b == [i \in 1..4 |-> WordXor(key[i], Boxed(g)[i])]
<1>1. g \in Square
  BY GatheredIs
<1>2. LastRound(key, y, F, 1) = <<>> \o a
  BY DEF LastRound
<1>3. AddKey(key, Stage(y)) = <<>> \o b
  BY DEF AddKey, Stage
<1>4. ASSUME NEW i \in 1..4
      PROVE  <<>> \o [n \in 1..4 |-> At(F, g[i][n])] = Boxed(g)[i]
  <2>1. Boxed(g)[i] = Sub(g[i])
    BY <1>1, BoxedIs
  <2> QED
    BY <2>1 DEF Sub
<1>5. a = b
  <2> HIDE DEF F, g
  <2> QED
    BY <1>4
<1> QED
  BY <1>2, <1>3, <1>5

-----------------------------------------------------------------------------
(* What a decrypting round undoes: the key that was added to the last      *)
(* stage; a whole round, under the key through its columns; and the first  *)
(* addition of a key.                                                      *)
LEMMA RoundUndone ==
  ASSUME NEW key \in Square, NEW y \in Square, NEW mixed,
         mixed \in Square, \A i \in 1..4 : mixed[i] = Unmixed(key[i])
  PROVE  Round(mixed, Stage(Round(key, y, aes_gen_tables.FT, 1)), aes_gen_tables.RT, 3)
           = Stage(y)
<1> DEFINE g == Gathered(y, 1)
           z == Round(key, y, aes_gen_tables.FT, 1)
           t == Stage(z)
           RT == aes_gen_tables.RT
           e == [i \in 1..4 |-> WordXor(mixed[i], Looked(RT, Gathered(t, 3)[i]))]
<1>1. g \in Square
  BY GatheredIs
<1>2. z \in Square /\ \A i \in 1..4 : z[i] = WordXor(key[i], Columns(g[i]))
  BY RoundIs
<1> HIDE DEF z
<1>3. Gathered(t, 3) = Boxed(z)
  BY <1>2, StageMovedBack
<1>4. Round(mixed, t, RT, 3) = <<>> \o e
  BY DEF Round
<1> HIDE DEF g, t
<1>5. ASSUME NEW i \in 1..4
      PROVE  WordXor(mixed[i], Looked(RT, Gathered(t, 3)[i])) = Sub(g[i])
  <2>1. Gathered(t, 3)[i] = Sub(z[i])
    BY <1>2, <1>3, BoxedIs
  <2>2. Looked(RT, Gathered(t, 3)[i]) = Unmixed(z[i])
    BY <2>1 DEF Unmixed
  <2>3. key[i] \in Word /\ g[i] \in Word
    BY <1>1, SquareIs
  <2>4. Columns(g[i]) \in Word /\ Unmixed(Columns(g[i])) = Sub(g[i])
    BY <2>3, ColumnsAre
  <2>5. Unmixed(z[i]) = WordXor(Unmixed(key[i]), Unmixed(Columns(g[i])))
    BY <1>2, <2>3, <2>4, UnmixedAdds
  <2>6. Unmixed(key[i]) \in Word /\ Sub(g[i]) \in Word
    BY <2>3, UnmixedIs, SubIs
  <2> DEFINE m == Unmixed(key[i])
             x == Sub(g[i])
  <2>7. WordXor(mixed[i], Looked(RT, Gathered(t, 3)[i])) = WordXor(m, WordXor(m, x))
    BY <2>2, <2>4, <2>5
  <2>8. m \in Word /\ x \in Word
    BY <2>6
  <2> HIDE DEF m, x
  <2>9. WordXor(m, WordXor(m, x)) = x
    BY <2>8, WordXorIs
  <2> QED
    BY <2>7, <2>9 DEF x
<1>6. e = [i \in 1..4 |-> Sub(g[i])]
  <2> HIDE DEF RT
  <2> QED
    BY <1>5
<1>7. e = [i \in 1..4 |-> e[i]] /\ \A i \in 1..4 : e[i] = Sub(g[i])
  BY <1>6
<1> HIDE DEF e
<1>8. \A i \in 1..4 : e[i] \in Word
  BY <1>1, <1>7, SquareIs, SubIs
<1>9. <<>> \o e \in Square /\ \A i \in 1..4 : (<<>> \o e)[i] = e[i]
  BY <1>7, <1>8, SquareOf
<1>10. Boxed(g) \in Square /\ \A i \in 1..4 : Boxed(g)[i] = Sub(g[i])
  BY <1>1, BoxedIs
<1>11. <<>> \o e = Boxed(g)
  <2> DEFINE v == <<>> \o e
  <2>1. v \in Square /\ \A i \in 1..4 : v[i] = Boxed(g)[i]
    BY <1>7, <1>9, <1>10
  <2> HIDE DEF v
  <2>2. v = Boxed(g)
    BY <1>10, <2>1, SameSquare
  <2> QED
    BY <2>2 DEF v
<1> QED
  BY <1>4, <1>11 DEF Stage, g, t, z

(* The last round of decryption undoes the first key.                      *)
LEMMA FirstUndone ==
  ASSUME NEW key \in Square, NEW y \in Square
  PROVE  LastRound(key, Stage(AddKey(key, y)), aes_gen_tables.RSb, 3) = y
<1> DEFINE z == AddKey(key, y)
           t == Stage(z)
           R == aes_gen_tables.RSb
           a == [i \in 1..4 |-> WordXor(key[i], <<>> \o [n \in 1..4 |-> At(R, Gathered(t, 3)[i][n])])]
           b == [i \in 1..4 |-> WordXor(key[i], z[i])]
<1>1. z \in Square
  BY AddKeyIs
<1>2. LastRound(key, t, R, 3) = <<>> \o a
  BY DEF LastRound
<1>3. AddKey(key, z) = <<>> \o b
  BY DEF AddKey
<1>4. AddKey(key, z) = y
  BY AddKeyIs
<1> HIDE DEF z
<1>5. Gathered(t, 3) = Boxed(z)
  BY <1>1, StageMovedBack
<1> HIDE DEF t
<1>6. ASSUME NEW i \in 1..4
      PROVE  <<>> \o [n \in 1..4 |-> At(R, Gathered(t, 3)[i][n])] = z[i]
  <2> DEFINE e == [n \in 1..4 |-> At(R, Gathered(t, 3)[i][n])]
  <2>1. ASSUME NEW n \in 1..4
        PROVE  At(R, Gathered(t, 3)[i][n]) = z[i][n]
    <3>1. z[i][n] \in Byte
      BY <1>1, SquareIs
    <3>2. Gathered(t, 3)[i][n] = At(aes_gen_tables.FSb, z[i][n])
      BY <1>1, <1>5, BoxedIs
    <3> QED
      BY <3>1, <3>2, BoxesAssumption
  <2>2. e = [n \in 1..4 |-> e[n]] /\ \A n \in 1..4 : e[n] = z[i][n]
    <3> HIDE DEF R
    <3> QED
      BY <2>1
  <2> HIDE DEF e
  <2>3. z[i] \in Word /\ \A n \in 1..4 : z[i][n] \in Byte
    BY <1>1, SquareIs
  <2>4. <<>> \o e \in Word /\ \A n \in 1..4 : (<<>> \o e)[n] = e[n]
    BY <2>2, <2>3, WordOf
  <2> DEFINE v == <<>> \o e
             w == z[i]
  <2>5. v \in Word /\ w \in Word /\ \A n \in 1..4 : v[n] = w[n]
    BY <2>2, <2>3, <2>4
  <2> HIDE DEF v, w
  <2>6. v = w
    BY <2>5, SameWord
  <2> QED
    BY <2>6 DEF v, w, e
<1>7. a = b
  <2> HIDE DEF R
  <2> QED
    BY <1>6
<1> QED
  BY <1>2, <1>3, <1>4, <1>7 DEF t, z

-----------------------------------------------------------------------------
(* The schedule of decryption is that of encryption from its end, its      *)
(* inner keys through the columns (aes_setkey_dec).                        *)
UnmixedKey(key) == <<Unmixed(key[1]), Unmixed(key[2]), Unmixed(key[3]), Unmixed(key[4])>>

(* It is a block of words that went through.                               *)
LEMMA UnmixedKeyIs ==
  ASSUME NEW key \in Square
  PROVE  /\ UnmixedKey(key) \in Square
         /\ \A i \in 1..4 : UnmixedKey(key)[i] = Unmixed(key[i])
<1>1. key[1] \in Word /\ key[2] \in Word /\ key[3] \in Word /\ key[4] \in Word
  BY SquareIs
<1>2. /\ Unmixed(key[1]) \in Word /\ Unmixed(key[2]) \in Word
      /\ Unmixed(key[3]) \in Word /\ Unmixed(key[4]) \in Word
  BY <1>1, UnmixedIs
<1>3. UnmixedKey(key) \in Square
  BY <1>2, SquareMade DEF UnmixedKey
<1> QED
  BY <1>3 DEF UnmixedKey

(* Round r has the key of the round that is as far from the other end.     *)
LEMMA ReversedIs ==
  ASSUME NEW SK, NEW n, Schedule(SK, n)
  PROVE  /\ Schedule(Reversed(SK, n), n)
         /\ \A r \in 0..n :
              KeyAt(Reversed(SK, n), r)
                = IF r \in {0, n} THEN KeyAt(SK, n - r) ELSE UnmixedKey(KeyAt(SK, n - r))
<1> DEFINE size == 4 * (n + 1)
           turn(i) == (i - 1) \div 4
           word(i) == SK[(4 * (n - turn(i))) + ((i - 1) % 4) + 1]
           RK(i) == IF turn(i) \in {0, n} THEN word(i) ELSE Unmixed(word(i))
           e == [i \in 1..size |-> RK(i)]
           v == <<>> \o e
<1>1. SK \in Seq(Word) /\ n \in Nat /\ Len(SK) >= (4 * n) + 4 /\ Len(SK) \in Nat
  BY DEF Schedule
<1>2. size \in Nat /\ size = (4 * n) + 4
  BY <1>1
<1>3. ASSUME NEW r \in 0..n, NEW j \in 1..4
      PROVE  /\ (4 * r) + j \in 1..size
             /\ turn((4 * r) + j) = r
             /\ word((4 * r) + j) = KeyAt(SK, n - r)[j]
             /\ word((4 * r) + j) \in Word
  <2>1. (4 * r) + j \in 1..size
    BY <1>1, <1>2
  <2>2. turn((4 * r) + j) = r /\ (((4 * r) + j) - 1) % 4 = j - 1
    BY <1>1
  <2> DEFINE p == n - r
  <2>3. p \in 0..n
    BY <1>1
  <2>4. word((4 * r) + j) = SK[(4 * p) + (j - 1) + 1]
    BY <2>2
  <2> HIDE DEF p
  <2>5. (4 * p) + (j - 1) + 1 = (4 * p) + j
    BY <1>1, <2>3
  <2>6. SK[(4 * p) + j] = KeyAt(SK, p)[j]
    <3>1. j = 1 \/ j = 2 \/ j = 3 \/ j = 4
      OBVIOUS
    <3> QED
      BY <3>1 DEF KeyAt
  <2>7. KeyAt(SK, p) \in Square
    BY <2>3, KeyAtIs
  <2>8. KeyAt(SK, p)[j] \in Word
    BY <2>7, SquareIs
  <2>9. word((4 * r) + j) = KeyAt(SK, p)[j]
    BY <2>4, <2>5, <2>6
  <2> QED
    BY <2>1, <2>2, <2>8, <2>9 DEF p
<1>4. Reversed(SK, n) = v
  BY DEF Reversed, Unmixed
<1> HIDE DEF word, turn
<1>5. ASSUME NEW i \in 1..size
      PROVE  RK(i) \in Word
  <2> DEFINE r == (i - 1) \div 4
             j == ((i - 1) % 4) + 1
  <2>1. r \in 0..n /\ j \in 1..4 /\ i = (4 * r) + j
    BY <1>1, <1>2
  <2> HIDE DEF r, j
  <2>2. word(i) \in Word
    BY <1>3, <2>1
  <2>3. Unmixed(word(i)) \in Word
    BY <2>2, UnmixedIs
  <2> QED
    BY <2>2, <2>3
<1>6. v \in Seq(Word) /\ Len(v) = size /\ \A i \in 1..size : v[i] = RK(i)
  <2> HIDE DEF RK
  <2>1. e \in [1..size -> Word]
    BY <1>5
  <2>2. /\ <<>> \o e \in Seq(Word) /\ Len(<<>> \o e) = size
        /\ \A i \in 1..size : (<<>> \o e)[i] = e[i]
    <3> HIDE DEF e, size
    <3> QED
      BY <1>2, <2>1
  <2> QED
    BY <2>2
<1> HIDE DEF v
<1>7. Schedule(v, n)
  <2> HIDE DEF size
  <2> QED
    BY <1>1, <1>2, <1>6 DEF Schedule
<1>8. ASSUME NEW r \in 0..n
      PROVE  KeyAt(v, r) = IF r \in {0, n} THEN KeyAt(SK, n - r) ELSE UnmixedKey(KeyAt(SK, n - r))
  <2> DEFINE K == KeyAt(SK, n - r)
  <2>1. n - r \in 0..n
    BY <1>1
  <2>2. K \in Square
    BY <2>1, KeyAtIs
  <2>3. ASSUME NEW j \in 1..4
        PROVE  v[(4 * r) + j] = IF r \in {0, n} THEN K[j] ELSE Unmixed(K[j])
    <3> DEFINE i == (4 * r) + j
    <3>1. i \in 1..size /\ turn(i) = r /\ word(i) = K[j]
      BY <1>3
    <3> HIDE DEF i, K, size
    <3>2. v[i] = RK(i)
      BY <1>6, <3>1
    <3>3. v[i] = IF r \in {0, n} THEN K[j] ELSE Unmixed(K[j])
      BY <3>1, <3>2
    <3> QED
      BY <3>3 DEF i
  <2> HIDE DEF K
  <2>4. CASE r \in {0, n}
    <3>1. /\ v[(4 * r) + 1] = K[1] /\ v[(4 * r) + 2] = K[2]
          /\ v[(4 * r) + 3] = K[3] /\ v[(4 * r) + 4] = K[4]
      BY <2>3, <2>4
    <3>2. K = <<K[1], K[2], K[3], K[4]>>
      BY <2>2, SquareIs
    <3>3. KeyAt(v, r) = K
      BY <3>1, <3>2 DEF KeyAt
    <3> QED
      BY <2>4, <3>3 DEF K
  <2>5. CASE r \notin {0, n}
    <3>1. /\ v[(4 * r) + 1] = Unmixed(K[1]) /\ v[(4 * r) + 2] = Unmixed(K[2])
          /\ v[(4 * r) + 3] = Unmixed(K[3]) /\ v[(4 * r) + 4] = Unmixed(K[4])
      BY <2>3, <2>5
    <3>2. KeyAt(v, r) = UnmixedKey(K)
      BY <3>1 DEF KeyAt, UnmixedKey
    <3> QED
      BY <2>5, <3>2 DEF K
  <2> QED
    BY <2>4, <2>5
<1> QED
  BY <1>4, <1>7, <1>8

-----------------------------------------------------------------------------
(* The rounds of one block.  s[r] is what round r leaves, under the keys   *)
(* of SK; y is the block they begin with.                                  *)
CryptRounds(SK, s, y, m) ==
  /\ s \in [0..14 -> Square]
  /\ m >= 1 => s[0] = AddKey(KeyAt(SK, 0), y)
  /\ \A r \in 1..14 :
       r < m => s[r] = Round(KeyAt(SK, r), s[r - 1], aes_gen_tables.FT, 1)

(* The next of them.                                                       *)
NextRound(SK, s, y, m) ==
  IF m = 0 THEN AddKey(KeyAt(SK, 0), y)
  ELSE Round(KeyAt(SK, m), s[m - 1], aes_gen_tables.FT, 1)

(* It is there whatever came before.                                       *)
LEMMA RoundsGoOn ==
  ASSUME NEW SK, NEW n \in 1..14, Schedule(SK, n), NEW y \in Square,
         NEW m \in 0..(n - 1), NEW s, CryptRounds(SK, s, y, m)
  PROVE  \E t : CryptRounds(SK, t, y, m + 1) /\ t[m] = NextRound(SK, s, y, m)
<1> DEFINE z == NextRound(SK, s, y, m)
           t == [s EXCEPT ![m] = z]
<1>1. n \in Nat /\ m \in 0..n /\ m \in 0..14 /\ 0 \in 0..n
  OBVIOUS
<1>2. KeyAt(SK, m) \in Square /\ KeyAt(SK, 0) \in Square
  BY <1>1, KeyAtIs
<1>3. s \in [0..14 -> Square]
  BY DEF CryptRounds
<1>4. z \in Square
  <2>1. CASE m = 0
    BY <1>2, <2>1, AddKeyIs DEF NextRound
  <2>2. CASE m # 0
    <3>1. s[m - 1] \in Square
      <4>1. m - 1 \in 0..14
        BY <1>1, <2>2
      <4> QED
        BY <1>3, <4>1
    <3>2. Round(KeyAt(SK, m), s[m - 1], aes_gen_tables.FT, 1) \in Square
      BY <1>2, <3>1, RoundIs
    <3> QED
      BY <2>2, <3>2 DEF NextRound
  <2> QED
    BY <2>1, <2>2
<1> HIDE DEF z
<1>5. t \in [0..14 -> Square] /\ t[m] = z
  BY <1>1, <1>3, <1>4
<1>6. \A r \in 0..14 : r # m => t[r] = s[r]
  BY <1>3
<1> HIDE DEF t
<1>7. t[0] = AddKey(KeyAt(SK, 0), y)
  <2>1. CASE m = 0
    BY <1>5, <2>1 DEF z, NextRound
  <2>2. CASE m # 0
    <3>1. m >= 1 /\ 0 \in 0..14
      BY <1>1, <2>2
    <3> QED
      BY <1>6, <2>2, <3>1 DEF CryptRounds
  <2> QED
    BY <2>1, <2>2
<1>8. ASSUME NEW r \in 1..14, r < m + 1
      PROVE  t[r] = Round(KeyAt(SK, r), t[r - 1], aes_gen_tables.FT, 1)
  <2>1. r - 1 \in 0..14 /\ r - 1 # m /\ r \in 0..14
    BY <1>1, <1>8
  <2>2. t[r - 1] = s[r - 1]
    BY <1>6, <2>1
  <2>3. CASE r = m
    <3>1. m # 0 /\ t[r] = z
      BY <1>5, <2>3
    <3>2. z = Round(KeyAt(SK, m), s[m - 1], aes_gen_tables.FT, 1)
      BY <3>1 DEF z, NextRound
    <3> QED
      BY <2>2, <2>3, <3>1, <3>2
  <2>4. CASE r # m
    <3>1. r < m /\ t[r] = s[r]
      BY <1>1, <1>6, <1>8, <2>1, <2>4
    <3>2. s[r] = Round(KeyAt(SK, r), s[r - 1], aes_gen_tables.FT, 1)
      BY <3>1 DEF CryptRounds
    <3> QED
      BY <2>2, <3>1, <3>2
  <2> QED
    BY <2>3, <2>4
<1>9. CryptRounds(SK, t, y, m + 1)
  BY <1>5, <1>7, <1>8 DEF CryptRounds
<1> QED
  BY <1>5, <1>9 DEF z

(* What the last leaves under the last key, and what each decrypting round *)
(* leaves of it.                                                           *)
LEMMA RoundsUndone ==
  ASSUME NEW SK, NEW n \in 2..14, Schedule(SK, n), NEW y \in Square,
         NEW s, CryptRounds(SK, s, y, n)
  PROVE  LET RK == Reversed(SK, n)
             last == LastRound(KeyAt(SK, n), s[n - 1], aes_gen_tables.FSb, 1)
         IN /\ last \in Square
            /\ AddKey(KeyAt(RK, 0), last) = Stage(s[n - 1])
            /\ \A r \in 1..(n - 1) :
                 Round(KeyAt(RK, r), Stage(s[n - r]), aes_gen_tables.RT, 3)
                   = Stage(s[(n - r) - 1])
            /\ LastRound(KeyAt(RK, n), Stage(s[0]), aes_gen_tables.RSb, 3) = y
<1> DEFINE RK == Reversed(SK, n)
           last == LastRound(KeyAt(SK, n), s[n - 1], aes_gen_tables.FSb, 1)
<1>1. n \in Nat /\ 0 \in 0..n /\ n \in 0..n /\ n - 1 \in 0..14 /\ n - n = 0 /\ n - 0 = n
  OBVIOUS
<1>2. s \in [0..14 -> Square]
  BY DEF CryptRounds
<1>3. \A r \in 0..n : KeyAt(RK, r) = IF r \in {0, n} THEN KeyAt(SK, n - r)
                                     ELSE UnmixedKey(KeyAt(SK, n - r))
  BY <1>1, ReversedIs
<1>4. \A r \in 0..n : KeyAt(SK, r) \in Square
  BY <1>1, KeyAtIs
<1> HIDE DEF RK
<1>5. last = AddKey(KeyAt(SK, n), Stage(s[n - 1])) /\ Stage(s[n - 1]) \in Square
  <2>1. s[n - 1] \in Square /\ KeyAt(SK, n) \in Square
    BY <1>1, <1>2, <1>4
  <2> QED
    BY <2>1, LastRoundIs, StageMovedBack
<1>6. last \in Square /\ AddKey(KeyAt(SK, n), last) = Stage(s[n - 1])
  <2> DEFINE K == KeyAt(SK, n)
             t == Stage(s[n - 1])
  <2>1. K \in Square /\ t \in Square /\ last = AddKey(K, t)
    BY <1>1, <1>4, <1>5
  <2> HIDE DEF K, t, last
  <2>2. last \in Square /\ AddKey(K, last) = t
    BY <2>1, AddKeyIs
  <2> QED
    BY <2>2 DEF K, t
<1>7. KeyAt(RK, 0) = KeyAt(SK, n) /\ KeyAt(RK, n) = KeyAt(SK, 0)
  BY <1>1, <1>3
<1>8. ASSUME NEW r \in 1..(n - 1)
      PROVE  Round(KeyAt(RK, r), Stage(s[n - r]), aes_gen_tables.RT, 3)
               = Stage(s[(n - r) - 1])
  <2> DEFINE p == n - r
             K == KeyAt(SK, p)
             M == KeyAt(RK, r)
             x == s[p - 1]
  <2>1. p \in 0..n /\ p \in 1..14 /\ p < n /\ p - 1 \in 0..14 /\ r \in 0..n /\ r \notin {0, n}
    BY <1>1
  <2>2. M = UnmixedKey(K)
    BY <1>3, <2>1
  <2> HIDE DEF p
  <2>3. K \in Square /\ x \in Square
    BY <1>2, <1>4, <2>1
  <2>4. s[p] = Round(K, x, aes_gen_tables.FT, 1)
    BY <2>1 DEF CryptRounds
  <2> HIDE DEF K, M, x
  <2>5. M \in Square /\ \A i \in 1..4 : M[i] = Unmixed(K[i])
    BY <2>2, <2>3, UnmixedKeyIs
  <2>6. Round(M, Stage(Round(K, x, aes_gen_tables.FT, 1)), aes_gen_tables.RT, 3) = Stage(x)
    BY <2>3, <2>5, RoundUndone
  <2>7. Round(M, Stage(s[p]), aes_gen_tables.RT, 3) = Stage(x)
    BY <2>4, <2>6
  <2> QED
    BY <2>7 DEF M, p, x
<1>9. LastRound(KeyAt(RK, n), Stage(s[0]), aes_gen_tables.RSb, 3) = y
  <2>1. s[0] = AddKey(KeyAt(SK, 0), y)
    BY DEF CryptRounds
  <2>2. KeyAt(SK, 0) \in Square
    BY <1>1, <1>4
  <2> QED
    BY <1>7, <2>1, <2>2, FirstUndone
<1> QED
  BY <1>6, <1>7, <1>8, <1>9 DEF RK

-----------------------------------------------------------------------------
(* The bytes of a key or a block as words (GET_ULONG_LE),                  *)
Spelled(y, v, size) ==
  \A i \in 1..size : \A j \in 1..4 : y[i][j] = v[((4 * i) - 4) + j]

(* There are as many as fill the bytes, in their order,                    *)
LEMMA WordsSpelled ==
  ASSUME NEW v, NEW size \in Nat, NEW n, n = 4 * size, Str(v, n)
  PROVE  /\ WordsOf(v) \in Seq(Word) /\ Len(WordsOf(v)) = size
         /\ Spelled(WordsOf(v), v, size)
<1> DEFINE e == [i \in 1..size |-> SubSeq(v, (4 * i) - 3, 4 * i)]
<1>1. n \in Nat /\ v \in Seq(Byte) /\ Len(v) = n /\ \A i \in 1..n : v[i] \in Byte
  BY StrIs
<1>2. size \in Nat /\ n \div 4 = size
  OBVIOUS
<1>3. ASSUME NEW i \in 1..size
      PROVE  /\ SubSeq(v, (4 * i) - 3, 4 * i) \in Word
             /\ \A j \in 1..4 : SubSeq(v, (4 * i) - 3, 4 * i)[j] = v[((4 * i) - 4) + j]
  <2> DEFINE a == (4 * i) - 3
             b == 4 * i
             w == SubSeq(v, a, b)
  <2>1. /\ a \in Int /\ b \in Int /\ a >= 1 /\ b >= a - 1 /\ b <= n
        /\ (b - a) + 1 = 4 /\ a - 1 = (4 * i) - 4
    BY <1>1, <1>2
  <2> HIDE DEF a, b
  <2>2. Str(w, 4) /\ \A j \in 1..4 : w[j] = v[(a - 1) + j]
    <3>1. /\ Str(w, (b - a) + 1)
          /\ \A j \in 1..((b - a) + 1) : w[j] = v[(a - 1) + j]
      BY <2>1, StrPart
    <3> HIDE DEF w
    <3> QED
      BY <2>1, <3>1
  <2> HIDE DEF w
  <2>3. w \in Seq(Byte) /\ Len(w) = 4 /\ \A j \in 1..4 : w[j] \in Byte
    BY <2>2, StrIs
  <2>4. w = <<w[1], w[2], w[3], w[4]>>
    BY <2>3
  <2>5. w \in Word
    <3>1. w[1] \in Byte /\ w[2] \in Byte /\ w[3] \in Byte /\ w[4] \in Byte
      BY <2>3
    <3> QED
      BY <2>4, <3>1, WordMade
  <2>6. \A j \in 1..4 : w[j] = v[((4 * i) - 4) + j]
    BY <2>1, <2>2
  <2> QED
    BY <2>5, <2>6 DEF w, a, b
<1>4. WordsOf(v) = <<>> \o e
  BY <1>1, <1>2 DEF WordsOf
<1>5. e \in [1..size -> Word]
  BY <1>3
<1>6. \A i \in 1..size : e[i] = SubSeq(v, (4 * i) - 3, 4 * i)
  OBVIOUS
<1> HIDE DEF e
<1>7. /\ <<>> \o e \in Seq(Word) /\ Len(<<>> \o e) = size
      /\ \A i \in 1..size : (<<>> \o e)[i] = e[i]
  BY <1>2, <1>5
<1>8. ASSUME NEW i \in 1..size, NEW j \in 1..4
      PROVE  WordsOf(v)[i][j] = v[((4 * i) - 4) + j]
  BY <1>3, <1>4, <1>6, <1>7
<1>9. WordsOf(v) \in Seq(Word) /\ Len(WordsOf(v)) = size
  BY <1>4, <1>7
<1>10. Spelled(WordsOf(v), v, size)
  BY <1>8 DEF Spelled
<1> QED
  BY <1>9, <1>10

(* and back (PUT_ULONG_LE).                                                *)
LEMMA BytesBack ==
  ASSUME NEW v, Str(v, 16)
  PROVE  WordsOf(v) \in Square /\ BytesOf(WordsOf(v)) = v
<1> DEFINE y == WordsOf(v)
<1>1. y \in Seq(Word) /\ Len(y) = 4 /\ Spelled(y, v, 4)
  <2> DEFINE n == 16
             q == 4
  <2>1. q \in Nat /\ n = 4 * q /\ Str(v, n)
    OBVIOUS
  <2> HIDE DEF n, q
  <2>2. y \in Seq(Word) /\ Len(y) = q /\ Spelled(y, v, q)
    BY <2>1, WordsSpelled
  <2> QED
    BY <2>2 DEF q
<1> HIDE DEF y
<1>2. y = <<y[1], y[2], y[3], y[4]>>
  BY <1>1
<1>3. y[1] \in Word /\ y[2] \in Word /\ y[3] \in Word /\ y[4] \in Word
  BY <1>1
<1>4. y \in Square
  BY <1>2, <1>3, SquareMade
<1>5. ASSUME NEW w \in Word
      PROVE  Str(w, 4)
  <2>1. /\ w = <<w[1], w[2], w[3], w[4]>>
        /\ w[1] \in Byte /\ w[2] \in Byte /\ w[3] \in Byte /\ w[4] \in Byte
    BY WordIs
  <2> DEFINE a == w[1]  b == w[2]  c == w[3]  d == w[4]
  <2>2. a \in Byte /\ b \in Byte /\ c \in Byte /\ d \in Byte /\ w = <<a, b, c, d>>
    BY <2>1
  <2> HIDE DEF a, b, c, d
  <2>3. <<a, b, c, d>> \in Seq(Byte) /\ Len(<<a, b, c, d>>) = 4
    BY <2>2
  <2> QED
    BY <2>2, <2>3 DEF Str
<1> DEFINE p == y[1]  q == y[2]  r == y[3]  t == y[4]
           x2 == p \o q
           x3 == x2 \o r
           x4 == x3 \o t
<1>6. Str(p, 4) /\ Str(q, 4) /\ Str(r, 4) /\ Str(t, 4)
  BY <1>3, <1>5
<1>7. \A j \in 1..4 : /\ p[j] = v[0 + j] /\ q[j] = v[4 + j]
                      /\ r[j] = v[8 + j] /\ t[j] = v[12 + j]
  BY <1>1 DEF Spelled
<1>8. BytesOf(y) = x4
  BY DEF BytesOf
<1> HIDE DEF p, q, r, t
<1>9. Appended(x2, p, q, 4, 4)
  BY <1>6, StrJoined
<1> HIDE DEF x2
<1>10. Str(x2, 8) /\ \A i \in 1..4 : x2[i] = p[i] /\ x2[4 + i] = q[i]
  BY <1>9 DEF Appended
<1>11. Appended(x3, x2, r, 8, 4)
  BY <1>6, <1>10, StrJoined
<1> HIDE DEF x3
<1>12. Str(x3, 12) /\ (\A i \in 1..8 : x3[i] = x2[i]) /\ \A i \in 1..4 : x3[8 + i] = r[i]
  BY <1>11 DEF Appended
<1>13. Appended(x4, x3, t, 12, 4)
  BY <1>6, <1>12, StrJoined
<1> HIDE DEF x4
<1>14. Str(x4, 16) /\ (\A i \in 1..12 : x4[i] = x3[i]) /\ \A i \in 1..4 : x4[12 + i] = t[i]
  BY <1>13 DEF Appended
<1>15. ASSUME NEW j \in 1..4
       PROVE  /\ x4[j] = v[j] /\ x4[4 + j] = v[4 + j]
              /\ x4[8 + j] = v[8 + j] /\ x4[12 + j] = v[12 + j]
  <2>1. /\ p[j] = v[j] /\ q[j] = v[4 + j] /\ r[j] = v[8 + j] /\ t[j] = v[12 + j]
    <3>1. 0 + j = j
      OBVIOUS
    <3> QED
      BY <1>7, <3>1
  <2>2. j \in 1..8 /\ 4 + j \in 1..8 /\ j \in 1..12 /\ 4 + j \in 1..12 /\ 8 + j \in 1..12
    OBVIOUS
  <2>3. x4[j] = v[j]
    BY <1>10, <1>12, <1>14, <2>1, <2>2
  <2>4. x4[4 + j] = v[4 + j]
    BY <1>10, <1>12, <1>14, <2>1, <2>2
  <2>5. x4[8 + j] = v[8 + j]
    BY <1>12, <1>14, <2>1, <2>2
  <2>6. x4[12 + j] = v[12 + j]
    BY <1>14, <2>1
  <2> QED
    BY <2>3, <2>4, <2>5, <2>6
<1>16. ASSUME NEW i \in 1..16
       PROVE  x4[i] = v[i]
  <2>1. CASE i \in 1..4
    BY <1>15, <2>1
  <2>2. CASE i \in 5..8
    <3>1. i - 4 \in 1..4 /\ 4 + (i - 4) = i
      BY <2>2
    <3> QED
      BY <1>15, <3>1
  <2>3. CASE i \in 9..12
    <3>1. i - 8 \in 1..4 /\ 8 + (i - 8) = i
      BY <2>3
    <3> QED
      BY <1>15, <3>1
  <2>4. CASE i \in 13..16
    <3>1. i - 12 \in 1..4 /\ 12 + (i - 12) = i
      BY <2>4
    <3> QED
      BY <1>15, <3>1
  <2> QED
    BY <2>1, <2>2, <2>3, <2>4
<1>17. x4 = v
  BY <1>14, <1>16, StrEqual
<1> QED
  BY <1>4, <1>8, <1>17 DEF y

-----------------------------------------------------------------------------
(* The round constants are bytes.                                          *)
LEMMA RconIs ==
  ASSUME NEW i \in 1..10
  PROVE  RCON[i] \in Byte
<1>1. CASE i \in 1..5
  <2>1. i = 1 \/ i = 2 \/ i = 3 \/ i = 4 \/ i = 5
    BY <1>1
  <2> QED
    BY <2>1 DEF RCON, Byte
<1>2. CASE i \in 6..10
  <2>1. i = 6 \/ i = 7 \/ i = 8 \/ i = 9 \/ i = 10
    BY <1>2
  <2> QED
    BY <2>1 DEF RCON, Byte
<1> QED
  BY <1>1, <1>2

(* A turn of aes_setkey_enc: each of its words.                            *)
LEMMA NextWordsAre ==
  ASSUME NEW c \in {4, 6, 8}, NEW w, \A j \in 1..c : w[j] \in Word, NEW i \in 1..10
  PROVE  LET next == NextWords(w, c, i)
         IN /\ next \in Seq(Word) /\ Len(next) = c
            /\ next[1] = WordXor(w[1], WordXor(<<RCON[i], 0, 0, 0>>, SubRotated(w[c])))
            /\ \A j \in 2..c :
                 next[j] = WordXor(w[j], IF j = 5 /\ c = 8 THEN Sub(next[j - 1])
                                         ELSE next[j - 1])
<1> DEFINE first == WordXor(<<RCON[i], 0, 0, 0>>, SubRotated(w[c]))
           Nexts(f) == f = [j \in 1..c |->
                              WordXor(w[j], CASE j = 1 -> first
                                              [] j = 5 /\ c = 8 -> Sub(f[4])
                                              [] OTHER -> f[j - 1])]
           next == CHOOSE f : Nexts(f)
           f1 == WordXor(w[1], first)
           f2 == WordXor(w[2], f1)
           f3 == WordXor(w[3], f2)
           f4 == WordXor(w[4], f3)
           f5 == WordXor(w[5], IF c = 8 THEN Sub(f4) ELSE f4)
           f6 == WordXor(w[6], f5)
           f7 == WordXor(w[7], f6)
           f8 == WordXor(w[8], f7)
           g == [j \in 1..c |-> CASE j = 1 -> f1 [] j = 2 -> f2 [] j = 3 -> f3
                                  [] j = 4 -> f4 [] j = 5 -> f5 [] j = 6 -> f6
                                  [] j = 7 -> f7 [] j = 8 -> f8]
<1>1. NextWords(w, c, i) = <<>> \o [j \in 1..c |-> next[j]]
  BY DEF NextWords
<1>2. first \in Word
  <2>1. RCON[i] \in Byte /\ 0 \in Byte
    BY RconIs DEF Byte
  <2>2. <<RCON[i], 0, 0, 0>> \in Word
    BY <2>1, WordMade
  <2>3. w[c] \in Word
    OBVIOUS
  <2> DEFINE l == w[c]
  <2>4. <<l[2], l[3], l[4], l[1]>> \in Word
    BY <2>3, WordIs, WordMade
  <2>5. SubRotated(l) \in Word
    BY <2>4, SubIs DEF SubRotated
  <2> QED
    BY <2>2, <2>5, WordXorIs
<1> HIDE DEF first
<1>3. Nexts(g)
  <2>1. ASSUME NEW j \in 1..c
        PROVE  g[j] = WordXor(w[j], CASE j = 1 -> first
                                      [] j = 5 /\ c = 8 -> Sub(g[4])
                                      [] OTHER -> g[j - 1])
    <3>1. CASE j = 1
      BY <3>1
    <3>2. CASE j = 2
      BY <3>2
    <3>3. CASE j = 3
      BY <3>3
    <3>4. CASE j = 4
      BY <3>4
    <3>5. CASE j = 5 /\ c = 8
      BY <3>5
    <3>6. CASE j = 5 /\ c # 8
      BY <3>6
    <3>7. CASE j = 6
      BY <3>7
    <3>8. CASE j = 7
      BY <3>8
    <3>9. CASE j = 8
      BY <3>9
    <3>10. \/ j = 1 \/ j = 2 \/ j = 3 \/ j = 4 \/ (j = 5 /\ c = 8) \/ (j = 5 /\ c # 8)
           \/ j = 6 \/ j = 7 \/ j = 8
      <4> HIDE DEF g
      <4> QED
        OBVIOUS
    <3> HIDE DEF g
    <3> QED
      BY <3>1, <3>2, <3>3, <3>4, <3>5, <3>6, <3>7, <3>8, <3>9, <3>10
  <2>2. g = [j \in 1..c |-> g[j]]
    OBVIOUS
  <2> HIDE DEF g
  <2> QED
    BY <2>1, <2>2
<1>4. Nexts(next)
  <2> HIDE DEF Nexts, g
  <2> QED
    BY <1>3
<1> HIDE DEF next
<1>5. next[1] = WordXor(w[1], first)
  <2>1. 1 \in 1..c
    OBVIOUS
  <2> QED
    BY <1>4, <2>1
<1>6. ASSUME NEW j \in 2..c
      PROVE  next[j] = WordXor(w[j], IF j = 5 /\ c = 8 THEN Sub(next[j - 1]) ELSE next[j - 1])
  <2>1. j \in 1..c /\ j # 1
    OBVIOUS
  <2>2. CASE j = 5 /\ c = 8
    <3>1. j - 1 = 4
      BY <2>2
    <3> QED
      BY <1>4, <2>1, <2>2, <3>1
  <2>3. CASE ~(j = 5 /\ c = 8)
    BY <1>4, <2>1, <2>3
  <2> QED
    BY <2>2, <2>3
<1>7. next[1] \in Word
  <2>1. w[1] \in Word
    OBVIOUS
  <2> QED
    BY <1>2, <1>5, <2>1, WordXorIs
<1>8. ASSUME NEW j \in 2..c, next[j - 1] \in Word
      PROVE  next[j] \in Word
  <2>1. w[j] \in Word
    OBVIOUS
  <2>2. Sub(next[j - 1]) \in Word
    BY <1>8, SubIs
  <2> DEFINE x == IF j = 5 /\ c = 8 THEN Sub(next[j - 1]) ELSE next[j - 1]
  <2>3. x \in Word
    BY <1>8, <2>2
  <2>4. next[j] = WordXor(w[j], x)
    BY <1>6
  <2> HIDE DEF x
  <2> QED
    BY <2>1, <2>3, <2>4, WordXorIs
<1>9. \A j \in 1..c : next[j] \in Word
  <2>1. next[2] \in Word
    BY <1>7, <1>8
  <2>2. next[3] \in Word
    BY <2>1, <1>8
  <2>3. next[4] \in Word
    BY <2>2, <1>8
  <2>4. c > 4 => next[5] \in Word
    BY <2>3, <1>8
  <2>5. c > 4 => next[6] \in Word
    BY <2>4, <1>8
  <2>6. c > 6 => next[7] \in Word
    BY <2>5, <1>8
  <2>7. c > 6 => next[8] \in Word
    BY <2>6, <1>8
  <2> QED
    BY <1>7, <2>1, <2>2, <2>3, <2>4, <2>5, <2>6, <2>7
<1> DEFINE e == [j \in 1..c |-> next[j]]
           v == <<>> \o e
<1>10. e \in [1..c -> Word] /\ \A j \in 1..c : e[j] = next[j]
  BY <1>9
<1> HIDE DEF e
<1>11. v \in Seq(Word) /\ Len(v) = c /\ \A j \in 1..c : v[j] = e[j]
  <2>1. c \in Nat
    OBVIOUS
  <2> QED
    BY <1>10, <2>1
<1>12. \A j \in 1..c : v[j] = next[j]
  BY <1>10, <1>11
<1>13. NextWords(w, c, i) = v
  BY <1>1 DEF e
<1> HIDE DEF v
<1>14. v[1] = WordXor(w[1], first)
  <2>1. 1 \in 1..c
    OBVIOUS
  <2> QED
    BY <1>5, <1>12, <2>1
<1>15. ASSUME NEW j \in 2..c
       PROVE  v[j] = WordXor(w[j], IF j = 5 /\ c = 8 THEN Sub(v[j - 1]) ELSE v[j - 1])
  <2>1. j \in 1..c /\ j - 1 \in 1..c
    OBVIOUS
  <2>2. v[j] = next[j] /\ v[j - 1] = next[j - 1]
    BY <1>12, <2>1
  <2> QED
    BY <1>6, <2>2
<1> QED
  BY <1>11, <1>13, <1>14, <1>15 DEF first

-----------------------------------------------------------------------------
(* Word i of a schedule, of keys of c words, as the standard makes it.     *)
Follows(words, c, i) ==
  words[i] = WordXor(words[i - c],
               CASE (i - 1) % c = 0 ->
                      WordXor(SubRotated(words[i - 1]), <<RCON[(i - 1) \div c], 0, 0, 0>>)
                 [] c > 6 /\ (i - 1) % c = 4 -> Sub(words[i - 1])
                 [] OTHER -> words[i - 1])
Grown(words, c) ==
  words \in Seq(Word) /\ \A i \in (c + 1)..Len(words) : Follows(words, c, i)
GrownTo(words, c, q) == Grown(words, c) /\ Len(words) = c * q

(* Where a word of a turn lies.                                            *)
LEMMA TurnPlaces ==
  ASSUME NEW c \in {4, 6, 8}, NEW q \in 1..10
  PROVE  /\ c * q \in Nat /\ c * q >= c /\ c * (q + 1) = (c * q) + c
         /\ \A j \in 1..c : (((c * q) + j) - 1) % c = j - 1
                            /\ (((c * q) + j) - 1) \div c = q
<1>1. CASE c = 4
  BY <1>1
<1>2. CASE c = 6
  BY <1>2
<1>3. CASE c = 8
  BY <1>3
<1> QED
  BY <1>1, <1>2, <1>3

(* Words behind words.                                                     *)
LEMMA WordsJoined ==
  ASSUME NEW v \in Seq(Word), NEW w \in Seq(Word)
  PROVE  /\ v \o w \in Seq(Word) /\ Len(v \o w) = Len(v) + Len(w)
         /\ \A i \in 1..Len(v) : (v \o w)[i] = v[i]
         /\ \A j \in 1..Len(w) : (v \o w)[Len(v) + j] = w[j]
<1>1. v \o w \in Seq(Word)
  OBVIOUS
<1>2. Len(v \o w) = Len(v) + Len(w)
  OBVIOUS
<1>3. \A i \in 1..Len(v) : (v \o w)[i] = v[i]
  OBVIOUS
<1>4. \A j \in 1..Len(w) : (v \o w)[Len(v) + j] = w[j]
  OBVIOUS
<1> QED
  BY <1>1, <1>2, <1>3, <1>4

(* A turn of aes_setkey_enc goes on as the standard does.                  *)
AfterTurn(words, c, q) ==
  words \o NextWords(SubSeq(words, Len(words) - c + 1, Len(words)), c, q)

(* The schedule grows by the words of a key, each as the standard has it.  *)
LEMMA KeyGrows ==
  ASSUME NEW c \in {4, 6, 8}, NEW q \in 1..10, NEW words, GrownTo(words, c, q)
  PROVE  GrownTo(AfterTurn(words, c, q), c, q + 1)
<1> DEFINE m == c * q
           w == SubSeq(words, m - c + 1, m)
           next == NextWords(w, c, q)
           all == words \o next
<1>1. /\ m \in Nat /\ m >= c /\ c * (q + 1) = m + c
      /\ \A j \in 1..c : ((m + j) - 1) % c = j - 1 /\ ((m + j) - 1) \div c = q
  BY TurnPlaces
<1>2. Grown(words, c) /\ Len(words) = m
  BY DEF GrownTo
<1> HIDE DEF m
<1>3. c \in Nat /\ c >= 4
  OBVIOUS
<1>4. words \in Seq(Word) /\ \A i \in 1..m : words[i] \in Word
  BY <1>1, <1>2 DEF Grown
<1>5. \A j \in 1..c : w[j] = words[(m - c) + j] /\ w[j] \in Word
  <2> DEFINE a == m - c + 1
  <2>1. a \in Int /\ m \in Int /\ a >= 1 /\ m - a + 1 = c /\ a = (m - c) + 1
    BY <1>1, <1>3
  <2> HIDE DEF a
  <2>2. \A i \in a..m : words[i] \in Word
    BY <1>4, <2>1
  <2>3. \A j \in 1..(m - a + 1) : SubSeq(words, a, m)[j] = words[a + j - 1]
    BY <2>1, <2>2, SubSeqProperties
  <2>4. ASSUME NEW j \in 1..c
        PROVE  w[j] = words[(m - c) + j] /\ w[j] \in Word
    <3>1. a + j - 1 = (m - c) + j /\ (m - c) + j \in 1..m
      BY <1>1, <1>3, <2>1
    <3>2. w[j] = words[a + j - 1]
      BY <2>1, <2>3 DEF a
    <3> QED
      BY <1>4, <3>1, <3>2
  <2> QED
    BY <2>4
<1> HIDE DEF w
<1>6. /\ next \in Seq(Word) /\ Len(next) = c
      /\ next[1] = WordXor(w[1], WordXor(<<RCON[q], 0, 0, 0>>, SubRotated(w[c])))
      /\ \A j \in 2..c :
           next[j] = WordXor(w[j], IF j = 5 /\ c = 8 THEN Sub(next[j - 1])
                                   ELSE next[j - 1])
  <2>1. \A j \in 1..c : w[j] \in Word
    BY <1>5
  <2> QED
    BY <2>1, NextWordsAre
<1> HIDE DEF next
<1>7. /\ all \in Seq(Word) /\ Len(all) = m + c
      /\ \A i \in 1..m : all[i] = words[i]
      /\ \A j \in 1..c : all[m + j] = next[j]
  <2>1. words \in Seq(Word) /\ next \in Seq(Word) /\ Len(words) = m /\ Len(next) = c
    BY <1>2, <1>4, <1>6
  <2>2. /\ all \in Seq(Word) /\ Len(all) = Len(words) + Len(next)
        /\ \A i \in 1..Len(words) : all[i] = words[i]
        /\ \A j \in 1..Len(next) : all[Len(words) + j] = next[j]
    BY <2>1, WordsJoined
  <2> HIDE DEF all
  <2> QED
    BY <2>1, <2>2
<1> HIDE DEF all
<1>8. ASSUME NEW i \in (c + 1)..m
      PROVE  Follows(all, c, i)
  <2>1. i \in 1..m /\ i - 1 \in 1..m /\ i - c \in 1..m
    BY <1>1, <1>3
  <2>2. all[i] = words[i] /\ all[i - 1] = words[i - 1] /\ all[i - c] = words[i - c]
    BY <1>7, <2>1
  <2>3. Follows(words, c, i)
    BY <1>2 DEF Grown
  <2> QED
    BY <2>2, <2>3 DEF Follows
<1>9. ASSUME NEW j \in 1..c
      PROVE  Follows(all, c, m + j)
  <2> DEFINE i == m + j
  <2>1. /\ i - c = (m - c) + j /\ i - c \in 1..m
        /\ (i - 1) % c = j - 1 /\ (i - 1) \div c = q
    BY <1>1, <1>3
  <2>2. all[i] = next[j]
    BY <1>7
  <2>3. all[i - c] = w[j]
    BY <1>5, <1>7, <2>1
  <2>4. CASE j = 1
    <3>1. i - 1 = m /\ m \in 1..m /\ (m - c) + c = m /\ c \in 1..c
      BY <1>1, <1>3, <2>4
    <3>2. all[i - 1] = w[c] /\ w[c] \in Word
      <4>1. w[c] = words[(m - c) + c] /\ w[c] \in Word
        BY <1>5, <3>1
      <4>2. all[m] = words[m]
        BY <1>7, <3>1
      <4> QED
        BY <3>1, <4>1, <4>2
    <3> DEFINE x == SubRotated(w[c])
               y == <<RCON[q], 0, 0, 0>>
    <3>3. x \in Word
      <4> DEFINE l == w[c]
      <4>1. <<l[2], l[3], l[4], l[1]>> \in Word
        BY <3>2, WordIs, WordMade
      <4> QED
        BY <4>1, SubIs DEF SubRotated
    <3>4. y \in Word
      <4>1. RCON[q] \in Byte
        BY RconIs
      <4>2. 0 \in Byte
        BY DEF Byte
      <4> QED
        BY <4>1, <4>2, WordMade
    <3>5. WordXor(y, x) = WordXor(x, y)
      BY <3>3, <3>4, WordXorIs
    <3>6. (i - 1) % c = 0
      BY <2>1, <2>4
    <3>7. all[i] = WordXor(all[i - c], WordXor(SubRotated(all[i - 1]), <<RCON[(i - 1) \div c], 0, 0, 0>>))
      BY <1>6, <2>1, <2>2, <2>3, <2>4, <3>2, <3>5
    <3> HIDE DEF i
    <3>8. Follows(all, c, i)
      BY <3>6, <3>7 DEF Follows
    <3> QED
      BY <3>8 DEF i
  <2>5. CASE j # 1
    <3>1. j - 1 \in 1..c /\ i - 1 = m + (j - 1) /\ j \in 2..c
      BY <1>1, <1>3, <2>5
    <3>2. all[i - 1] = next[j - 1]
      BY <1>7, <3>1
    <3>3. (i - 1) % c # 0 /\ ((i - 1) % c = 4 <=> j = 5)
      BY <2>1, <2>5, <3>1
    <3>4. all[i] = WordXor(all[i - c], IF j = 5 /\ c = 8 THEN Sub(all[i - 1]) ELSE all[i - 1])
      BY <1>6, <2>2, <2>3, <3>1, <3>2
    <3>5. c > 6 <=> c = 8
      OBVIOUS
    <3> HIDE DEF i
    <3>6. Follows(all, c, i)
      <4>1. CASE j = 5 /\ c = 8
        BY <3>3, <3>4, <3>5, <4>1 DEF Follows
      <4>2. CASE ~(j = 5 /\ c = 8)
        BY <3>3, <3>4, <3>5, <4>2 DEF Follows
      <4> QED
        BY <4>1, <4>2
    <3> QED
      BY <3>6 DEF i
  <2> QED
    BY <2>4, <2>5
<1>10. ASSUME NEW i \in (c + 1)..(m + c)
       PROVE  Follows(all, c, i)
  <2>1. CASE i <= m
    <3>1. i \in (c + 1)..m
      BY <1>1, <1>3, <2>1
    <3> QED
      BY <1>8, <3>1
  <2>2. CASE i > m
    <3> DEFINE j == i - m
    <3>1. j \in 1..c /\ i = m + j
      BY <1>1, <1>3, <2>2
    <3> QED
      BY <1>9, <3>1
  <2> QED
    BY <1>1, <1>3, <2>1, <2>2
<1>11. Grown(all, c)
  BY <1>7, <1>10 DEF Grown
<1>12. AfterTurn(words, c, q) = all
  <2>1. AfterTurn(words, c, q) = words \o NextWords(SubSeq(words, m - c + 1, m), c, q)
    BY <1>2 DEF AfterTurn
  <2> QED
    BY <2>1 DEF all, next, w
<1>13. Len(all) = c * (q + 1)
  BY <1>1, <1>7
<1> QED
  BY <1>11, <1>12, <1>13 DEF GrownTo

-----------------------------------------------------------------------------
(* The steps of the standard are those of the code: SubBytes is the box,   *)
LEMMA SubBytesIs ==
  ASSUME NEW y \in Square
  PROVE  SubBytes(y) = Boxed(y)
<1> DEFINE F == aes_gen_tables.FSb
           e == [i \in 1..4 |-> <<>> \o [n \in 1..4 |-> SBox[y[i][n]]]]
           v == <<>> \o e
<1>1. SubBytes(y) = v
  BY DEF SubBytes
<1>2. ASSUME NEW i \in 1..4
      PROVE  e[i] = Sub(y[i])
  <2>1. \A n \in 1..4 : SBox[y[i][n]] = At(F, y[i][n])
    <3>1. \A n \in 1..4 : y[i][n] \in Byte
      BY SquareIs
    <3> QED
      BY <3>1, StandardAssumption
  <2>2. e[i] = <<>> \o [n \in 1..4 |-> SBox[y[i][n]]]
    OBVIOUS
  <2>3. Sub(y[i]) = <<>> \o [n \in 1..4 |-> At(F, y[i][n])]
    BY DEF Sub
  <2> HIDE DEF e, F
  <2> QED
    BY <2>1, <2>2, <2>3
<1>3. e = [i \in 1..4 |-> e[i]]
  OBVIOUS
<1> HIDE DEF e
<1>4. \A i \in 1..4 : e[i] \in Word
  <2> SUFFICES ASSUME NEW i \in 1..4 PROVE e[i] \in Word
    OBVIOUS
  <2>1. y[i] \in Word
    BY SquareIs
  <2> QED
    BY <1>2, <2>1, SubIs
<1>5. v \in Square /\ \A i \in 1..4 : v[i] = e[i]
  BY <1>3, <1>4, SquareOf
<1> HIDE DEF v
<1>6. Boxed(y) \in Square /\ \A i \in 1..4 : Boxed(y)[i] = Sub(y[i])
  BY BoxedIs
<1>7. v = Boxed(y)
  BY <1>2, <1>5, <1>6, SameSquare
<1> QED
  BY <1>1, <1>7

(* and ShiftRows may come before it.                                       *)
LEMMA StageIs ==
  ASSUME NEW y \in Square
  PROVE  ShiftRows(SubBytes(y)) = Stage(y) /\ Stage(y) \in Square
<1> DEFINE b == Boxed(y)
           g == Gathered(y, 1)
           F(x) == At(aes_gen_tables.FSb, x)
<1>1. SubBytes(y) = b
  BY SubBytesIs
<1>2. b \in Square /\ \A i, n \in 1..4 : b[i][n] = F(y[i][n])
  BY BoxedIs
<1> HIDE DEF b
<1>3. g \in Square /\ \A i, n \in 1..4 : g[i][n] = y[Place(i, n, 1)][n]
  BY GatheredIs
<1> HIDE DEF g
<1> DEFINE x == Gathered(b, 1)
           t == Boxed(g)
<1>4. x \in Square /\ \A i, n \in 1..4 : x[i][n] = b[Place(i, n, 1)][n]
  BY <1>2, GatheredIs
<1>5. t \in Square /\ \A i, n \in 1..4 : t[i][n] = F(g[i][n])
  BY <1>3, BoxedIs
<1> HIDE DEF x, t, F
<1>6. ASSUME NEW i \in 1..4, NEW n \in 1..4
      PROVE  x[i][n] = t[i][n]
  <2>1. Place(i, n, 1) \in 1..4
    BY PlacesBack
  <2>2. x[i][n] = b[Place(i, n, 1)][n] /\ g[i][n] = y[Place(i, n, 1)][n] /\ t[i][n] = F(g[i][n])
    BY <1>3, <1>4, <1>5
  <2>3. b[Place(i, n, 1)][n] = F(y[Place(i, n, 1)][n])
    BY <1>2, <2>1
  <2> QED
    BY <2>2, <2>3
<1>7. x = t
  BY <1>4, <1>5, <1>6, SameBytes
<1> QED
  BY <1>1, <1>5, <1>7 DEF ShiftRows, Stage, x, t, g

(* Four bytes added up from any of them on.                                *)
LEMMA FourTurned ==
  ASSUME NEW a \in Byte, NEW b \in Byte, NEW c \in Byte, NEW d \in Byte
  PROVE  /\ Xor(Xor(Xor(a, b), c), d) = Xor(Xor(a, b), Xor(c, d))
         /\ Xor(Xor(Xor(a, b), c), d) = Xor(Xor(Xor(b, c), d), a)
<1> DEFINE ab == Xor(a, b)  bc == Xor(b, c)
<1>1. ab \in Byte /\ bc \in Byte /\ Xor(ab, c) = Xor(a, bc)
  BY XorCancels, XorAssociates
<1> HIDE DEF ab, bc
<1>2. Xor(Xor(ab, c), d) = Xor(ab, Xor(c, d))
  BY <1>1, XorAssociates
<1> DEFINE x == Xor(bc, d)
<1>3. x \in Byte /\ Xor(Xor(a, bc), d) = Xor(a, x)
  BY <1>1, XorCancels, XorAssociates
<1> HIDE DEF x
<1>4. Xor(a, x) = Xor(x, a)
  BY <1>3, XorCancels
<1> QED
  BY <1>1, <1>2, <1>3, <1>4 DEF ab, bc, x

(* MixColumns of a word through the box is what the tables add up to.      *)
MixedWord(w) ==
  <<Xor(Xor(Product(2, w[1]), Product(3, w[2])), Xor(w[3], w[4])),
    Xor(Xor(Product(2, w[2]), Product(3, w[3])), Xor(w[4], w[1])),
    Xor(Xor(Product(2, w[3]), Product(3, w[4])), Xor(w[1], w[2])),
    Xor(Xor(Product(2, w[4]), Product(3, w[1])), Xor(w[2], w[3]))>>

(* Columns looks that up.                                                  *)
LEMMA ColumnsMix ==
  ASSUME NEW w \in Word
  PROVE  Columns(w) = MixedWord(Sub(w))
<1> DEFINE FT == aes_gen_tables.FT
           two(n) == Product(2, SBox[w[n]])
           three(n) == Product(3, SBox[w[n]])
           one(n) == SBox[w[n]]
           t1 == At(FT[1], w[1])  t2 == At(FT[2], w[2])
           t3 == At(FT[3], w[3])  t4 == At(FT[4], w[4])
<1>1. w[1] \in Byte /\ w[2] \in Byte /\ w[3] \in Byte /\ w[4] \in Byte
  BY WordIs
<1>2. t1 \in Word /\ t2 \in Word /\ t3 \in Word /\ t4 \in Word
  BY <1>1, ColumnsAssumption
<1>3. Columns(w) = Sum4(t1, t2, t3, t4)
  BY <1>2, LookedIs DEF Columns
<1>4. /\ t1 = <<two(1), one(1), one(1), three(1)>>
      /\ t2 = <<three(2), two(2), one(2), one(2)>>
      /\ t3 = <<one(3), three(3), two(3), one(3)>>
      /\ t4 = <<one(4), one(4), three(4), two(4)>>
  BY <1>1, StandardAssumption
<1>5. Sub(w)[1] = one(1) /\ Sub(w)[2] = one(2) /\ Sub(w)[3] = one(3) /\ Sub(w)[4] = one(4)
  BY <1>1, SubIs, StandardAssumption
<1> DEFINE a == one(1)  b == one(2)  c == one(3)  d == one(4)
           a2 == two(1)  b2 == two(2)  c2 == two(3)  d2 == two(4)
           a3 == three(1)  b3 == three(2)  c3 == three(3)  d3 == three(4)
<1>6. MixedWord(Sub(w)) = <<Xor(Xor(a2, b3), Xor(c, d)), Xor(Xor(b2, c3), Xor(d, a)),
                            Xor(Xor(c2, d3), Xor(a, b)), Xor(Xor(d2, a3), Xor(b, c))>>
  BY <1>5 DEF MixedWord
<1>7. t1 = <<a2, a, a, a3>> /\ t2 = <<b3, b2, b, b>> /\ t3 = <<c, c3, c2, c>> /\ t4 = <<d, d, d3, d2>>
  BY <1>4
<1> HIDE DEF a, b, c, d, a2, b2, c2, d2, a3, b3, c3, d3, t1, t2, t3, t4
<1>8. /\ a2 \in Byte /\ a \in Byte /\ a3 \in Byte
      /\ b3 \in Byte /\ b2 \in Byte /\ b \in Byte
  BY <1>2, <1>7, WordIs
<1>9. /\ c \in Byte /\ c3 \in Byte /\ c2 \in Byte
      /\ d \in Byte /\ d3 \in Byte /\ d2 \in Byte
  BY <1>2, <1>7, WordIs
<1>10. Sum4(t1, t2, t3, t4)
         = <<Xor(Xor(Xor(a2, b3), c), d), Xor(Xor(Xor(a, b2), c3), d),
             Xor(Xor(Xor(a, b), c2), d3), Xor(Xor(Xor(a3, b), c), d2)>>
  BY <1>7 DEF Sum4, WordXor
<1>11. Xor(Xor(Xor(a2, b3), c), d) = Xor(Xor(a2, b3), Xor(c, d))
  BY <1>8, <1>9, FourTurned
<1>12. Xor(Xor(Xor(a, b2), c3), d) = Xor(Xor(b2, c3), Xor(d, a))
  <2>1. Xor(Xor(Xor(a, b2), c3), d) = Xor(Xor(Xor(b2, c3), d), a)
    BY <1>8, <1>9, FourTurned
  <2>2. Xor(Xor(Xor(b2, c3), d), a) = Xor(Xor(b2, c3), Xor(d, a))
    BY <1>8, <1>9, FourTurned
  <2> QED
    BY <2>1, <2>2
<1>13. Xor(Xor(Xor(a, b), c2), d3) = Xor(Xor(c2, d3), Xor(a, b))
  <2> DEFINE x == Xor(a, b)
             y == Xor(c2, d3)
  <2>1. Xor(Xor(Xor(a, b), c2), d3) = Xor(x, y)
    BY <1>8, <1>9, FourTurned
  <2>2. x \in Byte /\ y \in Byte
    BY <1>8, <1>9, XorCancels
  <2> HIDE DEF x, y
  <2>3. Xor(x, y) = Xor(y, x)
    BY <2>2, XorCancels
  <2>4. Xor(y, x) = Xor(Xor(c2, d3), Xor(a, b))
    BY DEF x, y
  <2> QED
    BY <2>1, <2>3, <2>4
<1>14. Xor(Xor(Xor(a3, b), c), d2) = Xor(Xor(d2, a3), Xor(b, c))
  <2>1. Xor(Xor(Xor(d2, a3), b), c) = Xor(Xor(Xor(a3, b), c), d2)
    BY <1>8, <1>9, FourTurned
  <2>2. Xor(Xor(Xor(d2, a3), b), c) = Xor(Xor(d2, a3), Xor(b, c))
    BY <1>8, <1>9, FourTurned
  <2> QED
    BY <2>1, <2>2
<1> QED
  BY <1>3, <1>6, <1>10, <1>11, <1>12, <1>13, <1>14

(* MixColumns of a stage, word by word.                                    *)
LEMMA MixColumnsAre ==
  ASSUME NEW y \in Square
  PROVE  MixColumns(y) = <<>> \o [i \in 1..4 |-> MixedWord(y[i])]
<1> DEFINE after(n) == (n % 4) + 1
           mixed(w, n) == Xor(Xor(Product(2, w[n]), Product(3, w[after(n)])),
                              Xor(w[after(after(n))], w[after(after(after(n)))]))
           row(i) == <<>> \o [n \in 1..4 |-> mixed(y[i], n)]
<1>1. MixColumns(y) = <<>> \o [i \in 1..4 |-> row(i)]
  BY DEF MixColumns
<1>2. after(1) = 2 /\ after(2) = 3 /\ after(3) = 4 /\ after(4) = 1
  OBVIOUS
<1> HIDE DEF after
<1>3. ASSUME NEW i \in 1..4
      PROVE  row(i) = MixedWord(y[i])
  <2> DEFINE w == y[i]
             v == <<mixed(w, 1), mixed(w, 2), mixed(w, 3), mixed(w, 4)>>
             e == [n \in 1..4 |-> mixed(w, n)]
  <2>1. v = MixedWord(w)
    <3> HIDE DEF w
    <3> QED
      BY <1>2 DEF MixedWord
  <2> HIDE DEF w, mixed
  <2>2. <<>> \o e = v
    <3>1. e = v
      OBVIOUS
    <3>2. <<>> \o v = v
      OBVIOUS
    <3> QED
      BY <3>1, <3>2
  <2> QED
    BY <2>1, <2>2 DEF w
<1>4. [i \in 1..4 |-> row(i)] = [i \in 1..4 |-> MixedWord(y[i])]
  <2> HIDE DEF row
  <2> QED
    BY <1>3
<1> QED
  BY <1>1, <1>4

(* A round of the code is a round of the standard.                         *)
LEMMA RoundOfTheStandard ==
  ASSUME NEW key \in Square, NEW y \in Square
  PROVE  /\ Round(key, y, aes_gen_tables.FT, 1)
              = AddKey(key, MixColumns(ShiftRows(SubBytes(y))))
         /\ LastRound(key, y, aes_gen_tables.FSb, 1)
              = AddKey(key, ShiftRows(SubBytes(y)))
<1> DEFINE g == Gathered(y, 1)
           FT == aes_gen_tables.FT
           e == [i \in 1..4 |-> MixedWord(Stage(y)[i])]
           a == [i \in 1..4 |-> WordXor(key[i], Looked(FT, g[i]))]
           b == [i \in 1..4 |-> WordXor(key[i], (<<>> \o e)[i])]
<1>1. g \in Square
  BY GatheredIs
<1>2. Stage(y) \in Square /\ ShiftRows(SubBytes(y)) = Stage(y)
  BY StageIs
<1>3. MixColumns(Stage(y)) = <<>> \o e
  BY <1>2, MixColumnsAre
<1>4. Round(key, y, FT, 1) = <<>> \o a
  BY DEF Round
<1>5. AddKey(key, <<>> \o e) = <<>> \o b
  BY DEF AddKey
<1> HIDE DEF g
<1>6. ASSUME NEW i \in 1..4
      PROVE  e[i] = Looked(FT, g[i]) /\ e[i] \in Word
  <2>1. g[i] \in Word
    BY <1>1, SquareIs
  <2>2. Looked(FT, g[i]) = MixedWord(Sub(g[i])) /\ Looked(FT, g[i]) \in Word
    BY <2>1, ColumnsMix, ColumnsAre DEF Columns
  <2>3. Stage(y)[i] = Sub(g[i])
    BY <1>1, BoxedIs DEF Stage, g
  <2> HIDE DEF FT
  <2> QED
    BY <2>2, <2>3
<1>7. e = [i \in 1..4 |-> e[i]]
  OBVIOUS
<1> HIDE DEF e, FT
<1>8. \A i \in 1..4 : (<<>> \o e)[i] = e[i]
  BY <1>6, <1>7, SquareOf
<1>9. a = b
  BY <1>6, <1>8
<1>10. Round(key, y, FT, 1) = AddKey(key, MixColumns(ShiftRows(SubBytes(y))))
  BY <1>2, <1>3, <1>4, <1>5, <1>9
<1>11. LastRound(key, y, aes_gen_tables.FSb, 1) = AddKey(key, ShiftRows(SubBytes(y)))
  BY <1>2, LastRoundIs
<1> QED
  BY <1>10, <1>11 DEF FT

-----------------------------------------------------------------------------
(* The states of a key, and of a block under it, through the loops of      *)
(* aes.c.  A key has been grown to a whole schedule;                       *)
WholeKey(SK) == GrownTo(SK, k, Turns(k) + 1)
Plain == WordsOf(job.plain)

(* while it grows;                                                         *)
Expanding ==
  /\ round \in 0..Turns(k) /\ GrownTo(rk, k, round + 1)
  /\ block = Plain

(* while the block is enciphered, what its rounds have left;               *)
Enciphering ==
  /\ round \in 0..nr(k) /\ WholeKey(rk)
  /\ \E s : /\ CryptRounds(rk, s, Plain, round)
            /\ block = IF round = 0 THEN Plain ELSE s[round - 1]

(* what the last leaves;                                                   *)
EncryptedBy(SK, s) ==
  /\ Schedule(SK, nr(k)) /\ CryptRounds(SK, s, Plain, nr(k))
LastWritten(SK, s) == LastRound(KeyAt(SK, nr(k)), s[nr(k) - 1], aes_gen_tables.FSb, 1)
Inverting == \E s : EncryptedBy(rk, s) /\ block = LastWritten(rk, s)

(* and while it is deciphered, the stages of those rounds from the last.   *)
Deciphering ==
  /\ round \in 0..nr(k)
  /\ \E SK, s : /\ EncryptedBy(SK, s) /\ rk = Reversed(SK, nr(k))
                /\ block = IF round = 0 THEN LastWritten(SK, s) ELSE Stage(s[nr(k) - round])

AesInv ==
  /\ phase \in Phases
  /\ phase # "idle" => job \in Jobs
  /\ phase = "expand" => Expanding
  /\ phase = "encrypt" => Enciphering
  /\ phase = "invert" => Inverting
  /\ phase = "decrypt" => Deciphering
  /\ DecryptsItsOwn

(* The keys and blocks that are given.                                     *)
LEMMA JobIs ==
  ASSUME job \in Jobs
  PROVE  /\ k \in {4, 6, 8} /\ Turns(k) \in 7..10 /\ nr(k) \in 10..14
         /\ Len(job.key) = 4 * k
         /\ k * (Turns(k) + 1) >= (4 * nr(k)) + 4 /\ Turns(k) + 1 \in 1..11
         /\ Str(job.key, 4 * k) /\ Str(job.plain, 16)
         /\ Plain \in Square /\ BytesOf(Plain) = job.plain
<1>1. /\ job.key \in Seq(Byte) /\ Len(job.key) \in {16, 24, 32}
      /\ job.plain \in Seq(Byte) /\ Len(job.plain) = 16
  BY JobsAssumption
<1>2. k \in {4, 6, 8} /\ Len(job.key) = 4 * k
  <2>1. CASE Len(job.key) = 16
    BY <2>1 DEF k
  <2>2. CASE Len(job.key) = 24
    BY <2>2 DEF k
  <2>3. CASE Len(job.key) = 32
    BY <2>3 DEF k
  <2> QED
    BY <1>1, <2>1, <2>2, <2>3
<1>3. /\ Turns(k) \in 7..10 /\ nr(k) \in 10..14 /\ Turns(k) + 1 \in 1..11
      /\ k * (Turns(k) + 1) >= (4 * nr(k)) + 4
  <2>1. CASE k = 4
    BY <2>1 DEF Turns, nr
  <2>2. CASE k = 6
    BY <2>2 DEF Turns, nr
  <2>3. CASE k = 8
    BY <2>3 DEF Turns, nr
  <2> QED
    BY <1>2, <2>1, <2>2, <2>3
<1>4. Str(job.key, 4 * k) /\ Str(job.plain, 16)
  BY <1>1, <1>2 DEF Str
<1>5. Plain \in Square /\ BytesOf(Plain) = job.plain
  BY <1>4, BytesBack DEF Plain
<1> QED
  BY <1>2, <1>3, <1>4, <1>5

(* A whole key has a key for every round.                                  *)
LEMMA WholeKeyIs ==
  ASSUME job \in Jobs, NEW SK, WholeKey(SK)
  PROVE  Schedule(SK, nr(k))
  BY JobIs DEF WholeKey, Schedule, GrownTo, Grown

(* The machine begins with the words of the key and of the block.          *)
LEMMA AesBegins == Init => AesInv
<1> SUFFICES ASSUME Init PROVE AesInv
  OBVIOUS
<1>1. CASE AesInit
  <2>1. /\ job \in Jobs /\ phase = "expand" /\ rk = WordsOf(job.key) /\ round = 0
        /\ block = WordsOf(job.plain)
    BY <1>1 DEF AesInit
  <2>2. /\ k \in {4, 6, 8} /\ Turns(k) \in 7..10 /\ Str(job.key, 4 * k)
    BY <2>1, JobIs
  <2> DEFINE c == k
             n == 4 * c
             v == job.key
  <2>3. c \in Nat /\ Str(v, n) /\ n = 4 * c
    BY <2>2
  <2> HIDE DEF c, n, v
  <2>4. WordsOf(v) \in Seq(Word) /\ Len(WordsOf(v)) = c
    BY <2>3, WordsSpelled
  <2>5. rk \in Seq(Word) /\ Len(rk) = k
    BY <2>1, <2>4 DEF v, c
  <2>6. Grown(rk, k)
    <3>1. (k + 1)..Len(rk) = {}
      BY <2>2, <2>5
    <3> QED
      BY <2>5, <3>1 DEF Grown
  <2>7. k * (0 + 1) = k /\ 0 \in 0..Turns(k)
    BY <2>2
  <2>8. Expanding
    BY <2>1, <2>5, <2>6, <2>7 DEF Expanding, GrownTo, Plain
  <2> QED
    BY <2>1, <2>8 DEF AesInv, Phases, DecryptsItsOwn
<1>2. CASE AesIdle
  <2>1. phase = "idle"
    BY <1>2 DEF AesIdle
  <2> QED
    BY <2>1 DEF AesInv, Phases, DecryptsItsOwn
<1> QED
  BY <1>1, <1>2 DEF Init

(* Only its own steps change it.                                           *)
LEMMA AesSteps ==
  ASSUME [Next]_algVars
  PROVE  AesNext \/ UNCHANGED aesVars
  BY DEF Next, algVars, Returns, Arithmetic, Scramble, DeriveKeys, Chain, Seal,
     CryptSectors, SecureArea, Move, HandOver, FindParams, PatchSleep, Hook

(* Every step of its loops keeps what they have left.                      *)
LEMMA ExpandKeeps ==
  ASSUME AesInv, ExpandKey
  PROVE  AesInv'
<1>1. /\ phase = "expand" /\ job' = job /\ job \in Jobs /\ Expanding
  BY DEF ExpandKey, AesInv
<1>2. k' = k /\ Plain' = Plain
  BY <1>1 DEF k, Plain
<1>3. k \in {4, 6, 8} /\ Turns(k) \in 7..10 /\ nr(k) \in 10..14 /\ Plain \in Square
  BY <1>1, JobIs
<1>4. round \in 0..Turns(k) /\ GrownTo(rk, k, round + 1) /\ block = Plain
  BY <1>1 DEF Expanding
<1>5. CASE round < Turns(k)
  <2> DEFINE c == k
             q == round + 1
  <2>1. /\ rk' = AfterTurn(rk, c, q) /\ round' = q /\ phase' = "expand" /\ block' = block
    BY <1>1, <1>5 DEF ExpandKey, AfterTurn
  <2>2. c \in {4, 6, 8} /\ q \in 1..10 /\ GrownTo(rk, c, q)
    BY <1>3, <1>4, <1>5
  <2>3. q \in 0..Turns(k)
    BY <1>3, <1>4, <1>5
  <2> HIDE DEF c, q
  <2>4. GrownTo(rk', c, q + 1)
    BY <2>1, <2>2, KeyGrows
  <2>5. Expanding'
    BY <1>2, <1>4, <2>1, <2>3, <2>4 DEF Expanding, c
  <2> QED
    BY <1>1, <2>1, <2>5 DEF AesInv, DecryptsItsOwn, Phases
<1>6. CASE ~(round < Turns(k))
  <2>1. /\ phase' = "encrypt" /\ round' = 0 /\ rk' = rk /\ block' = block
    BY <1>1, <1>6 DEF ExpandKey
  <2>2. round = Turns(k)
    BY <1>3, <1>4, <1>6
  <2>3. WholeKey(rk)
    BY <1>4, <2>2 DEF WholeKey
  <2>4. WholeKey(rk)'
    BY <1>2, <2>1, <2>3 DEF WholeKey
  <2>5. CryptRounds(rk, [i \in 0..14 |-> Plain], Plain, 0)
    <3>1. [i \in 0..14 |-> Plain] \in [0..14 -> Square]
      BY <1>3
    <3>2. \A r \in 1..14 : ~(r < 0)
      OBVIOUS
    <3> QED
      BY <3>1, <3>2 DEF CryptRounds
  <2>6. \E s : CryptRounds(rk', s, Plain', round')
    BY <1>2, <2>1, <2>5
  <2>7. 0 \in 0..nr(k)
    BY <1>3
  <2>8. Enciphering'
    BY <1>2, <1>4, <2>1, <2>4, <2>6, <2>7 DEF Enciphering
  <2> QED
    BY <1>1, <2>1, <2>8 DEF AesInv, DecryptsItsOwn, Phases
<1> QED
  BY <1>5, <1>6

(* A round of encryption: the first adds a key, the last is the short one. *)
LEMMA EncryptKeeps ==
  ASSUME AesInv, Encrypt
  PROVE  AesInv'
<1>1. phase = "encrypt" /\ job' = job /\ rk' = rk /\ job \in Jobs /\ Enciphering
  BY DEF Encrypt, Crypt, AesInv
<1>2. k' = k /\ Plain' = Plain /\ nr(k)' = nr(k) /\ Turns(k)' = Turns(k)
  BY <1>1 DEF k, Plain, nr, Turns
<1> DEFINE n == nr(k)
<1>3. n \in 10..14 /\ Plain \in Square
  BY <1>1, JobIs
<1>4. round \in 0..n /\ WholeKey(rk)
  BY <1>1 DEF Enciphering
<1>5. PICK s : /\ CryptRounds(rk, s, Plain, round)
               /\ block = IF round = 0 THEN Plain ELSE s[round - 1]
  BY <1>1 DEF Enciphering
<1>6. Schedule(rk, n)
  BY <1>1, <1>4, WholeKeyIs
<1>7. RoundKey = KeyAt(rk, round)
  BY <1>4, <1>6, KeyAtIs DEF RoundKey
<1>8. CASE round < n
  <2> DEFINE z == IF round = 0 THEN AddKey(KeyAt(rk, 0), Plain)
                  ELSE Round(KeyAt(rk, round), s[round - 1], aes_gen_tables.FT, 1)
  <2>1. phase' = "encrypt" /\ round' = round + 1
    BY <1>1, <1>3, <1>4, <1>8 DEF Encrypt, Crypt
  <2>2. block' = CASE round = 0 -> AddKey(RoundKey, block)
                   [] round = n -> LastRound(RoundKey, block, aes_gen_tables.FSb, 1)
                   [] OTHER -> Round(RoundKey, block, aes_gen_tables.FT, 1)
    BY DEF Encrypt, Crypt
  <2>3. round # n
    BY <1>3, <1>4, <1>8
  <2>4. block' = z
    <3> HIDE DEF n
    <3>1. CASE round = 0
      <4>1. block' = AddKey(RoundKey, block)
        BY <2>2, <2>3, <3>1
      <4>2. RoundKey = KeyAt(rk, 0) /\ block = Plain
        BY <1>5, <1>7, <3>1
      <4> QED
        BY <3>1, <4>1, <4>2
    <3>2. CASE round # 0
      <4>1. block' = Round(RoundKey, block, aes_gen_tables.FT, 1)
        BY <2>2, <2>3, <3>2
      <4>2. block = s[round - 1]
        BY <1>5, <3>2
      <4> QED
        BY <1>7, <3>2, <4>1, <4>2
    <3> QED
      BY <3>1, <3>2
  <2>5. round \in 0..(n - 1) /\ n \in 1..14 /\ round + 1 \in 0..n /\ (round + 1) - 1 = round
        /\ round + 1 # 0
    BY <1>3, <1>4, <1>8
  <2>6. \E t : CryptRounds(rk, t, Plain, round + 1) /\ t[round] = NextRound(rk, s, Plain, round)
    <3> HIDE DEF n
    <3> QED
      BY <1>3, <1>5, <1>6, <2>5, RoundsGoOn
  <2>7. PICK t : CryptRounds(rk, t, Plain, round + 1) /\ t[round] = z
    BY <2>6 DEF NextRound
  <2>8. CryptRounds(rk', t, Plain', round')
    BY <1>1, <1>2, <2>1, <2>7
  <2>9. block' = IF round' = 0 THEN Plain' ELSE t[round' - 1]
    BY <2>1, <2>4, <2>5, <2>7
  <2>10. WholeKey(rk)'
    BY <1>1, <1>2, <1>4 DEF WholeKey
  <2>11. Enciphering'
    BY <1>2, <2>1, <2>5, <2>8, <2>9, <2>10 DEF Enciphering
  <2> QED
    BY <1>1, <2>1, <2>11 DEF AesInv, DecryptsItsOwn, Phases
<1>9. CASE ~(round < n)
  <2>1. round = n /\ round # 0
    BY <1>3, <1>4, <1>9
  <2>2. phase' = "invert"
    BY <2>1 DEF Encrypt, Crypt
  <2>3. block' = LastRound(RoundKey, block, aes_gen_tables.FSb, 1)
    BY <2>1 DEF Encrypt, Crypt
  <2>4. block' = LastRound(KeyAt(rk, n), s[n - 1], aes_gen_tables.FSb, 1)
    BY <1>5, <1>7, <2>1, <2>3
  <2>5. EncryptedBy(rk, s)
    BY <1>5, <1>6, <2>1 DEF EncryptedBy
  <2>6. EncryptedBy(rk, s)'
    BY <1>1, <1>2, <2>5 DEF EncryptedBy
  <2>7. block' = LastWritten(rk, s)'
    BY <1>1, <1>2, <2>4 DEF LastWritten
  <2>8. Inverting'
    BY <2>6, <2>7 DEF Inverting
  <2> QED
    BY <1>1, <2>2, <2>8 DEF AesInv, DecryptsItsOwn, Phases
<1> QED
  BY <1>8, <1>9

(* The schedule is turned around.                                          *)
LEMMA InvertKeeps ==
  ASSUME AesInv, InvertKey
  PROVE  AesInv'
<1>1. /\ phase = "invert" /\ job' = job /\ job \in Jobs /\ Inverting
      /\ phase' = "decrypt" /\ round' = 0 /\ block' = block /\ rk' = Reversed(rk, nr(k))
  BY DEF InvertKey, AesInv
<1>2. k' = k /\ Plain' = Plain /\ nr(k)' = nr(k)
  BY <1>1 DEF k, Plain, nr
<1>3. PICK s : EncryptedBy(rk, s) /\ block = LastWritten(rk, s)
  BY <1>1 DEF Inverting
<1> DEFINE SK == rk
<1>4. EncryptedBy(SK, s) /\ block' = LastWritten(SK, s) /\ rk' = Reversed(SK, nr(k))
  BY <1>1, <1>3
<1>5. \E S, t : /\ Schedule(S, nr(k)) /\ CryptRounds(S, t, Plain, nr(k)) /\ rk' = Reversed(S, nr(k))
                /\ block' = LastRound(KeyAt(S, nr(k)), t[nr(k) - 1], aes_gen_tables.FSb, 1)
  BY <1>4 DEF EncryptedBy, LastWritten
<1>6. nr(k) \in 10..14
  BY <1>1, JobIs
<1>7. 0 \in 0..nr(k)
  BY <1>6
<1>8. Deciphering'
  BY <1>1, <1>2, <1>5, <1>7 DEF Deciphering, EncryptedBy, LastWritten
<1> QED
  BY <1>1, <1>8 DEF AesInv, DecryptsItsOwn, Phases

(* A round of decryption takes back one of encryption.                     *)
LEMMA DecryptKeeps ==
  ASSUME AesInv, Decrypt
  PROVE  AesInv'
<1>1. phase = "decrypt" /\ job' = job /\ rk' = rk /\ job \in Jobs /\ Deciphering
  BY DEF Decrypt, Crypt, AesInv
<1>2. k' = k /\ Plain' = Plain /\ nr(k)' = nr(k)
  BY <1>1 DEF k, Plain, nr
<1> DEFINE n == nr(k)
<1>3. n \in 10..14 /\ n \in 2..14 /\ Plain \in Square /\ BytesOf(Plain) = job.plain
  BY <1>1, JobIs
<1>4. round \in 0..n
  BY <1>1 DEF Deciphering
<1>5. PICK SK, s : /\ EncryptedBy(SK, s) /\ rk = Reversed(SK, n)
                   /\ block = IF round = 0 THEN LastWritten(SK, s) ELSE Stage(s[n - round])
  BY <1>1 DEF Deciphering
<1>6. Schedule(SK, n) /\ CryptRounds(SK, s, Plain, n)
  BY <1>5 DEF EncryptedBy
<1>7. Schedule(rk, n)
  <2> HIDE DEF n
  <2> QED
    BY <1>5, <1>6, ReversedIs
<1>8. RoundKey = KeyAt(rk, round)
  BY <1>4, <1>7, KeyAtIs DEF RoundKey
<1>9. /\ AddKey(KeyAt(rk, 0), LastWritten(SK, s)) = Stage(s[n - 1])
      /\ \A r \in 1..(n - 1) :
           Round(KeyAt(rk, r), Stage(s[n - r]), aes_gen_tables.RT, 3) = Stage(s[(n - r) - 1])
      /\ LastRound(KeyAt(rk, n), Stage(s[0]), aes_gen_tables.RSb, 3) = Plain
  <2> DEFINE last == LastRound(KeyAt(SK, n), s[n - 1], aes_gen_tables.FSb, 1)
  <2>1. last = LastWritten(SK, s)
    BY DEF LastWritten
  <2> HIDE DEF n
  <2>2. /\ AddKey(KeyAt(Reversed(SK, n), 0), last) = Stage(s[n - 1])
        /\ \A r \in 1..(n - 1) :
             Round(KeyAt(Reversed(SK, n), r), Stage(s[n - r]), aes_gen_tables.RT, 3)
               = Stage(s[(n - r) - 1])
        /\ LastRound(KeyAt(Reversed(SK, n), n), Stage(s[0]), aes_gen_tables.RSb, 3) = Plain
    BY <1>3, <1>6, RoundsUndone
  <2> HIDE DEF last
  <2> QED
    BY <1>5, <2>1, <2>2
<1>10. block' = CASE round = 0 -> AddKey(RoundKey, block)
                  [] round = n -> LastRound(RoundKey, block, aes_gen_tables.RSb, 3)
                  [] OTHER -> Round(RoundKey, block, aes_gen_tables.RT, 3)
  BY DEF Decrypt, Crypt
<1>11. CASE round < n
  <2>1. phase' = "decrypt" /\ round' = round + 1
    BY <1>1, <1>3, <1>4, <1>11 DEF Decrypt, Crypt
  <2>2. round # n /\ round + 1 \in 0..n /\ round + 1 # 0 /\ n - (round + 1) = (n - round) - 1
    BY <1>3, <1>4, <1>11
  <2>3. block' = Stage(s[(n - round) - 1])
    <3>1. CASE round = 0
      <4>1. (n - round) - 1 = n - 1
        BY <1>3, <3>1
      <4>2. block' = AddKey(RoundKey, block)
        BY <1>10, <2>2, <3>1
      <4> QED
        BY <1>5, <1>8, <1>9, <3>1, <4>1, <4>2
    <3>2. CASE round # 0
      <4>1. round \in 1..(n - 1)
        BY <1>3, <1>4, <1>11, <3>2
      <4> HIDE DEF n
      <4>2. block' = Round(RoundKey, block, aes_gen_tables.RT, 3)
        BY <1>10, <2>2, <3>2
      <4> QED
        BY <1>5, <1>8, <1>9, <3>2, <4>1, <4>2
    <3> QED
      BY <3>1, <3>2
  <2>4. block' = Stage(s[n - round'])
    BY <2>1, <2>2, <2>3
  <2>5. \E S, t : /\ Schedule(S, n) /\ CryptRounds(S, t, Plain, n) /\ rk' = Reversed(S, n)
                  /\ block' = Stage(t[n - round'])
    BY <1>1, <1>5, <1>6, <2>4
  <2>6. Deciphering'
    BY <1>2, <2>1, <2>2, <2>5 DEF Deciphering, EncryptedBy
  <2> QED
    BY <1>1, <2>1, <2>6 DEF AesInv, DecryptsItsOwn, Phases
<1>12. CASE ~(round < n)
  <2>1. round = n /\ round # 0 /\ n - round = 0
    BY <1>3, <1>4, <1>12
  <2>2. phase' = "done"
    BY <2>1 DEF Decrypt, Crypt
  <2>3. block' = LastRound(RoundKey, block, aes_gen_tables.RSb, 3)
    BY <1>10, <2>1
  <2>4. block = Stage(s[0])
    BY <1>5, <2>1
  <2>5. block' = Plain
    BY <1>8, <1>9, <2>1, <2>3, <2>4
  <2>6. BytesOf(block') = job'.plain
    BY <1>1, <1>3, <2>5
  <2> QED
    BY <1>1, <2>2, <2>6 DEF AesInv, DecryptsItsOwn, Phases
<1> QED
  BY <1>11, <1>12

(* And so does any step of the program.                                    *)
LEMMA AesKeeps ==
  ASSUME AesInv, [Next]_algVars
  PROVE  AesInv'
<1>1. CASE UNCHANGED aesVars
  <2>1. job' = job /\ phase' = phase /\ rk' = rk /\ round' = round /\ block' = block
    BY <1>1 DEF aesVars
  <2>2. k' = k /\ Plain' = Plain
    BY <2>1 DEF k, Plain
  <2>3. Expanding' = Expanding /\ Enciphering' = Enciphering
    BY <2>1, <2>2 DEF Expanding, Enciphering, WholeKey
  <2>4. Inverting' = Inverting /\ Deciphering' = Deciphering
    BY <2>1, <2>2 DEF Inverting, Deciphering, EncryptedBy, LastWritten
  <2> QED
    BY <2>1, <2>3, <2>4 DEF AesInv, DecryptsItsOwn
<1> QED
  BY <1>1, AesSteps, ExpandKeeps, EncryptKeeps, InvertKeeps, DecryptKeeps DEF AesNext

(* What aes.c encrypts under any key it decrypts to what it was: its       *)
(* rounds are undone from the last, each under its key from the other end, *)
(* for every key of 16, 24 or 32 bytes and every block.                    *)
THEOREM AesDecrypts == Spec => []DecryptsItsOwn
<1>1. Init => AesInv
  BY AesBegins
<1>2. AesInv /\ [Next]_algVars => AesInv'
  BY AesKeeps
<1>3. AesInv => DecryptsItsOwn
  BY DEF AesInv
<1> QED
  BY <1>1, <1>2, <1>3, PTL DEF Spec

(* The schedule it has grown is that of the standard.                      *)
LEMMA ExpandedIs ==
  ASSUME job \in Jobs, WholeKey(rk)
  PROVE  Expanded(rk)
<1>1. k \in {4, 6, 8} /\ nr(k) \in 10..14 /\ k * (Turns(k) + 1) >= (4 * nr(k)) + 4
  BY JobIs
<1>2. rk \in Seq(Word) /\ Len(rk) >= (4 * nr(k)) + 4 /\ Grown(rk, k)
  BY <1>1 DEF WholeKey, GrownTo, Grown
<1> DEFINE temp(i) ==
             LET before == rk[i - 1]
                 substituted == SubBytes(<<before, before, before, before>>)[1]
             IN CASE (i - 1) % k = 0 ->
                       WordXor(<<substituted[2], substituted[3],
                                 substituted[4], substituted[1]>>,
                               <<RCON[(i - 1) \div k], 0, 0, 0>>)
                  [] k > 6 /\ (i - 1) % k = 4 -> substituted
                  [] OTHER -> before
<1>3. ASSUME NEW i \in (k + 1)..(4 * (nr(k) + 1))
      PROVE  rk[i] = WordXor(rk[i - k], temp(i))
  <2> DEFINE b == rk[i - 1]
             four == <<b, b, b, b>>
             x == Sub(b)
  <2>1. i - 1 \in 1..Len(rk) /\ i \in (k + 1)..Len(rk)
    BY <1>1, <1>2
  <2>2. b \in Word
    BY <1>2, <2>1
  <2>3. four \in Square /\ four[1] = b
    BY <2>2, SquareMade
  <2>4. SubBytes(four)[1] = x
    <3> HIDE DEF four, b
    <3>1. SubBytes(four) = Boxed(four) /\ Boxed(four)[1] = Sub(four[1])
      BY <2>3, SubBytesIs, BoxedIs
    <3> QED
      BY <2>3, <3>1
  <2>5. SubRotated(b) = <<x[2], x[3], x[4], x[1]>>
    <3> DEFINE t == <<b[2], b[3], b[4], b[1]>>
               v == Sub(t)
    <3>1. t \in Word
      BY <2>2, WordIs, WordMade
    <3>2. /\ t[1] = b[2] /\ t[2] = b[3] /\ t[3] = b[4] /\ t[4] = b[1]
      OBVIOUS
    <3>3. SubRotated(b) = v
      BY DEF SubRotated
    <3> HIDE DEF t, b
    <3>4. v = <<v[1], v[2], v[3], v[4]>>
      BY <3>1, SubIs, WordIs
    <3>5. \A m \in 1..4 : v[m] = At(aes_gen_tables.FSb, t[m]) /\ x[m] = At(aes_gen_tables.FSb, b[m])
      BY <2>2, <3>1, SubIs
    <3> QED
      BY <3>2, <3>3, <3>4, <3>5
  <2>6. Follows(rk, k, i)
    BY <1>2, <2>1 DEF Grown
  <2>7. rk[i] = WordXor(rk[i - k],
                  CASE (i - 1) % k = 0 -> WordXor(SubRotated(b), <<RCON[(i - 1) \div k], 0, 0, 0>>)
                    [] k > 6 /\ (i - 1) % k = 4 -> x
                    [] OTHER -> b)
    BY <2>6 DEF Follows
  <2>8. temp(i) = CASE (i - 1) % k = 0 -> WordXor(<<x[2], x[3], x[4], x[1]>>,
                                                  <<RCON[(i - 1) \div k], 0, 0, 0>>)
                    [] k > 6 /\ (i - 1) % k = 4 -> x
                    [] OTHER -> b
    BY <2>4
  <2> HIDE DEF temp, x, b
  <2> QED
    BY <2>5, <2>7, <2>8
<1> QED
  BY <1>3 DEF Expanded

(* The code is the standard: the key it encrypts with is the key expanded, *)
(* and each of its rounds, taken from tables, is SubBytes, ShiftRows,      *)
(* MixColumns and AddRoundKey (aes_setkey_enc, AES_FROUND).                *)
THEOREM AesOfTheStandard == Spec => CipherOfTheStandard
<1> DEFINE Standard ==
             /\ phase = "encrypt" /\ round = 0 => Expanded(rk)
             /\ phase = "encrypt" /\ round > 0 =>
                  block' = LET shifted == ShiftRows(SubBytes(block))
                           IN AddKey(RoundKey, IF round = nr(k) THEN shifted
                                               ELSE MixColumns(shifted))
<1>1. Init => AesInv
  BY AesBegins
<1>2. AesInv /\ [Next]_algVars => AesInv'
  BY AesKeeps
<1>3. AesInv /\ [Next]_algVars => [Standard]_aesVars
  <2> SUFFICES ASSUME AesInv, AesNext PROVE Standard
    BY AesSteps
  <2>1. CASE phase # "encrypt"
    BY <2>1
  <2>2. CASE phase = "encrypt"
    <3>1. Encrypt
      BY <2>2 DEF AesNext, ExpandKey, InvertKey, Decrypt, Crypt
    <3>2. job \in Jobs /\ Enciphering
      BY <2>2 DEF AesInv
    <3>3. round \in 0..nr(k) /\ WholeKey(rk) /\ nr(k) \in 10..14
      BY <3>2, JobIs DEF Enciphering
    <3>4. Expanded(rk)
      BY <3>2, <3>3, ExpandedIs
    <3>5. ASSUME round > 0
          PROVE  block' = LET shifted == ShiftRows(SubBytes(block))
                          IN AddKey(RoundKey, IF round = nr(k) THEN shifted
                                              ELSE MixColumns(shifted))
      <4>1. PICK s : CryptRounds(rk, s, Plain, round) /\ block = s[round - 1]
        BY <3>2, <3>5 DEF Enciphering
      <4>2. block \in Square
        <5>1. round - 1 \in 0..14
          BY <3>3, <3>5
        <5> QED
          BY <4>1, <5>1 DEF CryptRounds
      <4>3. RoundKey \in Square
        <5>1. Schedule(rk, nr(k))
          BY <3>2, <3>3, WholeKeyIs
        <5> QED
          BY <3>3, <5>1, KeyAtIs DEF RoundKey
      <4>4. block' = IF round = nr(k) THEN LastRound(RoundKey, block, aes_gen_tables.FSb, 1)
                     ELSE Round(RoundKey, block, aes_gen_tables.FT, 1)
        BY <3>1, <3>3, <3>5 DEF Encrypt, Crypt
      <4> DEFINE key == RoundKey
                 y == block
                 last == round = nr(k)
      <4>5. /\ Round(key, y, aes_gen_tables.FT, 1) = AddKey(key, MixColumns(ShiftRows(SubBytes(y))))
            /\ LastRound(key, y, aes_gen_tables.FSb, 1) = AddKey(key, ShiftRows(SubBytes(y)))
        <5> HIDE DEF key, y
        <5>1. key \in Square /\ y \in Square
          BY <4>2, <4>3 DEF key, y
        <5> QED
          BY <5>1, RoundOfTheStandard
      <4>6. CASE last
        BY <4>4, <4>5, <4>6
      <4>7. CASE ~last
        BY <4>4, <4>5, <4>7
      <4> QED
        BY <4>6, <4>7
    <3> QED
      BY <3>4, <3>5
  <2> QED
    BY <2>1, <2>2
<1>4. [][Standard]_aesVars => CipherOfTheStandard
  BY DEF CipherOfTheStandard
<1> QED
  BY <1>1, <1>2, <1>3, <1>4, PTL DEF Spec
=============================================================================
