--------------------------- MODULE RdsCodingProofs ---------------------------
(***************************************************************************)
(* Lemmas about the blocks of module RdsBlocks, for every infoword and     *)
(* every offset word: the generator matrix of rds_generate_block and a     *)
(* division by the generator polynomial agree.  And, at the end, about the *)
(* clock of module RdsClock, for every time until March 2100: the formula  *)
(* of rds_generate_group_4 counts the days of the Gregorian calendar.      *)
(*                                                                         *)
(* Bit j of the remainder of a sum of powers is, modulo 2, the sum of the  *)
(* bits j of their remainders (Column).  WillRemain says what the bits of  *)
(* a block that are still to come make of a remainder.  A block starts     *)
(* with it (RemainStart), a step of the division keeps it (RemainStep),    *)
(* and at the end of the block the remainder is the offset word            *)
(* (RemainEnd).                                                            *)
(***************************************************************************)
EXTENDS RdsBlocks, RdsClock, TLAPS

\* A block has 26 bits.
Frame == 0..2^26 - 1

------------------------------------------------------------------------------
\* Numbers, bits and blocks.

\* Ten bits make a number below 2^10.
LEMMA NumberBound ==
    ASSUME NEW b \in [0..9 -> 0..1] PROVE Number(b) \in Nat /\ Number(b) < 2^10
  <1>1. \A k \in {0, 1, 2, 3, 4, 5, 6, 7, 8, 9} : b[k] \in {0, 1}
    OBVIOUS
  <1>2. b[0] + 2 * b[1] + 4 * b[2] + 8 * b[3] + 16 * b[4] \in 0..31
    BY <1>1
  <1>3. 32 * b[5] + 64 * b[6] + 128 * b[7] + 256 * b[8] + 512 * b[9] \in 0..992
    BY <1>1
  <1> QED BY <1>1, <1>2, <1>3, SMTT(30) DEF Number

\* The bits of the number that ten bits make.
LEMMA NumberBits ==
    ASSUME NEW b \in [0..9 -> 0..1]
    PROVE  \A k \in 0..9 : Bit(Number(b), k) = b[k]
  <1>1. /\ b[0] \in 0..1 /\ b[1] \in 0..1 /\ b[2] \in 0..1 /\ b[3] \in 0..1 /\ b[4] \in 0..1
        /\ b[5] \in 0..1 /\ b[6] \in 0..1 /\ b[7] \in 0..1 /\ b[8] \in 0..1 /\ b[9] \in 0..1
    OBVIOUS
  <1>2. /\ Bit(Number(b), 0) = b[0] /\ Bit(Number(b), 1) = b[1] /\ Bit(Number(b), 2) = b[2]
        /\ Bit(Number(b), 3) = b[3] /\ Bit(Number(b), 4) = b[4]
    BY <1>1 DEF Bit, Number
  <1>3. /\ Bit(Number(b), 5) = b[5] /\ Bit(Number(b), 6) = b[6] /\ Bit(Number(b), 7) = b[7]
        /\ Bit(Number(b), 8) = b[8] /\ Bit(Number(b), 9) = b[9]
    BY <1>1 DEF Bit, Number
  <1> QED BY <1>2, <1>3

\* What a shift needs to know of a power of two.
Power(n) == 2^n \in Nat \ {0} /\ 2^(n + 1) = 2 * 2^n

\* The powers of two up to the length of a block.
LEMMA Powers == \A n \in 0..25 : Power(n)
  <1>1. /\ Power(0) /\ Power(1) /\ Power(2) /\ Power(3) /\ Power(4) /\ Power(5) /\ Power(6)
        /\ Power(7) /\ Power(8) /\ Power(9) /\ Power(10) /\ Power(11) /\ Power(12)
    BY DEF Power
  <1>2. /\ Power(13) /\ Power(14) /\ Power(15) /\ Power(16) /\ Power(17) /\ Power(18)
        /\ Power(19) /\ Power(20) /\ Power(21) /\ Power(22) /\ Power(23) /\ Power(24)
        /\ Power(25)
    BY DEF Power
  <1> QED BY <1>1, <1>2

\* A bit is 0 or 1.
LEMMA BitType ==
    ASSUME NEW x \in Nat, NEW n \in 0..25 PROVE Bit(x, n) \in 0..1
  <1>1. 2^n \in Nat \ {0}
    BY Powers, Zenon DEF Power
  <1> DEFINE p == 2^n
  <1>2. p \in Nat \ {0}
    BY <1>1, Zenon
  <1> HIDE DEF p
  <1>3. (x \div p) % 2 \in 0..1
    BY <1>2
  <1> QED BY <1>3, Zenon DEF Bit, p

\* Halving: the division of x by p.
LEMMA Halves ==
    ASSUME NEW x \in Nat, NEW p \in Nat \ {0}
    PROVE  2 * (x \div (2 * p)) + ((x \div p) % 2) = x \div p
  OBVIOUS

\* A register that has the bits of x above bit n shifts in bit n.
LEMMA ShiftIn ==
    ASSUME NEW x \in Nat, NEW n \in 0..25
    PROVE  2 * (x \div 2^(n + 1)) + Bit(x, n) = x \div 2^n
  <1>1. 2^n \in Nat \ {0} /\ 2^(n + 1) = 2 * 2^n
    BY Powers, Zenon DEF Power
  <1>2. 2 * (x \div (2 * 2^n)) + ((x \div 2^n) % 2) = x \div 2^n
    BY <1>1, Halves, Zenon
  <1> QED BY <1>1, <1>2, Zenon DEF Bit

\* The rows of the generator matrix that the bits of an infoword select: bits number k.
Selected(info, k) == [i \in 0..15 |-> Bit(info, i) * Bit(G[i + 1], k)]

\* A sum of integers is an integer.
LEMMA SumType ==
    ASSUME NEW a, \A i \in 0..15 : a[i] \in Int PROVE Sum(a) \in Int
  <1>1. /\ a[0] \in Int /\ a[1] \in Int /\ a[2] \in Int /\ a[3] \in Int /\ a[4] \in Int
        /\ a[5] \in Int /\ a[6] \in Int /\ a[7] \in Int /\ a[8] \in Int /\ a[9] \in Int
        /\ a[10] \in Int /\ a[11] \in Int /\ a[12] \in Int /\ a[13] \in Int /\ a[14] \in Int
        /\ a[15] \in Int
    OBVIOUS
  <1> QED BY <1>1 DEF Sum

\* The digits of the checkword before they are taken modulo 2.
LEMMA DigitType ==
    ASSUME NEW info \in Word, NEW offset \in Nat, NEW k \in 0..9
    PROVE  Bit(offset, k) \in 0..1 /\ Sum(Selected(info, k)) \in Int
  <1>1. info \in Nat /\ k \in 0..25 /\ \A i \in 0..15 : i \in 0..25 /\ G[i + 1] \in Nat
    BY DEF Word, G
  <1>2. ASSUME NEW i \in 0..15 PROVE Selected(info, k)[i] \in Int
    <2>1. Bit(info, i) \in 0..1 /\ Bit(G[i + 1], k) \in 0..1
      BY <1>1, BitType, Zenon
    <2>2. Selected(info, k)[i] = Bit(info, i) * Bit(G[i + 1], k)
      BY Zenon DEF Selected
    <2> QED BY <2>1, <2>2
  <1> QED BY <1>1, <1>2, BitType, SumType, Zenon

\* The digits of the checkword that rds_generate_block adds.
LEMMA CheckwordBits ==
    ASSUME NEW info \in Word, NEW offset \in Nat
    PROVE  LET c == Checkword(info, offset)
           IN /\ c \in Nat /\ c < 2^10
              /\ \A k \in 0..9 : Bit(c, k) = (Bit(offset, k) + Sum(Selected(info, k))) % 2
  <1> DEFINE b == [k \in 0..9 |-> (Bit(offset, k) + Sum(Selected(info, k))) % 2]
  <1>1. Checkword(info, offset) = Number(b)
    BY Zenon DEF Checkword, Selected
  <1>2. b \in [0..9 -> 0..1]
    <2>1. ASSUME NEW k \in 0..9 PROVE (Bit(offset, k) + Sum(Selected(info, k))) % 2 \in 0..1
      BY DigitType
    <2> QED BY <2>1
  <1>3. Number(b) \in Nat /\ Number(b) < 2^10 /\ \A k \in 0..9 : Bit(Number(b), k) = b[k]
    BY <1>2, NumberBound, NumberBits, Zenon
  <1> QED BY <1>1, <1>3, Zenon

\* A block is the infoword followed by the ten bits of the checkword.
LEMMA Parts ==
    ASSUME NEW x \in Nat, NEW c \in Nat, x < 2^16, c < 2^10
    PROVE  x * 2^10 + c \in Nat /\ x * 2^10 + c < 2^26 /\ (x * 2^10 + c) \div 2^10 = x
  OBVIOUS

\* The block of an infoword has 26 bits, and the infoword is its first 16.
LEMMA BlockParts ==
    ASSUME NEW info \in Word, NEW offset \in Nat
    PROVE  Block(info, offset) \in Frame /\ Block(info, offset) \div 2^10 = info
  <1>1. info \in Nat /\ info < 2^16
    BY DEF Word
  <1>2. Checkword(info, offset) \in Nat /\ Checkword(info, offset) < 2^10
    BY CheckwordBits, Zenon
  <1>3. /\ Block(info, offset) \in Nat /\ Block(info, offset) < 2^26
        /\ Block(info, offset) \div 2^10 = info
    BY <1>1, <1>2, Parts, Zenon DEF Block
  <1> QED BY <1>3 DEF Frame

\* A difference of two bits in a row undoes the differential coding.
LEMMA Differences ==
    ASSUME NEW w \in 0..3, NEW b \in 0..1
    PROVE  LET symbol == (w * 2 + ((b + w) % 2)) % 8
           IN /\ (symbol + (w % 2)) % 2 = b
              /\ symbol % 4 \in 0..3 /\ symbol % 2 = (symbol % 4) % 2
  OBVIOUS

------------------------------------------------------------------------------
\* Checkwords: division by g(x) leaves the offset word.

\* The remainders of x^0 to x^35 by the generator polynomial: ten powers, the rows of the
\* generator matrix, and ten more.
Rests == <<1, 2, 4, 8, 16, 32, 64, 128, 256, 512,
           441, 882, 861, 771, 959, 711, 55, 110, 220, 440, 880, 857, 779, 943, 743, 119,
           238, 476, 952, 713, 43, 86, 172, 344, 688, 217>>

\* Their bits number j.
Column(j) == [m \in 0..35 |-> Bit(Rests[m + 1], j)]

\* What a column has to do with the identity and the generator matrix, and its recurrence: the
\* polynomial is x^10 + x^8 + x^7 + x^5 + x^4 + x^3 + 1.
Recurs(c, m) == c[m + 10] = (c[m] + c[m + 3] + c[m + 4] + c[m + 5] + c[m + 7] + c[m + 8]) % 2
IsColumn(c, j) ==
    /\ c \in [0..35 -> 0..1]
    /\ \A m \in 0..9 : c[m] = IF m = j THEN 1 ELSE 0
    /\ \A i \in 0..15 : c[i + 10] = Bit(G[i + 1], j)
    /\ \A m \in 0..25 : Recurs(c, m)

\* The rows of the code's generator matrix are remainders.
LEMMA Columns == \A j \in 0..9 : IsColumn(Column(j), j)
  <1>0. IsColumn(Column(0), 0)
    BY DEF IsColumn, Column, Rests, Recurs, Bit, G
  <1>1. IsColumn(Column(1), 1)
    BY DEF IsColumn, Column, Rests, Recurs, Bit, G
  <1>2. IsColumn(Column(2), 2)
    BY DEF IsColumn, Column, Rests, Recurs, Bit, G
  <1>3. IsColumn(Column(3), 3)
    BY DEF IsColumn, Column, Rests, Recurs, Bit, G
  <1>4. IsColumn(Column(4), 4)
    BY DEF IsColumn, Column, Rests, Recurs, Bit, G
  <1>5. IsColumn(Column(5), 5)
    BY DEF IsColumn, Column, Rests, Recurs, Bit, G
  <1>6. IsColumn(Column(6), 6)
    BY DEF IsColumn, Column, Rests, Recurs, Bit, G
  <1>7. IsColumn(Column(7), 7)
    BY DEF IsColumn, Column, Rests, Recurs, Bit, G
  <1>8. IsColumn(Column(8), 8)
    BY DEF IsColumn, Column, Rests, Recurs, Bit, G
  <1>9. IsColumn(Column(9), 9)
    BY DEF IsColumn, Column, Rests, Recurs, Bit, G
  <1> QED BY <1>0, <1>1, <1>2, <1>3, <1>4, <1>5, <1>6, <1>7, <1>8, <1>9

\* A remainder with the bits r, times x^n.
Shifted(r, c, n) ==
    r[0] * c[n] + r[1] * c[n + 1] + r[2] * c[n + 2] + r[3] * c[n + 3] + r[4] * c[n + 4]
    + r[5] * c[n + 5] + r[6] * c[n + 6] + r[7] * c[n + 7] + r[8] * c[n + 8] + r[9] * c[n + 9]

\* The sum of the first n of 26 numbers.
FirstOf(f, n) ==
    (IF 0 < n THEN f[0] ELSE 0) + (IF 1 < n THEN f[1] ELSE 0) + (IF 2 < n THEN f[2] ELSE 0)
    + (IF 3 < n THEN f[3] ELSE 0) + (IF 4 < n THEN f[4] ELSE 0) + (IF 5 < n THEN f[5] ELSE 0)
    + (IF 6 < n THEN f[6] ELSE 0) + (IF 7 < n THEN f[7] ELSE 0) + (IF 8 < n THEN f[8] ELSE 0)
    + (IF 9 < n THEN f[9] ELSE 0) + (IF 10 < n THEN f[10] ELSE 0) + (IF 11 < n THEN f[11] ELSE 0)
    + (IF 12 < n THEN f[12] ELSE 0) + (IF 13 < n THEN f[13] ELSE 0) + (IF 14 < n THEN f[14] ELSE 0)
    + (IF 15 < n THEN f[15] ELSE 0) + (IF 16 < n THEN f[16] ELSE 0) + (IF 17 < n THEN f[17] ELSE 0)
    + (IF 18 < n THEN f[18] ELSE 0) + (IF 19 < n THEN f[19] ELSE 0) + (IF 20 < n THEN f[20] ELSE 0)
    + (IF 21 < n THEN f[21] ELSE 0) + (IF 22 < n THEN f[22] ELSE 0) + (IF 23 < n THEN f[23] ELSE 0)
    + (IF 24 < n THEN f[24] ELSE 0) + (IF 25 < n THEN f[25] ELSE 0)

\* One more.
LEMMA NextOf ==
    ASSUME NEW f \in [0..25 -> Int], NEW n \in 1..26
    PROVE  FirstOf(f, n) = FirstOf(f, n - 1) + f[n - 1]
  <1>1. CASE n = 1
    BY <1>1 DEF FirstOf
  <1>2. CASE n = 2
    BY <1>2 DEF FirstOf
  <1>3. CASE n = 3
    BY <1>3 DEF FirstOf
  <1>4. CASE n = 4
    BY <1>4 DEF FirstOf
  <1>5. CASE n = 5
    BY <1>5 DEF FirstOf
  <1>6. CASE n = 6
    BY <1>6 DEF FirstOf
  <1>7. CASE n = 7
    BY <1>7 DEF FirstOf
  <1>8. CASE n = 8
    BY <1>8 DEF FirstOf
  <1>9. CASE n = 9
    BY <1>9 DEF FirstOf
  <1>10. CASE n = 10
    BY <1>10 DEF FirstOf
  <1>11. CASE n = 11
    BY <1>11 DEF FirstOf
  <1>12. CASE n = 12
    BY <1>12 DEF FirstOf
  <1>13. CASE n = 13
    BY <1>13 DEF FirstOf
  <1>14. CASE n = 14
    BY <1>14 DEF FirstOf
  <1>15. CASE n = 15
    BY <1>15 DEF FirstOf
  <1>16. CASE n = 16
    BY <1>16 DEF FirstOf
  <1>17. CASE n = 17
    BY <1>17 DEF FirstOf
  <1>18. CASE n = 18
    BY <1>18 DEF FirstOf
  <1>19. CASE n = 19
    BY <1>19 DEF FirstOf
  <1>20. CASE n = 20
    BY <1>20 DEF FirstOf
  <1>21. CASE n = 21
    BY <1>21 DEF FirstOf
  <1>22. CASE n = 22
    BY <1>22 DEF FirstOf
  <1>23. CASE n = 23
    BY <1>23 DEF FirstOf
  <1>24. CASE n = 24
    BY <1>24 DEF FirstOf
  <1>25. CASE n = 25
    BY <1>25, SMTT(30) DEF FirstOf
  <1>26. CASE n = 26
    BY <1>26 DEF FirstOf
  <1> QED
    BY <1>1, <1>2, <1>3, <1>4, <1>5, <1>6, <1>7, <1>8, <1>9, <1>10, <1>11, <1>12,
       <1>13, <1>14, <1>15, <1>16, <1>17, <1>18, <1>19, <1>20, <1>21, <1>22, <1>23, <1>24,
       <1>25, <1>26

\* The bits of the remainder after one step of the division.
Stepped(s, r, b) ==
    /\ s[0] = (b + r[9]) % 2 /\ s[1] = r[0] /\ s[2] = r[1] /\ s[3] = (r[2] + r[9]) % 2
    /\ s[4] = (r[3] + r[9]) % 2 /\ s[5] = (r[4] + r[9]) % 2 /\ s[6] = r[5]
    /\ s[7] = (r[6] + r[9]) % 2 /\ s[8] = (r[7] + r[9]) % 2 /\ s[9] = r[8]

\* Adding a product of bits, or taking it away from the bit, is the same modulo 2.
LEMMA Flipped ==
    ASSUME NEW x \in 0..1, NEW y \in 0..1
    PROVE  (1 - x) * y = y - x * y /\ x * y \in 0..1
  OBVIOUS

\* Adding a bit is keeping or flipping it.
LEMMA AddedBit ==
    ASSUME NEW x \in 0..1 PROVE (x + 0) % 2 = x /\ (x + 1) % 2 = 1 - x
  OBVIOUS

\* Signs do not matter modulo 2.
LEMMA Signs ==
    ASSUME NEW x \in Int, NEW y \in Int, NEW z \in Int
    PROVE  (x + y - z) % 2 = (y + z + (x % 2)) % 2
  OBVIOUS

\* A step of the division keeps the remainder of what is still to come.
LEMMA DivisionStep ==
    ASSUME NEW c \in [0..35 -> 0..1], NEW n \in 1..26, Recurs(c, n - 1),
           NEW r \in [0..9 -> 0..1], NEW s \in [0..9 -> 0..1], NEW b \in 0..1, Stepped(s, r, b)
    PROVE  Shifted(s, c, n - 1) % 2 = (Shifted(r, c, n) + b * c[n - 1]) % 2
  <1> DEFINE q(k) == c[n - 1 + k]
             p(k) == r[k] * q(k + 1)
             bq == b * q(0)
  <1>1. /\ q(0) \in 0..1 /\ q(1) \in 0..1 /\ q(2) \in 0..1 /\ q(3) \in 0..1 /\ q(4) \in 0..1
        /\ q(5) \in 0..1 /\ q(6) \in 0..1 /\ q(7) \in 0..1 /\ q(8) \in 0..1 /\ q(9) \in 0..1
        /\ q(10) \in 0..1
    OBVIOUS
  <1>2. Shifted(s, c, n - 1)
          = s[0] * q(0) + s[1] * q(1) + s[2] * q(2) + s[3] * q(3) + s[4] * q(4)
            + s[5] * q(5) + s[6] * q(6) + s[7] * q(7) + s[8] * q(8) + s[9] * q(9)
    BY DEF Shifted
  <1>3. Shifted(r, c, n) = p(0) + p(1) + p(2) + p(3) + p(4) + p(5) + p(6) + p(7) + p(8) + p(9)
    BY DEF Shifted
  <1>4. q(10) = (q(0) + q(3) + q(4) + q(5) + q(7) + q(8)) % 2
    BY DEF Recurs
  <1>5. b * c[n - 1] = bq
    OBVIOUS
  <1> HIDE DEF q
  <1>6. /\ r[0] \in 0..1 /\ r[1] \in 0..1 /\ r[2] \in 0..1 /\ r[3] \in 0..1 /\ r[4] \in 0..1
        /\ r[5] \in 0..1 /\ r[6] \in 0..1 /\ r[7] \in 0..1 /\ r[8] \in 0..1 /\ r[9] \in 0..1
    OBVIOUS
  <1>7. /\ p(0) \in 0..1 /\ p(1) \in 0..1 /\ p(2) \in 0..1 /\ p(3) \in 0..1 /\ p(4) \in 0..1
        /\ p(5) \in 0..1 /\ p(6) \in 0..1 /\ p(7) \in 0..1 /\ p(8) \in 0..1 /\ bq \in 0..1
    BY <1>1, <1>6, Flipped
  <1>8. CASE r[9] = 0
    <2>1. /\ s[0] = b /\ s[1] = r[0] /\ s[2] = r[1] /\ s[3] = r[2] /\ s[4] = r[3] /\ s[5] = r[4]
          /\ s[6] = r[5] /\ s[7] = r[6] /\ s[8] = r[7] /\ s[9] = r[8]
      BY <1>6, <1>8, AddedBit, ZenonT(30) DEF Stepped
    <2>2. Shifted(s, c, n - 1) = bq + p(0) + p(1) + p(2) + p(3) + p(4) + p(5) + p(6) + p(7) + p(8)
      BY <1>2, <2>1
    <2>3. p(9) = 0
      BY <1>1, <1>8
    <2> HIDE DEF p, bq
    <2> QED BY <1>3, <1>5, <1>7, <2>2, <2>3
  <1>9. CASE r[9] = 1
    <2>1. /\ s[0] = 1 - b /\ s[1] = r[0] /\ s[2] = r[1] /\ s[3] = 1 - r[2] /\ s[4] = 1 - r[3]
          /\ s[5] = 1 - r[4] /\ s[6] = r[5] /\ s[7] = 1 - r[6] /\ s[8] = 1 - r[7] /\ s[9] = r[8]
      BY <1>6, <1>9, AddedBit, ZenonT(30) DEF Stepped
    <2>2. /\ s[0] * q(0) = q(0) - bq /\ s[3] * q(3) = q(3) - p(2) /\ s[4] * q(4) = q(4) - p(3)
          /\ s[5] * q(5) = q(5) - p(4) /\ s[7] * q(7) = q(7) - p(6) /\ s[8] * q(8) = q(8) - p(7)
      BY <1>1, <1>6, <2>1, Flipped
    <2>3. s[1] * q(1) = p(0) /\ s[2] * q(2) = p(1) /\ s[6] * q(6) = p(5) /\ s[9] * q(9) = p(8)
      BY <2>1
    <2>4. p(9) = q(10)
      BY <1>1, <1>9
    <2> HIDE DEF p, bq
    <2>5. Shifted(s, c, n - 1)
            = (q(0) - bq) + p(0) + p(1) + (q(3) - p(2)) + (q(4) - p(3)) + (q(5) - p(4)) + p(5)
              + (q(7) - p(6)) + (q(8) - p(7)) + p(8)
      BY <1>2, <2>2, <2>3, Zenon
    <2> DEFINE x == q(0) + q(3) + q(4) + q(5) + q(7) + q(8)
               y == p(0) + p(1) + p(5) + p(8)
               z == bq + p(2) + p(3) + p(4) + p(6) + p(7)
    <2>6. Shifted(s, c, n - 1) = x + y - z
      <3>1. /\ q(0) \in Int /\ q(3) \in Int /\ q(4) \in Int /\ q(5) \in Int /\ q(7) \in Int
            /\ q(8) \in Int
        BY <1>1
      <3>2. /\ p(0) \in Int /\ p(1) \in Int /\ p(2) \in Int /\ p(3) \in Int /\ p(4) \in Int
            /\ p(5) \in Int /\ p(6) \in Int /\ p(7) \in Int /\ p(8) \in Int /\ bq \in Int
        BY <1>7
      <3> QED BY <2>5, <3>1, <3>2
    <2>7. Shifted(r, c, n) + bq = y + z + q(10)
      BY <1>1, <1>3, <1>7, <2>4
    <2>8. x \in Int /\ y \in Int /\ z \in Int
      BY <1>1, <1>7
    <2>9. q(10) = x % 2
      BY <1>4, Zenon
    <2> HIDE DEF x, y, z
    <2>10. Shifted(r, c, n) + b * c[n - 1] = y + z + (x % 2)
      BY <1>5, <2>7, <2>9, Zenon
    <2> QED BY <2>6, <2>8, <2>10, Signs
  <1> QED BY <1>6, <1>8, <1>9
\* The first ten bits of a number.
TenBits(x) == [k \in 0..9 |-> Bit(x, k)]

\* The bits of a register that takes one more.
LEMMA ShiftedBits ==
    ASSUME NEW x \in 0..2^10 - 1, NEW b \in 0..1
    PROVE  /\ Bit(2 * x + b, 0) = b
           /\ \A k \in 1..9 : Bit(2 * x + b, k) = Bit(x, k - 1)
           /\ 2 * x + b >= 2^10 <=> Bit(x, 9) = 1
           /\ \A k \in 0..9 : Bit(x, k) \in 0..1
           /\ Bit(x, 9) = 0 => 2 * x + b < 2^10
  <1>1. /\ Bit(2 * x + b, 0) = b
        /\ Bit(2 * x + b, 1) = Bit(x, 1 - 1) /\ Bit(2 * x + b, 2) = Bit(x, 2 - 1)
        /\ Bit(2 * x + b, 3) = Bit(x, 3 - 1) /\ Bit(2 * x + b, 4) = Bit(x, 4 - 1)
    BY DEF Bit
  <1>2. /\ Bit(2 * x + b, 5) = Bit(x, 5 - 1) /\ Bit(2 * x + b, 6) = Bit(x, 6 - 1)
        /\ Bit(2 * x + b, 7) = Bit(x, 7 - 1)
    BY DEF Bit
  <1>3. Bit(2 * x + b, 8) = Bit(x, 8 - 1) /\ Bit(2 * x + b, 9) = Bit(x, 9 - 1)
    BY DEF Bit
  <1>4. (2 * x + b >= 2^10 <=> Bit(x, 9) = 1) /\ (Bit(x, 9) = 0 => 2 * x + b < 2^10)
    BY DEF Bit
  <1>5. /\ Bit(x, 0) \in 0..1 /\ Bit(x, 1) \in 0..1 /\ Bit(x, 2) \in 0..1 /\ Bit(x, 3) \in 0..1
        /\ Bit(x, 4) \in 0..1 /\ Bit(x, 5) \in 0..1 /\ Bit(x, 6) \in 0..1 /\ Bit(x, 7) \in 0..1
        /\ Bit(x, 8) \in 0..1 /\ Bit(x, 9) \in 0..1
    BY DEF Bit
  <1> QED BY <1>1, <1>2, <1>3, <1>4, <1>5

\* What the receiver's division does to the bits of the remainder.
LEMMA DividedBits ==
    ASSUME NEW rem \in 0..2^10 - 1, NEW b \in 0..1
    PROVE  /\ Divided(rem, b) \in 0..2^10 - 1
           /\ TenBits(rem) \in [0..9 -> 0..1] /\ TenBits(Divided(rem, b)) \in [0..9 -> 0..1]
           /\ Stepped(TenBits(Divided(rem, b)), TenBits(rem), b)
  <1> DEFINE sh == 2 * rem + b
             new == Divided(rem, b)
  <1>1. /\ Bit(sh, 0) = b
        /\ \A k \in 1..9 : Bit(sh, k) = Bit(rem, k - 1)
        /\ sh >= 2^10 <=> Bit(rem, 9) = 1
        /\ \A k \in 0..9 : Bit(rem, k) \in 0..1
        /\ Bit(rem, 9) = 0 => sh < 2^10
    BY ShiftedBits, Zenon
  <1>2. TenBits(rem) \in [0..9 -> 0..1]
    BY <1>1 DEF TenBits
  <1>3. sh \in Nat
    OBVIOUS
  <1> HIDE DEF sh
  <1>4. /\ Bit(sh, 1) = Bit(rem, 0) /\ Bit(sh, 2) = Bit(rem, 1) /\ Bit(sh, 3) = Bit(rem, 2)
        /\ Bit(sh, 4) = Bit(rem, 3) /\ Bit(sh, 5) = Bit(rem, 4) /\ Bit(sh, 6) = Bit(rem, 5)
        /\ Bit(sh, 7) = Bit(rem, 6) /\ Bit(sh, 8) = Bit(rem, 7) /\ Bit(sh, 9) = Bit(rem, 8)
    BY <1>1
  <1>5. CASE Bit(rem, 9) = 0
    <2>1. new = sh /\ new \in 0..2^10 - 1
      BY <1>1, <1>3, <1>5 DEF Divided, sh
    <2>2. \A k \in 0..9 : Bit(new, k) \in 0..1
      BY <2>1, ShiftedBits, Zenon
    <2>3. TenBits(new) \in [0..9 -> 0..1]
      BY <2>2 DEF TenBits
    <2>4. Stepped(TenBits(new), TenBits(rem), b)
      <3> HIDE DEF new
      <3>1. /\ Bit(new, 0) = b
            /\ Bit(new, 1) = Bit(rem, 0) /\ Bit(new, 2) = Bit(rem, 1) /\ Bit(new, 3) = Bit(rem, 2)
            /\ Bit(new, 4) = Bit(rem, 3) /\ Bit(new, 5) = Bit(rem, 4) /\ Bit(new, 6) = Bit(rem, 5)
            /\ Bit(new, 7) = Bit(rem, 6) /\ Bit(new, 8) = Bit(rem, 7) /\ Bit(new, 9) = Bit(rem, 8)
        BY <1>1, <1>4, <2>1, Zenon
      <3> QED BY <1>1, <1>5, <3>1, SMTT(30) DEF Stepped, TenBits
    <2> QED BY <1>2, <2>1, <2>3, <2>4, Zenon
  <1>6. CASE Bit(rem, 9) = 1
    <2> DEFINE d == [k \in 0..9 |-> (Bit(sh, k) + Bit(1465, k)) % 2]
    <2>1. new = Number(d)
      BY <1>1, <1>6, Zenon DEF Divided, sh
    <2>2. /\ Bit(1465, 0) = 1 /\ Bit(1465, 1) = 0 /\ Bit(1465, 2) = 0 /\ Bit(1465, 3) = 1
          /\ Bit(1465, 4) = 1 /\ Bit(1465, 5) = 1 /\ Bit(1465, 6) = 0 /\ Bit(1465, 7) = 1
          /\ Bit(1465, 8) = 1 /\ Bit(1465, 9) = 0
      BY DEF Bit
    <2>3. \A k \in 0..9 : Bit(sh, k) \in 0..1
      BY <1>1, <1>4
    <2>4. /\ d[0] = (b + 1) % 2 /\ d[1] = Bit(rem, 0) /\ d[2] = Bit(rem, 1)
          /\ d[3] = (Bit(rem, 2) + 1) % 2 /\ d[4] = (Bit(rem, 3) + 1) % 2
          /\ d[5] = (Bit(rem, 4) + 1) % 2 /\ d[6] = Bit(rem, 5) /\ d[7] = (Bit(rem, 6) + 1) % 2
          /\ d[8] = (Bit(rem, 7) + 1) % 2 /\ d[9] = Bit(rem, 8)
      BY <1>1, <1>4, <2>2
    <2>5. d \in [0..9 -> 0..1]
      <3>1. \A k \in 0..9 : Bit(1465, k) \in 0..1
        BY <2>2
      <3> QED BY <2>3, <3>1
    <2> HIDE DEF d, new
    <2>6. new \in 0..2^10 - 1 /\ \A k \in 0..9 : Bit(new, k) = d[k]
      <3>1. Number(d) \in Nat /\ Number(d) < 2^10
        BY <2>5, NumberBound, Zenon
      <3>2. \A k \in 0..9 : Bit(Number(d), k) = d[k]
        BY <2>5, NumberBits, Zenon
      <3> QED BY <2>1, <3>1, <3>2
    <2>7. TenBits(new) = d
      BY <2>5, <2>6 DEF TenBits
    <2>8. Stepped(d, TenBits(rem), b)
      BY <1>6, <2>4 DEF Stepped, TenBits
    <2> QED BY <1>2, <2>5, <2>6, <2>7, <2>8, Zenon DEF new
  <1>7. Bit(rem, 9) \in 0..1
    BY <1>1
  <1> QED BY <1>5, <1>6, <1>7
\* What the bits of a block contribute to bit j of its remainder.
Terms(B, j) == [m \in 0..25 |-> Bit(B, m) * Column(j)[m]]

\* After all but n bits of block B the remainder is rem, and offset will remain.
WillRemain(rem, n, B, offset) ==
    /\ rem \in 0..2^10 - 1
    /\ \A j \in 0..9 :
         (Shifted(TenBits(rem), Column(j), n) + FirstOf(Terms(B, j), n)) % 2 = Bit(offset, j)

\* The bits of a block.
LEMMA FrameBits ==
    ASSUME NEW B \in Frame PROVE \A m \in 0..25 : Bit(B, m) \in 0..1
  <1>1. B \in Nat
    BY DEF Frame
  <1> QED BY <1>1, BitType, Zenon

\* Every bit contributes a number.
LEMMA TermsType ==
    ASSUME NEW B \in Frame, NEW j \in 0..9 PROVE Terms(B, j) \in [0..25 -> Int]
  <1>1. \A m \in 0..25 : Bit(B, m) \in Int
    BY FrameBits
  <1>2. Column(j) \in [0..35 -> 0..1]
    BY Columns, Zenon DEF IsColumn
  <1>3. \A m \in 0..25 : Column(j)[m] \in Int
    BY <1>2
  <1> QED BY <1>1, <1>3 DEF Terms

\* So does the remainder.
LEMMA ShiftedType ==
    ASSUME NEW r \in [0..9 -> 0..1], NEW c \in [0..35 -> 0..1], NEW n \in 0..26
    PROVE  Shifted(r, c, n) \in Int
  <1>1. \A k \in 0..9 : r[k] * c[n + k] \in Int
    OBVIOUS
  <1> QED BY <1>1 DEF Shifted

\* The first numbers of 26 have a sum.
LEMMA FirstOfType ==
    ASSUME NEW f \in [0..25 -> Int], NEW n \in 0..26 PROVE FirstOf(f, n) \in Int
  <1> DEFINE g(m) == IF m < n THEN f[m] ELSE 0
  <1>1. \A m \in 0..25 : g(m) \in Int
    OBVIOUS
  <1>2. FirstOf(f, n) = g(0) + g(1) + g(2) + g(3) + g(4) + g(5) + g(6) + g(7) + g(8) + g(9)
                        + g(10) + g(11) + g(12) + g(13) + g(14) + g(15) + g(16) + g(17) + g(18)
                        + g(19) + g(20) + g(21) + g(22) + g(23) + g(24) + g(25)
    BY Zenon DEF FirstOf
  <1> HIDE DEF g
  <1>3. /\ g(0) \in Int /\ g(1) \in Int /\ g(2) \in Int /\ g(3) \in Int /\ g(4) \in Int
        /\ g(5) \in Int /\ g(6) \in Int /\ g(7) \in Int /\ g(8) \in Int /\ g(9) \in Int
        /\ g(10) \in Int /\ g(11) \in Int
        /\ g(12) \in Int /\ g(13) \in Int /\ g(14) \in Int /\ g(15) \in Int /\ g(16) \in Int
        /\ g(17) \in Int /\ g(18) \in Int /\ g(19) \in Int /\ g(20) \in Int /\ g(21) \in Int
        /\ g(22) \in Int /\ g(23) \in Int /\ g(24) \in Int /\ g(25) \in Int
    BY <1>1
  <1> QED BY <1>2, <1>3

\* What is added on both sides does not matter modulo 2.
LEMMA SumsOfBits ==
    ASSUME NEW u \in Int, NEW v \in Int, NEW w \in Int, NEW x \in Int, u % 2 = (v + x) % 2
    PROVE  (u + w) % 2 = (v + (w + x)) % 2
  OBVIOUS

\* The next bit of the block does not change what will remain.
LEMMA RemainStep ==
    ASSUME NEW B \in Frame, NEW n \in 1..26, NEW rem, NEW offset, WillRemain(rem, n, B, offset)
    PROVE  WillRemain(Divided(rem, Bit(B, n - 1)), n - 1, B, offset)
  <1> DEFINE b == Bit(B, n - 1)
             new == Divided(rem, b)
  <1>1. rem \in 0..2^10 - 1 /\ b \in 0..1 /\ n - 1 \in 0..25 /\ n - 1 \in 0..26 /\ n \in 0..26
    BY FrameBits DEF WillRemain
  <1>2. /\ new \in 0..2^10 - 1
        /\ TenBits(rem) \in [0..9 -> 0..1] /\ TenBits(new) \in [0..9 -> 0..1]
        /\ Stepped(TenBits(new), TenBits(rem), b)
    BY <1>1, DividedBits, Zenon
  <1> HIDE DEF new, b
  <1>3. ASSUME NEW j \in 0..9
        PROVE  (Shifted(TenBits(new), Column(j), n - 1) + FirstOf(Terms(B, j), n - 1)) % 2
                 = Bit(offset, j)
    <2> DEFINE c == Column(j)
               f == Terms(B, j)
    <2>1. c \in [0..35 -> 0..1] /\ Recurs(c, n - 1)
      BY <1>1, Columns, Zenon DEF IsColumn
    <2>2. f \in [0..25 -> Int]
      BY TermsType, Zenon
    <2>3. FirstOf(f, n) = FirstOf(f, n - 1) + f[n - 1]
      BY <2>2, NextOf, Zenon
    <2>4. f[n - 1] = b * c[n - 1]
      BY <1>1, Zenon DEF Terms, b
    <2> HIDE DEF c, f
    <2>5. Shifted(TenBits(new), c, n - 1) % 2 = (Shifted(TenBits(rem), c, n) + b * c[n - 1]) % 2
      BY <1>1, <1>2, <2>1, DivisionStep, Zenon
    <2>6. Shifted(TenBits(new), c, n - 1) \in Int /\ Shifted(TenBits(rem), c, n) \in Int
      BY <1>1, <1>2, <2>1, ShiftedType, Zenon
    <2>7. FirstOf(f, n - 1) \in Int /\ f[n - 1] \in Int
      BY <1>1, <2>2, FirstOfType
    <2>8. (Shifted(TenBits(new), c, n - 1) + FirstOf(f, n - 1)) % 2
            = (Shifted(TenBits(rem), c, n) + (FirstOf(f, n - 1) + f[n - 1])) % 2
      <3>1. Shifted(TenBits(new), c, n - 1) % 2 = (Shifted(TenBits(rem), c, n) + f[n - 1]) % 2
        BY <2>4, <2>5, Zenon
      <3> QED BY <2>6, <2>7, <3>1, SumsOfBits
    <2>9. (Shifted(TenBits(rem), c, n) + FirstOf(f, n)) % 2 = Bit(offset, j)
      BY Zenon DEF WillRemain, c, f
    <2> QED BY <2>3, <2>8, <2>9, Zenon DEF c, f
  <1> QED BY <1>2, <1>3, Zenon DEF WillRemain, new, b

\* Ten bits are a number.
LEMMA SameBits ==
    ASSUME NEW x \in 0..2^10 - 1, NEW y \in 0..2^10 - 1, \A j \in 0..9 : Bit(x, j) = Bit(y, j)
    PROVE  x = y
  <1>1. ASSUME NEW z \in 0..2^10 - 1
        PROVE  z = Bit(z, 0) + 2 * Bit(z, 1) + 4 * Bit(z, 2) + 8 * Bit(z, 3) + 16 * Bit(z, 4)
                   + 32 * Bit(z, 5) + 64 * Bit(z, 6) + 128 * Bit(z, 7) + 256 * Bit(z, 8)
                   + 512 * Bit(z, 9)
    <2> DEFINE q(k) == z \div 2^k
    <2>1. /\ q(0) = z /\ q(10) = 0
          /\ q(0) = 2 * q(1) + Bit(z, 0) /\ q(1) = 2 * q(2) + Bit(z, 1)
          /\ q(2) = 2 * q(3) + Bit(z, 2) /\ q(3) = 2 * q(4) + Bit(z, 3)
      BY DEF Bit
    <2>2. /\ q(4) = 2 * q(5) + Bit(z, 4) /\ q(5) = 2 * q(6) + Bit(z, 5)
          /\ q(6) = 2 * q(7) + Bit(z, 6) /\ q(7) = 2 * q(8) + Bit(z, 7)
          /\ q(8) = 2 * q(9) + Bit(z, 8) /\ q(9) = 2 * q(10) + Bit(z, 9)
      BY DEF Bit
    <2>3. /\ q(1) \in Int /\ q(2) \in Int /\ q(3) \in Int /\ q(4) \in Int /\ q(5) \in Int
          /\ q(6) \in Int /\ q(7) \in Int /\ q(8) \in Int /\ q(9) \in Int
      OBVIOUS
    <2>4. \A k \in 0..9 : Bit(z, k) \in 0..1
      <3>1. z \in Nat /\ \A k \in 0..9 : k \in 0..25
        OBVIOUS
      <3> QED BY <3>1, BitType, Zenon
    <2>5. /\ Bit(z, 0) \in Int /\ Bit(z, 1) \in Int /\ Bit(z, 2) \in Int /\ Bit(z, 3) \in Int
          /\ Bit(z, 4) \in Int /\ Bit(z, 5) \in Int /\ Bit(z, 6) \in Int /\ Bit(z, 7) \in Int
          /\ Bit(z, 8) \in Int /\ Bit(z, 9) \in Int
      BY <2>4
    <2> HIDE DEF q
    <2> QED BY <2>1, <2>2, <2>3, <2>5
  <1>2. /\ Bit(x, 0) = Bit(y, 0) /\ Bit(x, 1) = Bit(y, 1) /\ Bit(x, 2) = Bit(y, 2)
        /\ Bit(x, 3) = Bit(y, 3) /\ Bit(x, 4) = Bit(y, 4) /\ Bit(x, 5) = Bit(y, 5)
        /\ Bit(x, 6) = Bit(y, 6) /\ Bit(x, 7) = Bit(y, 7) /\ Bit(x, 8) = Bit(y, 8)
        /\ Bit(x, 9) = Bit(y, 9)
    OBVIOUS
  <1> QED BY <1>1, <1>2

\* After the last bit it remains.
LEMMA RemainEnd ==
    ASSUME NEW B \in Frame, NEW rem, NEW offset \in 0..2^10 - 1, WillRemain(rem, 0, B, offset)
    PROVE  rem = offset
  <1>1. rem \in 0..2^10 - 1
    BY Zenon DEF WillRemain
  <1>2. \A k \in 0..9 : Bit(rem, k) \in 0..1
    <2>1. rem \in Nat /\ \A k \in 0..9 : k \in 0..25
      BY <1>1
    <2> QED BY <2>1, BitType, Zenon
  <1>3. ASSUME NEW j \in 0..9 PROVE Bit(rem, j) = Bit(offset, j)
    <2> DEFINE c == Column(j)
               f == Terms(B, j)
               r == TenBits(rem)
    <2>1. \A k \in 0..9 : c[k] = IF k = j THEN 1 ELSE 0
      BY Columns, Zenon DEF IsColumn
    <2>2. f \in [0..25 -> Int]
      BY TermsType, Zenon
    <2>3. \A k \in 0..9 : r[k] = Bit(rem, k) /\ r[k] \in 0..1
      BY <1>2 DEF TenBits
    <2>4. (Shifted(r, c, 0) + FirstOf(f, 0)) % 2 = Bit(offset, j)
      BY Zenon DEF WillRemain
    <2> HIDE DEF c, f, r
    <2>5. FirstOf(f, 0) = 0
      BY DEF FirstOf
    <2>6. Shifted(r, c, 0) = r[j]
      <3>1. \A k \in 0..9 : r[k] * c[k] = IF k = j THEN r[j] ELSE 0
        BY <2>1, <2>3
      <3>2. Shifted(r, c, 0) = r[0] * c[0] + r[1] * c[1] + r[2] * c[2] + r[3] * c[3] + r[4] * c[4]
                               + r[5] * c[5] + r[6] * c[6] + r[7] * c[7] + r[8] * c[8] + r[9] * c[9]
        BY DEF Shifted
      <3>3. r[j] \in Int
        BY <2>3
      <3> QED BY <3>1, <3>2, <3>3
    <2>7. r[j] = Bit(rem, j) /\ r[j] \in 0..1
      BY <2>3
    <2> QED BY <2>4, <2>5, <2>6, <2>7
  <1> QED BY <1>1, <1>3, SameBits, Zenon

\* A multiple of p, divided by p.
LEMMA Multiple ==
    ASSUME NEW x \in Int, NEW c \in Int, NEW p \in Nat \ {0}
    PROVE  (x * p + c) \div p = x + (c \div p)
  OBVIOUS

\* Dividing in two steps.
LEMMA TwoSteps ==
    ASSUME NEW x \in Nat, NEW p \in Nat \ {0} PROVE (x \div 2^10) \div p = x \div (2^10 * p)
  OBVIOUS

\* The powers of two that divide 2^10, and its multiples.
LEMMA Factors ==
    /\ \A k \in 0..9 : 2^(9 - k) \in Nat /\ 2^10 = (2 * 2^(9 - k)) * 2^k
    /\ \A i \in 0..15 : 2^(i + 10) = 2^10 * 2^i
  <1>1. /\ 2^(9 - 0) \in Nat /\ 2^10 = (2 * 2^(9 - 0)) * 2^0
        /\ 2^(9 - 1) \in Nat /\ 2^10 = (2 * 2^(9 - 1)) * 2^1
        /\ 2^(9 - 2) \in Nat /\ 2^10 = (2 * 2^(9 - 2)) * 2^2
        /\ 2^(9 - 3) \in Nat /\ 2^10 = (2 * 2^(9 - 3)) * 2^3
        /\ 2^(9 - 4) \in Nat /\ 2^10 = (2 * 2^(9 - 4)) * 2^4
        /\ 2^(9 - 5) \in Nat /\ 2^10 = (2 * 2^(9 - 5)) * 2^5
        /\ 2^(9 - 6) \in Nat /\ 2^10 = (2 * 2^(9 - 6)) * 2^6
        /\ 2^(9 - 7) \in Nat /\ 2^10 = (2 * 2^(9 - 7)) * 2^7
        /\ 2^(9 - 8) \in Nat /\ 2^10 = (2 * 2^(9 - 8)) * 2^8
        /\ 2^(9 - 9) \in Nat /\ 2^10 = (2 * 2^(9 - 9)) * 2^9
    OBVIOUS
  <1>2. ASSUME NEW k \in 0..9 PROVE 2^(9 - k) \in Nat /\ 2^10 = (2 * 2^(9 - k)) * 2^k
    <2>1. k = 0 \/ k = 1 \/ k = 2 \/ k = 3 \/ k = 4 \/ k = 5 \/ k = 6 \/ k = 7 \/ k = 8 \/ k = 9
      OBVIOUS
    <2> QED BY <1>1, <2>1, Zenon
  <1>3. /\ 2^(0 + 10) = 2^10 * 2^0 /\ 2^(1 + 10) = 2^10 * 2^1 /\ 2^(2 + 10) = 2^10 * 2^2
        /\ 2^(3 + 10) = 2^10 * 2^3 /\ 2^(4 + 10) = 2^10 * 2^4 /\ 2^(5 + 10) = 2^10 * 2^5
        /\ 2^(6 + 10) = 2^10 * 2^6 /\ 2^(7 + 10) = 2^10 * 2^7 /\ 2^(8 + 10) = 2^10 * 2^8
        /\ 2^(9 + 10) = 2^10 * 2^9 /\ 2^(10 + 10) = 2^10 * 2^10 /\ 2^(11 + 10) = 2^10 * 2^11
        /\ 2^(12 + 10) = 2^10 * 2^12 /\ 2^(13 + 10) = 2^10 * 2^13 /\ 2^(14 + 10) = 2^10 * 2^14
        /\ 2^(15 + 10) = 2^10 * 2^15
    OBVIOUS
  <1>4. ASSUME NEW i \in 0..15 PROVE 2^(i + 10) = 2^10 * 2^i
    <2>1. \/ i = 0 \/ i = 1 \/ i = 2 \/ i = 3 \/ i = 4 \/ i = 5 \/ i = 6 \/ i = 7
          \/ i = 8 \/ i = 9 \/ i = 10 \/ i = 11 \/ i = 12 \/ i = 13 \/ i = 14 \/ i = 15
      OBVIOUS
    <2> QED BY <1>3, <2>1, Zenon
  <1> QED BY <1>2, <1>4, Zenon

\* The infoword and the checkword in the bits of a block.
LEMMA JoinedBits ==
    ASSUME NEW x \in Nat, NEW c \in Nat, x < 2^16, c < 2^10
    PROVE  /\ \A k \in 0..9 : Bit(x * 2^10 + c, k) = Bit(c, k)
           /\ \A i \in 0..15 : Bit(x * 2^10 + c, i + 10) = Bit(x, i)
  <1>1. ASSUME NEW k \in 0..9 PROVE Bit(x * 2^10 + c, k) = Bit(c, k)
    <2> DEFINE m == 2^(9 - k)
    <2>1. m \in Nat /\ 2^10 = (2 * m) * 2^k
      BY Factors, Zenon
    <2> HIDE DEF m
    <2>2. 2^k \in Nat \ {0}
      <3>1. k \in 0..25
        OBVIOUS
      <3> QED BY <3>1, Powers, Zenon DEF Power
    <2> DEFINE p == 2^k
    <2>3. p \in Nat \ {0} /\ 2^10 = (2 * m) * p
      BY <2>1, <2>2, Zenon
    <2> HIDE DEF p
    <2> DEFINE y == x * m
               z == c \div p
    <2>4. c \in Int /\ y \in Int /\ 2 * y \in Int /\ z \in Int /\ x * ((2 * m) * p) = (2 * y) * p
      BY <2>1, <2>3
    <2> HIDE DEF y
    <2>5. ((2 * y) * p + c) \div p = 2 * y + z
      BY <2>3, <2>4, Multiple, Zenon
    <2>6. (2 * y + z) % 2 = z % 2
      <3> HIDE DEF z
      <3> QED BY <2>4
    <2> QED BY <2>3, <2>4, <2>5, <2>6, Zenon DEF Bit, p
  <1>2. ASSUME NEW i \in 0..15 PROVE Bit(x * 2^10 + c, i + 10) = Bit(x, i)
    <2>1. x * 2^10 + c \in Nat /\ (x * 2^10 + c) \div 2^10 = x
      BY Parts, Zenon
    <2>2. 2^i \in Nat \ {0}
      <3>1. i \in 0..25
        OBVIOUS
      <3> QED BY <3>1, Powers, Zenon DEF Power
    <2>3. ((x * 2^10 + c) \div 2^10) \div 2^i = (x * 2^10 + c) \div (2^10 * 2^i)
      BY <2>1, <2>2, TwoSteps, Zenon
    <2> QED BY <2>1, <2>3, Factors, Zenon DEF Bit
  <1> QED BY <1>1, <1>2, Zenon

\* Twice the same rows are nothing modulo 2.
LEMMA Twice ==
    ASSUME NEW o \in 0..1, NEW s \in Int PROVE (0 + (((o + s) % 2) + s)) % 2 = o
  OBVIOUS

\* The offset word is what remains of a block.
LEMMA RemainStart ==
    ASSUME NEW info \in Word, NEW offset \in Nat
    PROVE  WillRemain(0, 26, Block(info, offset), offset)
  <1> DEFINE B == Block(info, offset)
  <1>1. /\ \A k \in 0..9 : Bit(B, k) = (Bit(offset, k) + Sum(Selected(info, k))) % 2
        /\ \A i \in 0..15 : Bit(B, i + 10) = Bit(info, i)
    <2>1. info \in Nat /\ info < 2^16
      BY DEF Word
    <2> DEFINE check == Checkword(info, offset)
    <2>2. /\ check \in Nat /\ check < 2^10
          /\ \A k \in 0..9 : Bit(check, k) = (Bit(offset, k) + Sum(Selected(info, k))) % 2
      BY CheckwordBits, Zenon
    <2> HIDE DEF check
    <2>3. /\ \A k \in 0..9 : Bit(info * 2^10 + check, k) = Bit(check, k)
          /\ \A i \in 0..15 : Bit(info * 2^10 + check, i + 10) = Bit(info, i)
      BY <2>1, <2>2, JoinedBits, Zenon
    <2> QED BY <2>2, <2>3, Zenon DEF Block, check
  <1>2. 0 \in 0..2^10 - 1
    OBVIOUS
  <1>3. ASSUME NEW j \in 0..9
        PROVE  (Shifted(TenBits(0), Column(j), 26) + FirstOf(Terms(B, j), 26)) % 2 = Bit(offset, j)
    <2> DEFINE c == Column(j)
               f == Terms(B, j)
               a == Selected(info, j)
    <2>1. /\ c \in [0..35 -> 0..1] /\ \A k \in 0..9 : c[k] = IF k = j THEN 1 ELSE 0
          /\ \A i \in 0..15 : c[i + 10] = Bit(G[i + 1], j)
      BY Columns, Zenon DEF IsColumn
    <2>2. \A i \in 0..15 : a[i] = Bit(info, i) * c[i + 10] /\ a[i] \in Int
      <3>1. info \in Nat /\ \A i \in 0..15 : i \in 0..25 /\ i + 10 \in 0..35
        BY DEF Word
      <3>2. \A i \in 0..15 : a[i] = Bit(info, i) * c[i + 10] /\ c[i + 10] \in 0..1
        BY <2>1, <3>1, Zenon DEF Selected
      <3>3. \A i \in 0..15 : Bit(info, i) \in 0..1
        BY <3>1, BitType, Zenon
      <3> HIDE DEF a, c
      <3> QED BY <3>2, <3>3
    <2>3. Bit(B, j) = (Bit(offset, j) + Sum(a)) % 2 /\ Sum(a) \in Int /\ Bit(offset, j) \in 0..1
      BY <1>1, DigitType, Zenon
    <2>4. \A k \in 0..9 : f[k] = IF k = j THEN Bit(B, j) ELSE 0
      <3>1. ASSUME NEW k \in 0..9 PROVE Bit(B, k) \in Int
        <4>1. Sum(Selected(info, k)) \in Int /\ Bit(offset, k) \in 0..1
          BY DigitType, Zenon
        <4> HIDE DEF B
        <4> QED BY <1>1, <4>1
      <3>2. ASSUME NEW k \in 0..9 PROVE f[k] = Bit(B, k) * c[k]
        <4>1. k \in 0..25
          OBVIOUS
        <4> QED BY <4>1, Zenon DEF Terms
      <3> HIDE DEF B, c, f
      <3> QED BY <2>1, <3>1, <3>2
    <2>5. \A i \in 0..15 : f[i + 10] = a[i]
      <3>1. ASSUME NEW i \in 0..15 PROVE f[i + 10] = Bit(B, i + 10) * c[i + 10]
        <4>1. i + 10 \in 0..25
          OBVIOUS
        <4> QED BY <4>1, Zenon DEF Terms
      <3> QED BY <1>1, <2>2, <3>1, Zenon
    <2>6. TenBits(0) = [k \in 0..9 |-> 0]
      <3>1. /\ Bit(0, 0) = 0 /\ Bit(0, 1) = 0 /\ Bit(0, 2) = 0 /\ Bit(0, 3) = 0 /\ Bit(0, 4) = 0
            /\ Bit(0, 5) = 0 /\ Bit(0, 6) = 0 /\ Bit(0, 7) = 0 /\ Bit(0, 8) = 0 /\ Bit(0, 9) = 0
        BY DEF Bit
      <3>2. \A k \in 0..9 : Bit(0, k) = 0
        BY <3>1
      <3> QED BY <3>2 DEF TenBits
    <2>7. Shifted(TenBits(0), c, 26) = 0
      <3> HIDE DEF c
      <3>1. \A k \in 0..9 : TenBits(0)[k] = 0 /\ c[26 + k] \in Int
        BY <2>1, <2>6
      <3>2. \A k \in 0..9 : TenBits(0)[k] * c[26 + k] = 0
        BY <3>1
      <3>3. /\ TenBits(0)[0] * c[26] = 0 /\ TenBits(0)[1] * c[26 + 1] = 0
            /\ TenBits(0)[2] * c[26 + 2] = 0 /\ TenBits(0)[3] * c[26 + 3] = 0
            /\ TenBits(0)[4] * c[26 + 4] = 0 /\ TenBits(0)[5] * c[26 + 5] = 0
            /\ TenBits(0)[6] * c[26 + 6] = 0 /\ TenBits(0)[7] * c[26 + 7] = 0
            /\ TenBits(0)[8] * c[26 + 8] = 0 /\ TenBits(0)[9] * c[26 + 9] = 0
        BY <3>2
      <3> QED BY <3>3 DEF Shifted
    <2> HIDE DEF c, f, a, B
    <2>8. Bit(B, j) \in Int
      BY <2>3
    <2>9. FirstOf(f, 26) = Bit(B, j) + Sum(a)
      <3>1. f[0] + f[1] + f[2] + f[3] + f[4] + f[5] + f[6] + f[7] + f[8] + f[9] = Bit(B, j)
        BY <2>4, <2>8
      <3>2. /\ f[0] \in Int /\ f[1] \in Int /\ f[2] \in Int /\ f[3] \in Int /\ f[4] \in Int
            /\ f[5] \in Int /\ f[6] \in Int /\ f[7] \in Int /\ f[8] \in Int /\ f[9] \in Int
        BY <2>4, <2>8
      <3>3. /\ f[10] = a[0] /\ f[11] = a[1] /\ f[12] = a[2] /\ f[13] = a[3] /\ f[14] = a[4]
            /\ f[15] = a[5] /\ f[16] = a[6] /\ f[17] = a[7] /\ f[18] = a[8] /\ f[19] = a[9]
            /\ f[20] = a[10] /\ f[21] = a[11]
            /\ f[22] = a[12] /\ f[23] = a[13] /\ f[24] = a[14] /\ f[25] = a[15]
        BY <2>5
      <3>4. /\ a[0] \in Int /\ a[1] \in Int /\ a[2] \in Int /\ a[3] \in Int /\ a[4] \in Int
            /\ a[5] \in Int /\ a[6] \in Int /\ a[7] \in Int /\ a[8] \in Int /\ a[9] \in Int
            /\ a[10] \in Int /\ a[11] \in Int /\ a[12] \in Int /\ a[13] \in Int /\ a[14] \in Int
            /\ a[15] \in Int
        BY <2>2
      <3>5. FirstOf(f, 26) = f[0] + f[1] + f[2] + f[3] + f[4] + f[5] + f[6] + f[7] + f[8] + f[9]
                             + f[10] + f[11] + f[12] + f[13] + f[14] + f[15] + f[16] + f[17]
                             + f[18] + f[19] + f[20] + f[21] + f[22] + f[23] + f[24] + f[25]
        BY DEF FirstOf
      <3>6. FirstOf(f, 26) = f[0] + f[1] + f[2] + f[3] + f[4] + f[5] + f[6] + f[7] + f[8] + f[9]
                             + a[0] + a[1] + a[2] + a[3] + a[4] + a[5] + a[6] + a[7]
                             + a[8] + a[9] + a[10] + a[11] + a[12] + a[13] + a[14] + a[15]
        BY <3>3, <3>5, Zenon
      <3> DEFINE ten == f[0] + f[1] + f[2] + f[3] + f[4] + f[5] + f[6] + f[7] + f[8] + f[9]
      <3>7. /\ ten = Bit(B, j)
            /\ FirstOf(f, 26) = ten + a[0] + a[1] + a[2] + a[3] + a[4] + a[5] + a[6] + a[7]
                                + a[8] + a[9] + a[10] + a[11] + a[12] + a[13] + a[14] + a[15]
        BY <3>1, <3>6, Zenon
      <3> HIDE DEF ten
      <3> QED BY <2>8, <3>4, <3>7 DEF Sum
    <2>10. Shifted(TenBits(0), c, 26) + FirstOf(f, 26)
             = 0 + (((Bit(offset, j) + Sum(a)) % 2) + Sum(a))
      BY <2>3, <2>7, <2>9, Zenon
    <2>11. (0 + (((Bit(offset, j) + Sum(a)) % 2) + Sum(a))) % 2 = Bit(offset, j)
      BY <2>3, Twice
    <2> QED BY <2>10, <2>11, Zenon DEF c, f, B
  <1> QED BY <1>2, <1>3, Zenon DEF WillRemain

------------------------------------------------------------------------------
\* The clock.

\* Between 1900 and 2100 every fourth year is a leap year, 2000 included.
LEMMA FourthYears ==
    ASSUME NEW y \in 1..200
    PROVE  /\ y < 200 => (Leap(y) <=> y % 4 = 0)
           /\ LeapsBefore(y) = 460 + (y - 1) \div 4
  <1>1. (y + 1899) \div 4 = 475 + (y - 1) \div 4
    BY SMT
  <1>2. (y + 1899) \div 400 - (y + 1899) \div 100 = -15
    BY SMT
  <1>3. LeapsBefore(y) = 460 + (y - 1) \div 4
    BY <1>1, <1>2, SMT DEF LeapsBefore
  <1>4. y < 200 => (Leap(y) <=> y % 4 = 0)
    BY SMT DEF Leap
  <1> QED BY <1>3, <1>4, SMT

\* A month starts as many days after the year as the formula says, up to the leap day.
MonthFits(mon) ==
    /\ MonthStart[mon] \in 0..334
    /\ mon <= 2 => ((mon + 13) * 306001) \div 10000 = 428 + MonthStart[mon]
    /\ mon > 2 => ((mon + 1) * 306001) \div 10000 = 63 + MonthStart[mon]

LEMMA Months == \A mon \in 1..12 : MonthFits(mon)
  <1>1. ASSUME NEW mon \in 1..12 PROVE mon \in {1, 2, 3, 4, 5, 6, 7, 8, 9, 10, 11, 12}
    BY SMT
  <1> QED BY <1>1, SMT DEF MonthStart, MonthFits

\* 365.25 days for a year.
LEMMA Years ==
    ASSUME NEW y \in Nat
    PROVE  (y * 1461) \div 4 = 365 * y + y \div 4
  BY SMT

\* The formula of Annex G gives the day.
LEMMA Days ==
    ASSUME NEW t, Moment(t)
    PROVE  Mjd(t) = DayNumber(t) /\ Mjd(t) \in 0..2^17 - 1
  <1> DEFINE n == t.year
             m == t.mon
             d == t.day
             leap == IF m > 2 /\ Leap(n) THEN 1 ELSE 0
             start == MonthStart[m]
             leaps == LeapsBefore(n)
  <1>1. n \in 70..200 /\ m \in 1..12 /\ d \in 1..31 /\ (n = 200 => m <= 2)
    BY SMT DEF Moment
  <1>2. n \in 1..200 /\ n \in Nat /\ n - 1 \in Nat
    BY <1>1, SMT
  <1>3. leaps = 460 + (n - 1) \div 4
    <2> HIDE DEF n
    <2> QED BY <1>2, FourthYears, SMTT(30)
  <1>4. /\ start \in 0..334
        /\ m <= 2 => ((m + 13) * 306001) \div 10000 = 428 + start
        /\ m > 2 => ((m + 1) * 306001) \div 10000 = 63 + start
    <2>1. MonthFits(m)
      <3>1. m \in 1..12
        BY <1>1, SMT
      <3> HIDE DEF m
      <3> QED BY <3>1, Months, Zenon
    <2> QED BY <2>1, SMT DEF MonthFits
  <1>5. DayNumber(t) = (n + 1899) * 365 + leaps + start + leap + d - 678576
    BY SMT DEF DayNumber
  <1>6. /\ m <= 2 => Mjd(t) = 14956 + d + ((n - 1) * 1461) \div 4 + ((m + 13) * 306001) \div 10000
        /\ m > 2 => Mjd(t) = 14956 + d + (n * 1461) \div 4 + ((m + 1) * 306001) \div 10000
    BY <1>1, SMT DEF Mjd
  <1>7. /\ ((n - 1) * 1461) \div 4 = 365 * (n - 1) + (n - 1) \div 4
        /\ (n * 1461) \div 4 = 365 * n + n \div 4
    BY <1>2, Years, SMT
  <1>8. /\ m <= 2 => leap = 0
        /\ m > 2 => (n - 1) \div 4 + leap = n \div 4
    <2>1. m > 2 => (Leap(n) <=> n % 4 = 0)
      BY <1>1, <1>2, FourthYears, SMT
    <2>2. IF n % 4 = 0 THEN (n - 1) \div 4 + 1 = n \div 4 ELSE (n - 1) \div 4 = n \div 4
      BY <1>2, SMT
    <2> QED BY <1>1, <2>1, <2>2, SMT
  <1> DEFINE q == n \div 4
             p == (n - 1) \div 4
             M == Mjd(t)
             D == DayNumber(t)
  <1>9. q \in Int /\ p \in Int /\ q < 51 /\ p < 51 /\ q >= 0 /\ p >= 0 /\ leap \in 0..1
    BY <1>1, SMT
  <1>10. n \in Int /\ d \in Int /\ start \in Int /\ leaps \in Int
    BY <1>1, <1>3, <1>4, <1>9, SMT
  <1>11. CASE m <= 2
    <2>1. /\ M = 14956 + d + (365 * (n - 1) + p) + (428 + start)
          /\ D = (n + 1899) * 365 + leaps + start + leap + d - 678576
          /\ leaps = 460 + p /\ leap = 0
      BY <1>3, <1>4, <1>5, <1>6, <1>7, <1>8, <1>11, SMT
    <2> HIDE DEF n, m, d, leap, start, leaps, q, p, M, D
    <2>2. M = D /\ M \in Nat /\ M < 131072
      BY <1>1, <1>4, <1>9, <1>10, <2>1, SMT
    <2> QED BY <2>2, SMT DEF M, D
  <1>12. CASE m > 2
    <2>1. /\ M = 14956 + d + (365 * n + q) + (63 + start)
          /\ D = (n + 1899) * 365 + leaps + start + leap + d - 678576
          /\ leaps = 460 + p /\ p + leap = q
      BY <1>3, <1>4, <1>5, <1>6, <1>7, <1>8, <1>12, SMT
    <2> HIDE DEF n, m, d, leap, start, leaps, q, p, M, D
    <2>2. M = D /\ M \in Nat /\ M < 131072
      BY <1>1, <1>4, <1>9, <1>10, <2>1, SMT
    <2> QED BY <2>2, SMT DEF M, D
  <1> QED BY <1>1, <1>11, <1>12, SMT

\* Blocks 3 and 4 of a 4A group.
ClockWord3(t) == ((Mjd(t) * 2) % 2^16) + Bit(t.hour, 4)
ClockWord4(t) ==
    LET offset == LocalHour(t) - t.hour
    IN (t.hour % 16) * 2^12 + (t.min % 32) * 2^6 + (IF offset > 0 THEN 0 ELSE 1) * 2^5
       + ((2 * (IF offset < 0 THEN -offset ELSE offset)) % 32)

\* The words of a 4A group, but for the fields of block 2 that all groups have.
Clocked(w, t) ==
    w[2] % 4 = Bits(Mjd(t), 15, 2) /\ w[3] = ClockWord3(t) /\ w[4] = ClockWord4(t)

\* Blocks 2 and 3 hold the 17 bits of the day.
LEMMA DayOfWords ==
    ASSUME NEW w, NEW t, Moment(t), Clocked(w, t)
    PROVE  /\ (w[2] % 4) * 2^15 + (w[3] \div 2) = DayNumber(t)
           /\ w[3] % 2 = Bit(t.hour, 4)
  <1>1. Mjd(t) = DayNumber(t) /\ Mjd(t) \in 0..2^17 - 1
    BY Days, SMT
  <1>2. w[2] % 4 = Bits(Mjd(t), 15, 2) /\ w[3] = ((Mjd(t) * 2) % 2^16) + Bit(t.hour, 4)
    BY SMT DEF Clocked, ClockWord3
  <1>3. Bit(t.hour, 4) \in 0..1
    BY SMT DEF Moment, Bit
  <1> DEFINE M == Mjd(t)
             h == Bit(t.hour, 4)
             q == M \div 2^15
             r == M % 2^15
  <1>4. M = 2^15 * q + r /\ q \in 0..3 /\ r \in 0..2^15 - 1 /\ Bits(M, 15, 2) = q
    BY <1>1, SMT DEF Bits
  <1> HIDE DEF M, h, q, r
  <1>5. (M * 2) % 2^16 = 2 * r
    BY <1>4, SMT
  <1>6. (2 * r + h) \div 2 = r /\ (2 * r + h) % 2 = h
    BY <1>3, <1>4, SMT DEF h
  <1>7. w[2] % 4 = q /\ w[3] = 2 * r + h
    BY <1>2, <1>4, <1>5, SMT DEF M, h
  <1>8. (w[2] % 4) * 2^15 + w[3] \div 2 = M
    BY <1>4, <1>6, <1>7, SMTT(30)
  <1> QED BY <1>1, <1>6, <1>7, <1>8, SMT DEF M, h

\* The hours of two clocks that show the same day differ by the offset, if that is a number
\* of whole hours.
LEMMA TwoClocks ==
    ASSUME NEW t, Moment(t)
    PROVE  /\ LocalHour(t) \in 0..23
           /\ SameDay(t) => 2 * (LocalHour(t) - t.hour) = t.zone
  <1> DEFINE h == t.hour
             m == t.min
             z == t.zone
             k == z \div 2
             clock == LocalMinutes(t)
             local == LocalHour(t)
             same == SameDay(t)
  <1>1. /\ h \in 0..23 /\ m \in 0..59 /\ z \in -24..28
        /\ clock = h * 60 + m + z * 30
    BY SMT DEF Moment, LocalMinutes
  <1>2. local = (clock % 1440) \div 60
    BY SMT DEF LocalHour
  <1>3. same => z % 2 = 0 /\ clock \in 0..1439
    BY SMT DEF SameDay
  <1> HIDE DEF h, m, z, clock, local, same
  <1>4. clock \in Int /\ k \in Int /\ (z % 2 = 0 => z = 2 * k)
    BY <1>1, SMT
  <1>5. z % 2 = 0 => clock = 60 * (h + k) + m
    BY <1>1, <1>4, SMT
  <1> HIDE DEF k
  <1>6. clock % 1440 \in Nat /\ clock % 1440 < 1440 /\ (clock \in 0..1439 => clock % 1440 = clock)
    BY <1>4, SMTT(30)
  <1>7. local \in 0..23
    <2> DEFINE c == clock % 1440
    <2> HIDE DEF c
    <2>1. c \div 60 \in Nat /\ c \div 60 < 24
      BY <1>6, SMT DEF c
    <2> QED BY <1>2, <2>1, SMT DEF c
  <1>8. (60 * (h + k) + m) \div 60 = h + k
    <2> DEFINE w == h + k
    <2>1. w \in Int
      BY <1>1, <1>4, SMT
    <2> HIDE DEF w
    <2>2. (60 * w + m) \div 60 = w
      BY <1>1, <2>1, SMTT(30)
    <2> QED BY <2>2, SMT DEF w
  <1>9. same => 2 * (local - h) = z
    <2> SUFFICES ASSUME same PROVE 2 * (local - h) = z
      OBVIOUS
    <2>1. z = 2 * k /\ clock = 60 * (h + k) + m /\ clock % 1440 = clock
      BY <1>3, <1>4, <1>5, <1>6, SMT
    <2> DEFINE c == 60 * (h + k) + m
    <2>2. c % 1440 = c /\ c \div 60 = h + k /\ local = (c % 1440) \div 60
      BY <1>2, <1>8, <2>1, SMT
    <2> HIDE DEF c
    <2>3. local = h + k
      BY <2>2, SMT
    <2> QED BY <1>1, <1>4, <2>1, <2>3, SMT
  <1> QED BY <1>7, <1>9, Zenon DEF local, h, z, same

\* Block 4.
LEMMA TimeOfWords ==
    ASSUME NEW w, NEW t, Moment(t), Clocked(w, t)
    PROVE  /\ (w[3] % 2) * 16 + Bits(w[4], 12, 4) = t.hour
           /\ t.min < 32 => Bits(w[4], 6, 6) = t.min
           /\ SameDay(t) =>
                (w[4] % 32) * (IF Bit(w[4], 5) = 1 THEN -1 ELSE 1) = t.zone
  <1> DEFINE o == LocalHour(t) - t.hour
             a == IF o < 0 THEN -o ELSE o
             s == IF o > 0 THEN 0 ELSE 1
             x == w[4]
             f == (2 * a) % 32
             hi == t.hour % 16
             mi == t.min % 32
  <1>1. /\ t.hour \in 0..23 /\ t.min \in 0..59 /\ t.zone \in -24..28
    BY SMT DEF Moment
  <1>2. LocalHour(t) \in 0..23
    BY TwoClocks, SMT
  <1>3. x = hi * 2^12 + mi * 2^6 + s * 2^5 + f
    BY SMT DEF Clocked, ClockWord4
  <1>4. w[3] % 2 = Bit(t.hour, 4)
    BY DayOfWords, SMT
  <1>5. /\ o \in -23..23 /\ s \in 0..1 /\ f \in 0..31 /\ hi \in 0..15 /\ mi \in 0..31
    <2>1. o \in -23..23 /\ hi \in 0..15 /\ mi \in 0..31
      BY <1>1, <1>2, SMT
    <2> HIDE DEF o
    <2>2. a \in Nat
      BY <2>1, SMT
    <2> QED BY <2>1, <2>2, SMT
  <1>6. SameDay(t) => 2 * o = t.zone
    BY TwoClocks, SMT
  <1>7. Bit(t.hour, 4) * 16 + hi = t.hour
    BY <1>1, SMT DEF Bit
  <1> HIDE DEF x, f, s, hi, mi
  <1>8. Bits(x, 12, 4) = hi /\ Bits(x, 6, 6) = mi /\ Bit(x, 5) = s /\ x % 32 = f
    <2>1. x \div 2^12 = hi /\ hi % 2^4 = hi
      BY <1>3, <1>5, SMT
    <2>2. x \div 2^6 = hi * 2^6 + mi /\ (hi * 2^6 + mi) % 2^6 = mi
      BY <1>3, <1>5, SMT
    <2>3. x \div 2^5 = 2 * (hi * 2^6 + mi) + s /\ (2 * (hi * 2^6 + mi) + s) % 2 = s
      BY <1>3, <1>5, SMT
    <2>4. x % 32 = f
      BY <1>3, <1>5, SMT
    <2> QED BY <2>1, <2>2, <2>3, <2>4, SMT DEF Bits, Bit
  <1>9. t.min < 32 => mi = t.min
    BY <1>1, SMT DEF mi
  <1>10. ASSUME 2 * o = t.zone
         PROVE  f * (IF s = 1 THEN -1 ELSE 1) = t.zone
    BY <1>1, <1>5, <1>10, SMT DEF f, s
  <1> QED BY <1>4, <1>6, <1>7, <1>8, <1>9, <1>10, SMT DEF x

==============================================================================
