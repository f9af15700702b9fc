------------------------------ MODULE RdsBlocks ------------------------------
(***************************************************************************)
(* The blocks of a group: rds_generate_block appends a checkword of ten    *)
(* bits to an infoword of 16, from a generator matrix and an offset word.  *)
(* A receiver divides by the generator polynomial instead.                 *)
(***************************************************************************)
EXTENDS Integers

\* An infoword.
Word == 0..2^16 - 1

Bit(x, i) == (x \div 2^i) % 2
Bits(x, i, w) == (x \div 2^i) % 2^w

OffsetWords == <<252, 408, 360, 436, 848>>
OffsetOf(code, i) == IF i = 3 /\ code \in {0, 15} THEN OffsetWords[5] ELSE OffsetWords[i]

\* Variant: a digit of the seventh row is wrong.
GTypo == <<441, 882, 861, 771, 959, 711, 39, 110, 220, 440, 880, 857, 779, 943, 743, 119>>

\* The row of the generator matrix for each bit of the infoword, from the last one.
G == <<441, 882, 861, 771, 959, 711, 55, 110, 220, 440, 880, 857, 779, 943, 743, 119>>

\* The number that ten bits make.
Number(b) == b[0] + 2 * b[1] + 4 * b[2] + 8 * b[3] + 16 * b[4] + 32 * b[5] + 64 * b[6]
             + 128 * b[7] + 256 * b[8] + 512 * b[9]

\* The sum of 16 numbers.
Sum(a) == a[0] + a[1] + a[2] + a[3] + a[4] + a[5] + a[6] + a[7]
          + a[8] + a[9] + a[10] + a[11] + a[12] + a[13] + a[14] + a[15]

\* The checkword: the rows of the bits that are set, and the offset word, modulo 2.
Checkword(info, offset) ==
    Number([k \in 0..9 |->
        (Bit(offset, k) + Sum([i \in 0..15 |-> Bit(info, i) * Bit(G[i + 1], k)])) % 2])

Block(info, offset) == info * 2^10 + Checkword(info, offset)

\* The receiver: one step of the division of a block by the generator polynomial
\* g(x) = x^10 + x^8 + x^7 + x^5 + x^4 + x^3 + 1.
Divided(rem, bit) ==
    LET shifted == 2 * rem + bit
    IN IF shifted >= 2^10 THEN Number([k \in 0..9 |-> (Bit(shifted, k) + Bit(1465, k)) % 2])
                          ELSE shifted
==============================================================================
