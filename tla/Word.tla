-------------------------------- MODULE Word --------------------------------
(***************************************************************************)
(* The fixed-width integers of the VM: uint8_t and uint16_t as intervals,  *)
(* the two halves of a word, and a byte as the set of its one bits.        *)
(***************************************************************************)
EXTENDS Integers

UINT8_MAX  == 255
UINT16_MAX == 65535

Byte   == 0 .. UINT8_MAX
Word16 == 0 .. UINT16_MAX

Wrap8(n)  == n % 256
Wrap16(n) == n % 65536

\* (uint8_t)(w >> 8), (uint8_t)w, and the word put together again.
Hi(w) == w \div 256
Lo(w) == w % 256
Pair(high, low) == 256 * high + low

(***************************************************************************)
(* Bits are numbered 0 (least significant) to 7.  Weight is 1 << n.        *)
(***************************************************************************)
Bit == 0 .. 7
Weight == [n \in Bit |-> CASE n = 0 -> 1   [] n = 1 -> 2   [] n = 2 -> 4
                           [] n = 3 -> 8   [] n = 4 -> 16  [] n = 5 -> 32
                           [] n = 6 -> 64  [] n = 7 -> 128]

BitsOf(b) == {n \in Bit : (b \div Weight[n]) % 2 = 1}

ByteOf(S) == LET bit(n, w) == IF n \in S THEN w ELSE 0
             IN  bit(0, 1) + bit(1, 2) + bit(2, 4) + bit(3, 8)
                   + bit(4, 16) + bit(5, 32) + bit(6, 64) + bit(7, 128)

\* C's & | ^ ~ << >> on bytes, the result cut back to a byte.
BitAnd(a, b) == ByteOf(BitsOf(a) \cap BitsOf(b))
BitOr(a, b)  == ByteOf(BitsOf(a) \cup BitsOf(b))
BitXor(a, b) == ByteOf((BitsOf(a) \ BitsOf(b)) \cup (BitsOf(b) \ BitsOf(a)))
BitNot(a)    == UINT8_MAX - a
ShiftLeft(a, n)  == IF n \in Bit THEN (a * Weight[n]) % 256 ELSE 0
ShiftRight(a, n) == IF n \in Bit THEN a \div Weight[n] ELSE 0
=============================================================================
