------------------------------- MODULE Words -------------------------------
(***************************************************************************)
(* The fixed-width integers of the emulator (uint8_t, uint16_t), and the   *)
(* view of a byte as the set of its one bits, in which the bitwise         *)
(* operators of C are the set operators.                                   *)
(***************************************************************************)
EXTENDS Integers, Sequences

\* uint8_t and uint16_t, by the numbers of their values.
Bytes256   == 256
Words65536 == 65536
Byte == 0 .. Bytes256 - 1
Word == 0 .. Words65536 - 1

\* The two bytes of a word and the word of two bytes.
hi(w) == (w \div 256) % 256
lo(w) == w % 256
pair(h, l) == 256 * h + l

\* Bit i of n, as a number and as a truth value.
Weight == <<1, 2, 4, 8, 16, 32, 64, 128, 256, 512, 1024, 2048, 4096, 8192,
            16384, 32768, 65536>>
BitOf(n, i) == (n \div Weight[i + 1]) % 2
Bit(n, i) == BitOf(n, i) = 1

\* A byte and the set of its one bits.
Bits(n) == {i \in 0 .. 7 : Bit(n, i)}
ByteOf(S) ==
  LET w(i) == IF i \in S THEN Weight[i + 1] ELSE 0
  IN  w(0) + w(1) + w(2) + w(3) + w(4) + w(5) + w(6) + w(7)

BitAnd(x, y) == ByteOf(Bits(x) \intersect Bits(y))
BitOr(x, y)  == ByteOf(Bits(x) \union Bits(y))
BitXor(x, y) == ByteOf((Bits(x) \ Bits(y)) \union (Bits(y) \ Bits(x)))
=============================================================================
