----------------------------- MODULE AluMachine -----------------------------
(***************************************************************************)
(* The accumulator and the flags under every sequence of arithmetic,       *)
(* logical, rotate, adjust and carry instructions, with what each of them  *)
(* must compute stated in ordinary arithmetic.  The invariants hold of     *)
(* every reachable accumulator and flags, and of every operand.            *)
(***************************************************************************)
EXTENDS I8080Alu, ParityTable, FiniteSets

CONSTANT Operands   \* the operands the instruction sequences use

ASSUME OperandsAssumption == Operands \subseteq Byte

VARIABLES a, f
vars == <<a, f>>

Init == a = 0 /\ f = FixedOnes

\* ADD .. CMP with an operand, as in 80 .. bf and in c6 .. fe.
Operate(k, val) ==
  LET r == alu(k, a, f, val)
  IN  a' = r.a /\ f' = r.f

\* RLC .. CMC: 07, 0f, .. 3f.
Adjust(k) ==
  LET r == accumulate(k, a, f)
  IN  a' = r.a /\ f' = r.f

\* INR A and DCR A.
Increment == LET r == op_inr(f, a) IN a' = r.v /\ f' = r.f
Decrement == LET r == op_dcr(f, a) IN a' = r.v /\ f' = r.f

Next ==
  \/ \E k \in 0 .. 7, val \in Operands : Operate(k, val)
  \/ \E k \in 0 .. 7 : Adjust(k)
  \/ Increment
  \/ Decrement

Spec == Init /\ [][Next]_vars

-----------------------------------------------------------------------------
\* A number whose two hexadecimal digits are decimal, and what it stands for.
IsDecimal(n) == n \div 16 <= 9 /\ n % 16 <= 9
Decimal(n) == 10 * (n \div 16) + (n % 16)

(* op_add and op_adc: the 9-bit sum is the carry flag over the             *)
(* accumulator, and the auxiliary carry is the carry out of the low digit, *)
(* which the code finds by table lookup instead.                           *)
AddIsExact ==
  \A val \in Byte :
    LET IsSum(r, c) ==
          /\ 256 * Carry(r.f) + r.a = a + val + c
          /\ (FLAG_AC \in r.f) = ((a % 16) + (val % 16) + c >= 16)
    IN  IsSum(op_add(a, f, val), 0) /\ IsSum(op_adc(a, f, val), Carry(f))

(* op_sub and op_sbb: the carry flag is the borrow of the difference, and  *)
(* the auxiliary carry is set when the low digit does not borrow.  op_cmp  *)
(* keeps the accumulator, and carry and zero order it and the operand as   *)
(* the conditional jumps after a CMP read them.                            *)
SubtractIsExact ==
  \A val \in Byte :
    LET IsDifference(r, c) ==
          /\ r.a - 256 * Carry(r.f) = a - val - c
          /\ (FLAG_AC \in r.f) = ((a % 16) - (val % 16) - c >= 0)
        compared == op_cmp(a, f, val)
    IN  /\ IsDifference(op_sub(a, f, val), 0)
        /\ IsDifference(op_sbb(a, f, val), Carry(f))
        /\ compared.a = a
        /\ (FLAG_C \in compared.f) = (a < val)
        /\ (FLAG_Z \in compared.f) = (a = val)

(* Every operation of alu leaves Z, S and P describing the byte it         *)
(* computed: the one in the accumulator, or the difference for op_cmp.     *)
(* P is the parity, and what misc/makeparitytable.c prints for that byte.  *)
(* The operands are few here: the accumulator takes every value, so the    *)
(* results do.                                                             *)
FlagsDescribeResult ==
  \A val \in Operands, k \in 0 .. 7 :
    LET r == alu(k, a, f, val)
        n == IF k = 7 THEN (a - val) % 256 ELSE r.a
    IN  /\ (FLAG_Z \in r.f) = (n = 0)
        /\ (FLAG_S \in r.f) = (n >= 128)
        /\ (FLAG_P \in r.f) = (Cardinality(Bits(n)) % 2 = 0)
        /\ (FLAG_P \in r.f) = (makeparitytable[n + 1] = 1)

(* op_daa after op_add or op_adc of two decimal bytes gives the decimal    *)
(* sum, its hundreds in the carry flag: the auxiliary carry, both digit    *)
(* conditions and the order of the two corrections must agree for this.    *)
DecimalSum ==
  IsDecimal(a) =>
    \A val \in {n \in Byte : IsDecimal(n)} :
      LET IsSum(s, c) ==
            LET r == op_daa(s.a, s.f)
            IN  /\ IsDecimal(r.a)
                /\ Decimal(r.a) + 100 * Carry(r.f) = Decimal(a) + Decimal(val) + c
      IN  IsSum(op_add(a, f, val), 0) /\ IsSum(op_adc(a, f, val), Carry(f))
=============================================================================
