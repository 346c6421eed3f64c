-------------------------- MODULE AluMachineProofs --------------------------
(***************************************************************************)
(* What the arithmetic of i8080.c computes, in ordinary arithmetic, for    *)
(* every accumulator, operand and flags that a program can make: sums and  *)
(* differences with their carries and borrows out of both digits, the      *)
(* flags of every result, and decimal addition by DAA.                     *)
(***************************************************************************)
EXTENDS AluMachine, I8080AluProofs, FiniteSetTheorems

\* The accumulator is a byte, the flags have their unused bits.
AluInv == a \in Byte /\ GoodFlags(f)

LEMMA AluStarts == Init => AluInv
<1>1. 0 \in Byte
  BY ByteBounds
<1>2. QED
  BY <1>1 DEF Init, AluInv, GoodFlags, FixedOnes, FixedZeros

LEMMA AluKeeps == AluInv /\ [Next]_vars => AluInv'
<1> SUFFICES ASSUME AluInv, [Next]_vars PROVE AluInv'
  OBVIOUS
<1>1. ASSUME NEW k \in 0 .. 7, NEW val \in Operands, Operate(k, val) PROVE AluInv'
  <2>1. val \in Byte
    BY OperandsAssumption DEF OperandsAssumption
  <2>2. GoodResult(alu(k, a, f, val))
    BY <2>1, AluGood DEF AluInv
  <2>3. QED  BY <1>1, <2>2 DEF Operate, AluInv, GoodResult
<1>2. ASSUME NEW k \in 0 .. 7, Adjust(k) PROVE AluInv'
  BY <1>2, AccumulateGood DEF Adjust, AluInv, GoodResult
<1>3. CASE Increment \/ Decrement
  BY <1>3, IncrementGood DEF Increment, Decrement, AluInv
<1>4. CASE UNCHANGED vars
  BY <1>4 DEF vars, AluInv
<1>5. QED  BY <1>1, <1>2, <1>3, <1>4 DEF Next

LEMMA AluInvariance == Spec => []AluInv
  BY AluStarts, AluKeeps, PTL DEF Spec

-----------------------------------------------------------------------------
(* The flags one by one.                                                   *)
LEMMA ReadFlag ==
  ASSUME NEW g, NEW flag, NEW val, NEW other
  PROVE  other \in set_flag_to(g, flag, val) <=> IF other = flag THEN val ELSE other \in g
  BY DEF set_flag_to

LEMMA ResultFlag ==
  ASSUME NEW g, NEW r
  PROVE  /\ FLAG_C \in ResultFlags(g, r) <=> FLAG_C \in g
         /\ FLAG_AC \in ResultFlags(g, r) <=> FLAG_AC \in g
         /\ FLAG_Z \in ResultFlags(g, r) <=> r = 0
         /\ FLAG_S \in ResultFlags(g, r) <=> Bit(r, 7)
         /\ FLAG_P \in ResultFlags(g, r) <=> parity_table[r + 1] # 0
<1>1. FLAG_C = 0 /\ FLAG_P = 2 /\ FLAG_AC = 4 /\ FLAG_Z = 6 /\ FLAG_S = 7
  BY DEF FLAG_C, FLAG_P, FLAG_AC, FLAG_Z, FLAG_S
<1>2. QED
  BY <1>1 DEF ResultFlags, set_flag_to

LEMMA ArithFlags ==
  ASSUME NEW x, NEW g, NEW val, NEW tmp16, NEW table
  PROVE  LET r == Arith(x, g, val, tmp16, table)
         IN  /\ r.a = tmp16 % 256
             /\ FLAG_C \in r.f <=> Bit(tmp16, 8)
             /\ FLAG_AC \in r.f <=> table[acindex(x, val, tmp16) + 1] # 0
             /\ FLAG_Z \in r.f <=> tmp16 % 256 = 0
             /\ FLAG_S \in r.f <=> Bit(tmp16 % 256, 7)
             /\ FLAG_P \in r.f <=> parity_table[(tmp16 % 256) + 1] # 0
<1>1. FLAG_C # FLAG_AC
  BY DEF FLAG_C, FLAG_AC
<1> DEFINE cy == set_flag_to(g, FLAG_C, Bit(tmp16, 8))
           ac == set_flag_to(cy, FLAG_AC, table[acindex(x, val, tmp16) + 1] # 0)
<1>2. FLAG_C \in ac <=> Bit(tmp16, 8)
  BY <1>1, ReadFlag
<1>3. FLAG_AC \in ac <=> table[acindex(x, val, tmp16) + 1] # 0
  BY <1>1, ReadFlag
<1>4. /\ Arith(x, g, val, tmp16, table).a = tmp16 % 256
      /\ Arith(x, g, val, tmp16, table).f = ResultFlags(ac, tmp16 % 256)
  BY DEF Arith
<1> HIDE DEF ac
<1>5. QED  BY <1>2, <1>3, <1>4, ResultFlag

(* The carry out of bit 3, from the three bits the ac tables are indexed   *)
(* by: p and q are the low digits, the sum and the difference also take    *)
(* the carry or the borrow that comes in.                                  *)
LEMMA DigitCarry ==
  ASSUME NEW p \in 0 .. 15, NEW q \in 0 .. 15, NEW c \in 0 .. 1
  PROVE  /\ ac_table[4 * (p \div 8) + 2 * (q \div 8) + (((p + q + c) % 16) \div 8) + 1] # 0
              <=> p + q + c >= 16
         /\ subtract_ac_table[4 * (p \div 8) + 2 * (q \div 8)
                                + (((p - q - c) % 16) \div 8) + 1] # 0
              <=> p - q - c >= 0
<1>1. /\ p \div 8 = IF p >= 8 THEN 1 ELSE 0
      /\ q \div 8 = IF q >= 8 THEN 1 ELSE 0
  BY Z3
<1>2. ((p + q + c) % 16) \div 8 =
        IF p + q + c < 8 \/ p + q + c \in 16 .. 23 THEN 0 ELSE 1
  BY Z3
<1>3. ((p - q - c) % 16) \div 8 =
        IF p - q - c \in 0 .. 7 \/ p - q - c \in -16 .. -9 THEN 0 ELSE 1
  BY Z3
<1>4. /\ ac_table[1] = 0 /\ ac_table[2] = 0 /\ ac_table[3] = 1 /\ ac_table[4] = 0
      /\ ac_table[5] = 1 /\ ac_table[6] = 0 /\ ac_table[7] = 1 /\ ac_table[8] = 1
  BY DEF ac_table
<1>5. /\ subtract_ac_table[1] = 1 /\ subtract_ac_table[2] = 0
      /\ subtract_ac_table[3] = 0 /\ subtract_ac_table[4] = 0
      /\ subtract_ac_table[5] = 1 /\ subtract_ac_table[6] = 1
      /\ subtract_ac_table[7] = 1 /\ subtract_ac_table[8] = 0
  BY DEF subtract_ac_table
<1>6. QED
  BY <1>1, <1>2, <1>3, <1>4, <1>5

(* The index in terms of the low digits.                                   *)
LEMMA Index ==
  ASSUME NEW x \in Byte, NEW val \in Byte, NEW t \in Int
  PROVE  /\ acindex(x, val, t) =
              4 * ((x % 16) \div 8) + 2 * ((val % 16) \div 8) + ((t % 16) \div 8)
         /\ x % 16 \in 0 .. 15 /\ val % 16 \in 0 .. 15
<1>1. \A n \in Int : BitOf(n, 3) = (n % 16) \div 8
  <2>1. Weight[4] = 8
    BY DEF Weight
  <2>2. \A n \in Int : (n \div 8) % 2 = (n % 16) \div 8
    BY Z3
  <2>3. QED  BY <2>1, <2>2 DEF BitOf
<1>2. x \in Int /\ val \in Int
  BY ByteBounds
<1>3. x % 16 \in 0 .. 15 /\ val % 16 \in 0 .. 15
  BY <1>2, Z3
<1>4. QED  BY <1>1, <1>2, <1>3 DEF acindex

-----------------------------------------------------------------------------
(* Sums and differences.                                                   *)
LEMMA Sum ==
  ASSUME NEW x \in Byte, NEW val \in Byte, NEW c \in 0 .. 1, NEW g
  PROVE  LET r == Arith(x, g, val, (x + val + c) % 65536, ac_table)
         IN  /\ 256 * Carry(r.f) + r.a = x + val + c
             /\ r.a \in Byte
             /\ FLAG_C \in r.f <=> x + val + c >= 256
             /\ FLAG_AC \in r.f <=> (x % 16) + (val % 16) + c >= 16
<1> DEFINE t == x + val + c
           r == Arith(x, g, val, t % 65536, ac_table)
<1>1. /\ x \in Int /\ 0 <= x /\ x < 256 /\ val \in Int /\ 0 <= val /\ val < 256
      /\ c \in {0, 1} /\ t \in Int /\ 0 <= t /\ t < 512
  BY ByteBounds
<1>2. t % 65536 = t
  BY <1>1, Z3
<1>3. /\ r.a = t % 256
      /\ FLAG_C \in r.f <=> Bit(t, 8)
      /\ FLAG_AC \in r.f <=> ac_table[acindex(x, val, t) + 1] # 0
  BY <1>2, ArithFlags
<1>4. Bit(t, 8) <=> t >= 256
  BY <1>1, Z3 DEF Bit, BitOf, Weight
<1>5. t % 256 = IF t >= 256 THEN t - 256 ELSE t
  BY <1>1, Z3
<1>6. t % 16 = ((x % 16) + (val % 16) + c) % 16
  BY <1>1, Z3
<1> HIDE DEF r
<1>7. FLAG_C \in r.f <=> t >= 256
  BY <1>3, <1>4
<1>8. 256 * Carry(r.f) + r.a = t
  <2>1. Carry(r.f) = IF t >= 256 THEN 1 ELSE 0
    BY <1>7 DEF Carry
  <2> HIDE DEF t
  <2>2. QED  BY <1>1, <1>3, <1>5, <2>1
<1>9. FLAG_AC \in r.f <=> (x % 16) + (val % 16) + c >= 16
  BY <1>1, <1>3, <1>6, Index, DigitCarry
<1>10. r.a \in Byte
  BY <1>1, <1>3, ByteFacts
<1>11. QED  BY <1>7, <1>8, <1>9, <1>10 DEF r

LEMMA Difference ==
  ASSUME NEW x \in Byte, NEW val \in Byte, NEW c \in 0 .. 1, NEW g
  PROVE  LET r == Arith(x, g, val, (x - val - c) % 65536, subtract_ac_table)
         IN  /\ r.a - 256 * Carry(r.f) = x - val - c
             /\ r.a = (x - val - c) % 256
             /\ FLAG_C \in r.f <=> x - val - c < 0
             /\ FLAG_AC \in r.f <=> (x % 16) - (val % 16) - c >= 0
<1> DEFINE t == x - val - c
           u == t % 65536
           r == Arith(x, g, val, u, subtract_ac_table)
<1>1. /\ x \in Int /\ 0 <= x /\ x < 256 /\ val \in Int /\ 0 <= val /\ val < 256
      /\ c \in {0, 1} /\ t \in Int /\ -256 <= t /\ t < 256
  BY ByteBounds
<1>2. u = IF t < 0 THEN t + 65536 ELSE t
  BY <1>1, Z3
<1>3. u \in Int /\ u % 256 = t % 256 /\ (Bit(u, 8) <=> t < 0)
  BY <1>1, <1>2, Z3 DEF Bit, BitOf, Weight
<1>4. u % 16 = ((x % 16) - (val % 16) - c) % 16
  <2>1. u % 16 = t % 16
    BY <1>1, <1>2, Z3
  <2>2. t % 16 = ((x % 16) - (val % 16) - c) % 16
    BY <1>1, Z3
  <2>3. QED  BY <2>1, <2>2
<1>5. t % 256 = IF t < 0 THEN t + 256 ELSE t
  BY <1>1, Z3
<1> HIDE DEF u
<1>6. /\ r.a = u % 256
      /\ FLAG_C \in r.f <=> Bit(u, 8)
      /\ FLAG_AC \in r.f <=> subtract_ac_table[acindex(x, val, u) + 1] # 0
  BY ArithFlags
<1> HIDE DEF r
<1>7. FLAG_C \in r.f <=> t < 0
  BY <1>3, <1>6
<1>8. r.a - 256 * Carry(r.f) = t
  <2>1. Carry(r.f) = IF t < 0 THEN 1 ELSE 0
    BY <1>7 DEF Carry
  <2> HIDE DEF t
  <2>2. QED  BY <1>1, <1>3, <1>5, <1>6, <2>1
<1>9. FLAG_AC \in r.f <=> (x % 16) - (val % 16) - c >= 0
  BY <1>1, <1>3, <1>4, <1>6, Index, DigitCarry
<1>10. QED  BY <1>3, <1>6, <1>7, <1>8, <1>9 DEF r, u

(* The equations of the properties are between truth values.               *)
LEMMA CarryBit ==
  ASSUME NEW g
  PROVE  Carry(g) \in 0 .. 1
  BY DEF Carry

(* ADD and ADC of any operand to any accumulator give the 9-bit sum, and   *)
(* the carry out of the low digit, by whatever route the code finds it.    *)
THEOREM Adding == Spec => []AddIsExact
<1>1. ASSUME AluInv PROVE AddIsExact
  <2> SUFFICES ASSUME NEW val \in Byte
               PROVE  LET IsSum(r, c) ==
                            /\ 256 * Carry(r.f) + r.a = a + val + c
                            /\ (FLAG_AC \in r.f) = ((a % 16) + (val % 16) + c >= 16)
                      IN  IsSum(op_add(a, f, val), 0) /\ IsSum(op_adc(a, f, val), Carry(f))
    BY DEF AddIsExact
  <2>1. a \in Byte /\ 0 \in 0 .. 1 /\ Carry(f) \in 0 .. 1
    BY <1>1, CarryBit DEF AluInv
  <2>2. op_add(a, f, val) = Arith(a, f, val, (a + val + 0) % 65536, ac_table)
    BY <2>1, ByteBounds DEF op_add
  <2>3. op_adc(a, f, val) = Arith(a, f, val, (a + val + Carry(f)) % 65536, ac_table)
    BY DEF op_adc
  <2>4. QED  BY <2>1, <2>2, <2>3, Sum
<1>2. QED  BY <1>1, AluInvariance, PTL

(* SUB, SBB and CMP of any operand and any accumulator: borrow, low-digit  *)
(* borrow, and the order CMP leaves in carry and zero.                     *)
THEOREM Subtracting == Spec => []SubtractIsExact
<1>1. ASSUME AluInv PROVE SubtractIsExact
  <2> SUFFICES ASSUME NEW val \in Byte
               PROVE  LET IsDifference(r, c) ==
                            /\ r.a - 256 * Carry(r.f) = a - val - c
                            /\ (FLAG_AC \in r.f) = ((a % 16) - (val % 16) - c >= 0)
                          compared == op_cmp(a, f, val)
                      IN  /\ IsDifference(op_sub(a, f, val), 0)
                          /\ IsDifference(op_sbb(a, f, val), Carry(f))
                          /\ compared.a = a
                          /\ (FLAG_C \in compared.f) = (a < val)
                          /\ (FLAG_Z \in compared.f) = (a = val)
    BY DEF SubtractIsExact
  <2>1. /\ a \in Byte /\ 0 \in 0 .. 1 /\ Carry(f) \in 0 .. 1
        /\ a \in Int /\ 0 <= a /\ a < 256 /\ val \in Int /\ 0 <= val /\ val < 256
    BY <1>1, CarryBit, ByteBounds DEF AluInv
  <2> DEFINE d == op_sub(a, f, val)
  <2>2. d = Arith(a, f, val, (a - val - 0) % 65536, subtract_ac_table)
    BY <2>1 DEF op_sub
  <2>3. op_sbb(a, f, val) = Arith(a, f, val, (a - val - Carry(f)) % 65536, subtract_ac_table)
    BY DEF op_sbb
  <2>4. op_cmp(a, f, val).a = a /\ op_cmp(a, f, val).f = d.f
    BY DEF op_cmp, op_sub, Arith
  <2> HIDE DEF d
  <2>5. /\ d.a - 256 * Carry(d.f) = a - val - 0 /\ d.a = (a - val - 0) % 256
        /\ FLAG_C \in d.f <=> a - val - 0 < 0
        /\ FLAG_AC \in d.f <=> (a % 16) - (val % 16) - 0 >= 0
    BY <2>1, <2>2, Difference
  <2>6. FLAG_Z \in d.f <=> a = val
    <3>1. FLAG_Z \in d.f <=> ((a - val - 0) % 65536) % 256 = 0
      BY <2>2, ArithFlags
    <3>2. ((a - val - 0) % 65536) % 256 = 0 <=> a = val
      BY <2>1, Z3
    <3>3. QED  BY <3>1, <3>2
  <2>7. QED  BY <2>1, <2>3, <2>4, <2>5, <2>6, Difference DEF d
<1>2. QED  BY <1>1, AluInvariance, PTL

-----------------------------------------------------------------------------
(* The ones of a byte, added up.                                           *)
Ones(n) == BitOf(n, 0) + BitOf(n, 1) + BitOf(n, 2) + BitOf(n, 3)
             + BitOf(n, 4) + BitOf(n, 5) + BitOf(n, 6) + BitOf(n, 7)

LEMMA ParityEntry ==
  ASSUME NEW n \in Byte
  PROVE  parity_table[n + 1] # 0 <=> Ones(n) % 2 = 0
<1>1. n \in 0 .. 255
  BY ByteBounds
<1>2. QED
  BY <1>1, Z3 DEF Ones, BitOf, Weight, parity_table

\* The ones below bit k.
LEMMA OneMore ==
  ASSUME NEW n, NEW k \in 0 .. 7, BitOf(n, k) \in {0, 1},
         NEW S, IsFiniteSet(S), k \notin S, Cardinality(S) \in Nat
  PROVE  LET T == S \union {i \in {k} : Bit(n, i)}
         IN  /\ IsFiniteSet(T) /\ Cardinality(T) = Cardinality(S) + BitOf(n, k)
             /\ Cardinality(T) \in Nat
<1>1. CASE Bit(n, k)
  <2>1. S \union {i \in {k} : Bit(n, i)} = S \union {k}
    BY <1>1
  <2>2. QED  BY <1>1, <2>1, FS_AddElement DEF Bit
<1>2. CASE ~Bit(n, k)
  <2>1. S \union {i \in {k} : Bit(n, i)} = S
    BY <1>2
  <2>2. BitOf(n, k) = 0
    BY <1>2 DEF Bit
  <2>3. QED  BY <2>1, <2>2
<1>3. QED  BY <1>1, <1>2

LEMMA Counted ==
  ASSUME NEW n \in Byte
  PROVE  Cardinality(Bits(n)) = Ones(n)
<1> DEFINE B(k) == {i \in 0 .. k - 1 : Bit(n, i)}
           Good(k, m) == IsFiniteSet(B(k)) /\ Cardinality(B(k)) = m /\ m \in Nat
<1>1. \A k \in 0 .. 7 : BitOf(n, k) \in {0, 1}
  BY ByteFacts
<1>2. Good(0, 0)
  <2>1. B(0) = {}
    OBVIOUS
  <2>2. QED  BY <2>1, FS_EmptySet
<1>3. ASSUME NEW k \in 0 .. 7, NEW m, Good(k, m) PROVE Good(k + 1, m + BitOf(n, k))
  <2>1. k \notin B(k)
    OBVIOUS
  <2>2. B(k + 1) = B(k) \union {i \in {k} : Bit(n, i)}
    OBVIOUS
  <2> HIDE DEF B
  <2>3. QED  BY <1>1, <1>3, <2>1, <2>2, OneMore
<1> HIDE DEF Good
<1>4. Good(1, BitOf(n, 0))
  BY <1>1, <1>2, <1>3
<1>5. Good(2, BitOf(n, 0) + BitOf(n, 1))
  BY <1>3, <1>4
<1>6. Good(3, BitOf(n, 0) + BitOf(n, 1) + BitOf(n, 2))
  BY <1>3, <1>5
<1>7. Good(4, BitOf(n, 0) + BitOf(n, 1) + BitOf(n, 2) + BitOf(n, 3))
  BY <1>3, <1>6
<1>8. Good(5, BitOf(n, 0) + BitOf(n, 1) + BitOf(n, 2) + BitOf(n, 3) + BitOf(n, 4))
  BY <1>3, <1>7
<1>9. Good(6, BitOf(n, 0) + BitOf(n, 1) + BitOf(n, 2) + BitOf(n, 3) + BitOf(n, 4)
                + BitOf(n, 5))
  BY <1>3, <1>8
<1>10. Good(7, BitOf(n, 0) + BitOf(n, 1) + BitOf(n, 2) + BitOf(n, 3) + BitOf(n, 4)
                 + BitOf(n, 5) + BitOf(n, 6))
  BY <1>3, <1>9
<1>11. Good(8, Ones(n))
  BY <1>3, <1>10 DEF Ones
<1>12. B(8) = Bits(n)
  BY DEF Bits
<1>13. QED  BY <1>11, <1>12 DEF Good

(* makeparitytable.c counts the same bits, in a loop.                      *)
LEMMA CountLoop ==
  ASSUME NEW n \in Byte
  PROVE  count_set_bits(n, 8) = Ones(n)
<1> DEFINE Round(g) == [i \in 0 .. 8 |-> IF i = 0 THEN 0 ELSE g[i - 1] + BitOf(n, i - 1)]
           count == CHOOSE g : g = Round(g)
           s == <<BitOf(n, 0), BitOf(n, 1), BitOf(n, 2), BitOf(n, 3),
                  BitOf(n, 4), BitOf(n, 5), BitOf(n, 6), BitOf(n, 7)>>
           w == [i \in 0 .. 8 |->
                   CASE i = 0 -> 0
                     [] i = 1 -> s[1]
                     [] i = 2 -> s[1] + s[2]
                     [] i = 3 -> s[1] + s[2] + s[3]
                     [] i = 4 -> s[1] + s[2] + s[3] + s[4]
                     [] i = 5 -> s[1] + s[2] + s[3] + s[4] + s[5]
                     [] i = 6 -> s[1] + s[2] + s[3] + s[4] + s[5] + s[6]
                     [] i = 7 -> s[1] + s[2] + s[3] + s[4] + s[5] + s[6] + s[7]
                     [] i = 8 -> s[1] + s[2] + s[3] + s[4] + s[5] + s[6] + s[7] + s[8]]
<1>1. w = Round(w)
  <2>1. \A j \in 1 .. 8 : s[j] \in Int /\ BitOf(n, j - 1) = s[j]
    BY ByteFacts
  <2> HIDE DEF s
  <2>2. ASSUME NEW i \in 1 .. 8 PROVE w[i] = w[i - 1] + s[i]
    <3>1. i \in {1, 2, 3, 4, 5, 6, 7, 8}
      OBVIOUS
    <3>2. QED  BY <2>1, <3>1
  <2>3. \A i \in 0 .. 8 : w[i] = IF i = 0 THEN 0 ELSE w[i - 1] + BitOf(n, i - 1)
    BY <2>1, <2>2
  <2>4. w = [i \in 0 .. 8 |-> w[i]]
    OBVIOUS
  <2> HIDE DEF w
  <2>5. QED  BY <2>3, <2>4
<1>2. count = Round(count)
  <2> HIDE DEF Round, w
  <2>1. \E g : g = Round(g)
    BY <1>1
  <2>2. QED  BY <2>1
<1>3. count_set_bits(n, 8) = IF n = 0 THEN 0 ELSE count[8]
  BY DEF count_set_bits
<1> HIDE DEF count
<1>4. count[8] = Ones(n)
  <2>1. count[0] = 0 /\ \A i \in 1 .. 8 : count[i] = count[i - 1] + BitOf(n, i - 1)
    BY <1>2
  <2>2. QED  BY <2>1, ByteFacts DEF Ones
<1>5. n = 0 => Ones(n) = 0
  BY Z3 DEF Ones, BitOf, Weight
<1>6. QED  BY <1>3, <1>4, <1>5

\* What FlagsDescribeResult says of flags g and a byte n.
Describes(g, n) ==
  /\ FLAG_Z \in g <=> n = 0
  /\ FLAG_S \in g <=> n >= 128
  /\ FLAG_P \in g <=> Cardinality(Bits(n)) % 2 = 0
  /\ FLAG_P \in g <=> makeparitytable[n + 1] = 1

LEMMA Described ==
  ASSUME NEW n \in Byte, NEW g,
         FLAG_Z \in g <=> n = 0, FLAG_S \in g <=> Bit(n, 7),
         FLAG_P \in g <=> parity_table[n + 1] # 0
  PROVE  Describes(g, n)
<1>1. Bit(n, 7) <=> n >= 128
  BY ByteBounds, Z3 DEF Bit, BitOf, Weight
<1>2. parity_table[n + 1] # 0 <=> Cardinality(Bits(n)) % 2 = 0
  BY ParityEntry, Counted
<1>3. parity_table[n + 1] # 0 <=> makeparitytable[n + 1] = 1
  <2>1. n + 1 \in 1 .. 256 /\ (n + 1) - 1 = n
    BY ByteBounds
  <2>2. makeparitytable[n + 1] = is_even(Ones(n))
    BY <2>1, CountLoop DEF makeparitytable
  <2>3. QED  BY <2>2, ParityEntry DEF is_even
<1>4. QED  BY <1>1, <1>2, <1>3 DEF Describes

LEMMA ArithDescribes ==
  ASSUME NEW x, NEW g, NEW val, NEW tmp16 \in Int, NEW table
  PROVE  LET r == Arith(x, g, val, tmp16, table)
         IN  Describes(r.f, r.a) /\ r.a = tmp16 % 256
<1> DEFINE r == Arith(x, g, val, tmp16, table)
<1>1. tmp16 % 256 \in Byte
  BY ByteFacts
<1>2. /\ r.a = tmp16 % 256
      /\ FLAG_Z \in r.f <=> tmp16 % 256 = 0
      /\ FLAG_S \in r.f <=> Bit(tmp16 % 256, 7)
      /\ FLAG_P \in r.f <=> parity_table[(tmp16 % 256) + 1] # 0
  BY ArithFlags
<1> HIDE DEF r
<1>3. Describes(r.f, r.a)
  BY <1>1, <1>2, Described
<1>4. QED  BY <1>2, <1>3 DEF r

LEMMA LogicDescribes ==
  ASSUME NEW g, NEW n \in Byte, NEW on
  PROVE  Describes(Logic(g, n, on).f, n) /\ Logic(g, n, on).a = n
<1> DEFINE h == set_flag_to(set_flag_to(g, FLAG_C, FALSE), FLAG_AC, on)
<1>1. Logic(g, n, on).a = n /\ Logic(g, n, on).f = ResultFlags(h, n)
  BY DEF Logic
<1> HIDE DEF h
<1>2. Describes(ResultFlags(h, n), n)
  BY ResultFlag, Described
<1>3. QED  BY <1>1, <1>2

(* Every operation, on every accumulator, operand and flags, leaves Z, S   *)
(* and P of the byte it computed; the literal table of parities, what      *)
(* makeparitytable.c prints and the number of ones agree.                  *)
THEOREM Describing == Spec => []FlagsDescribeResult
<1>1. ASSUME AluInv, NEW val \in Operands, NEW k \in 0 .. 7
      PROVE  LET r == alu(k, a, f, val)
             IN  Describes(r.f, IF k = 7 THEN (a - val) % 256 ELSE r.a)
  <2> DEFINE r == alu(k, a, f, val)
  <2>1. val \in Byte /\ a \in Byte /\ Carry(f) \in 0 .. 1
    BY <1>1, OperandsAssumption, CarryBit DEF OperandsAssumption, AluInv
  <2>2. /\ (a + val) % 65536 \in Int /\ (a + val + Carry(f)) % 65536 \in Int
        /\ (a - val) % 65536 \in Int /\ (a - val - Carry(f)) % 65536 \in Int
    BY <2>1, ByteBounds
  <2>3. k \in {0, 1, 2, 3} => Describes(r.f, r.a)
    <3>1. /\ Describes(op_add(a, f, val).f, op_add(a, f, val).a)
          /\ Describes(op_adc(a, f, val).f, op_adc(a, f, val).a)
      BY <2>2, ArithDescribes DEF op_add, op_adc
    <3>2. /\ Describes(op_sub(a, f, val).f, op_sub(a, f, val).a)
          /\ Describes(op_sbb(a, f, val).f, op_sbb(a, f, val).a)
      BY <2>2, ArithDescribes DEF op_sub, op_sbb
    <3>3. QED  BY <3>1, <3>2 DEF alu
  <2>4. k \in {4, 5, 6} => Describes(r.f, r.a)
    <3>1. /\ Describes(op_ana(a, f, val).f, op_ana(a, f, val).a)
          /\ Describes(op_xra(a, f, val).f, op_xra(a, f, val).a)
          /\ Describes(op_ora(a, f, val).f, op_ora(a, f, val).a)
      BY ByteOfIsByte, LogicDescribes DEF op_ana, op_xra, op_ora, BitAnd, BitXor, BitOr
    <3>2. QED  BY <3>1 DEF alu
  <2>5. k = 7 => Describes(r.f, (a - val) % 256)
    <3>1. op_cmp(a, f, val).f = op_sub(a, f, val).f
      BY DEF op_cmp, op_sub, Arith
    <3>2. Describes(op_sub(a, f, val).f, ((a - val) % 65536) % 256)
      BY <2>2, ArithDescribes DEF op_sub
    <3>3. ((a - val) % 65536) % 256 = (a - val) % 256
      BY <2>1, ByteBounds, Z3
    <3>4. k = 7 => r = op_cmp(a, f, val)
      BY DEF alu
    <3> HIDE DEF r
    <3>5. QED  BY <3>1, <3>2, <3>3, <3>4
  <2>6. k \in {0, 1, 2, 3} \/ k \in {4, 5, 6} \/ k = 7
    OBVIOUS
  <2> HIDE DEF r
  <2>7. Describes(r.f, IF k = 7 THEN (a - val) % 256 ELSE r.a)
    BY <2>3, <2>4, <2>5, <2>6
  <2>8. QED  BY <2>7 DEF r
<1>2. AluInv => FlagsDescribeResult
  BY <1>1 DEF FlagsDescribeResult, Describes
<1>3. QED  BY <1>2, AluInvariance, PTL

-----------------------------------------------------------------------------
(* DAA, in arithmetic: x is the byte a binary addition of two decimal      *)
(* bytes left, L and H the sums of their low and high digits, the carry    *)
(* that came in being in L.                                                *)
Low(x, L) == x % 16 > 9 \/ L >= 16
High(x, L, H) == x \div 16 > 9 \/ 16 * H + L >= 256 \/ (x \div 16 >= 9 /\ x % 16 > 9)
Inc(x, L, H) == (IF Low(x, L) THEN 6 ELSE 0) + (IF High(x, L, H) THEN 96 ELSE 0)

LEMMA Adjusted ==
  ASSUME NEW L \in 0 .. 19, NEW H \in 0 .. 18, NEW x \in Byte,
         x = (16 * H + L) % 256
  PROVE  LET r == (x + Inc(x, L, H)) % 256
         IN  /\ r \div 16 <= 9 /\ r % 16 <= 9
             /\ 10 * (r \div 16) + (r % 16) + (IF High(x, L, H) THEN 100 ELSE 0)
                  = 10 * H + L
  BY ByteBounds, Z3 DEF Inc, Low, High

\* op_daa on the result s of such an addition.
LEMMA DaaAdjusts ==
  ASSUME NEW L \in 0 .. 19, NEW H \in 0 .. 18, NEW s, s.a \in Byte,
         s.a = (16 * H + L) % 256,
         FLAG_C \in s.f <=> 16 * H + L >= 256, FLAG_AC \in s.f <=> L >= 16
  PROVE  LET r == op_daa(s.a, s.f)
         IN  IsDecimal(r.a) /\ Decimal(r.a) + 100 * Carry(r.f) = 10 * H + L
<1> DEFINE x    == s.a
           low  == x % 16 > 9 \/ FLAG_AC \in s.f
           high == x \div 16 > 9 \/ FLAG_C \in s.f \/ (x \div 16 >= 9 /\ x % 16 > 9)
           inc  == (IF low THEN 6 ELSE 0) + (IF high THEN 96 ELSE 0)
           v    == (x + inc) % 256
           r    == op_daa(x, s.f)
<1>1. /\ v \div 16 <= 9 /\ v % 16 <= 9
      /\ 10 * (v \div 16) + (v % 16) + (IF high THEN 100 ELSE 0) = 10 * H + L
  <2>1. (low <=> Low(x, L)) /\ (high <=> High(x, L, H))
    BY DEF Low, High
  <2>2. x \in Byte /\ x = (16 * H + L) % 256
    OBVIOUS
  <2> HIDE DEF x, low, high
  <2>3. inc = Inc(x, L, H)
    BY <2>1 DEF Inc
  <2> HIDE DEF inc
  <2>4. QED  BY <2>1, <2>2, <2>3, Adjusted
<1>2. inc \in Int /\ 0 <= inc /\ inc <= 102
  OBVIOUS
<1>3. x \in Int /\ 0 <= x /\ x < 256
  BY ByteBounds
<1>4. r = [op_add(x, s.f, inc) EXCEPT !.f = set_flag_to(@, FLAG_C, high)]
  BY DEF op_daa
<1>5. op_add(x, s.f, inc) = Arith(x, s.f, inc, (x + inc) % 65536, ac_table)
  BY DEF op_add
<1>6. r.a = v
  <2>1. ((x + inc) % 65536) % 256 = v
    <3> HIDE DEF inc
    <3>1. QED  BY <1>2, <1>3, Z3
  <2> HIDE DEF high, inc, v, r
  <2>2. QED  BY <1>4, <1>5, <2>1 DEF Arith
<1>7. FLAG_C \in r.f <=> high
  <2>1. r.f = set_flag_to(op_add(x, s.f, inc).f, FLAG_C, high)
    <3> HIDE DEF high, inc, r
    <3>1. QED  BY <1>4, <1>5 DEF Arith
  <2>2. FLAG_C \in set_flag_to(op_add(x, s.f, inc).f, FLAG_C, high) <=> high
    BY DEF set_flag_to
  <2> HIDE DEF high, inc, r
  <2>3. QED  BY <2>1, <2>2
<1>8. 100 * Carry(r.f) = IF high THEN 100 ELSE 0
  <2> HIDE DEF high, r
  <2>1. QED  BY <1>7 DEF Carry
<1>9. QED
  <2> HIDE DEF high, inc, v, r
  <2>1. IsDecimal(r.a) /\ Decimal(r.a) + 100 * Carry(r.f) = 10 * H + L
    BY <1>1, <1>6, <1>8 DEF IsDecimal, Decimal
  <2>2. QED  BY <2>1 DEF r

(* Two decimal bytes added by ADD or ADC and adjusted by DAA give the      *)
(* decimal sum, its hundreds in the carry, whatever the flags were.        *)
THEOREM DecimalAdding == Spec => []DecimalSum
<1>1. ASSUME NEW x \in Byte, NEW y \in Byte, IsDecimal(x), IsDecimal(y),
             NEW c \in 0 .. 1, NEW g
      PROVE  LET s == Arith(x, g, y, (x + y + c) % 65536, ac_table)
                 r == op_daa(s.a, s.f)
             IN  IsDecimal(r.a) /\ Decimal(r.a) + 100 * Carry(r.f) = Decimal(x) + Decimal(y) + c
  <2> DEFINE s == Arith(x, g, y, (x + y + c) % 65536, ac_table)
             L == (x % 16) + (y % 16) + c
             H == (x \div 16) + (y \div 16)
  <2>1. /\ 256 * Carry(s.f) + s.a = x + y + c /\ s.a \in Byte
        /\ FLAG_C \in s.f <=> x + y + c >= 256
        /\ FLAG_AC \in s.f <=> (x % 16) + (y % 16) + c >= 16
    BY Sum
  <2>2. /\ x \in Int /\ 0 <= x /\ x < 256 /\ y \in Int /\ 0 <= y /\ y < 256
        /\ x \div 16 <= 9 /\ x % 16 <= 9 /\ y \div 16 <= 9 /\ y % 16 <= 9
    BY <1>1, ByteBounds DEF IsDecimal
  <2>3. L \in 0 .. 19 /\ H \in 0 .. 18 /\ x + y + c = 16 * H + L
    BY <2>2, Z3
  <2>4. 10 * H + L = Decimal(x) + Decimal(y) + c
    <3>1. /\ x \div 16 \in Int /\ y \div 16 \in Int /\ x % 16 \in Int /\ y % 16 \in Int
      BY <2>2, Z3
    <3>2. QED  BY <3>1 DEF Decimal
  <2> HIDE DEF s, L, H
  <2>5. s.a = (16 * H + L) % 256
    <3>1. Carry(s.f) \in 0 .. 1
      BY CarryBit
    <3>2. s.a \in Int /\ 0 <= s.a /\ s.a < 256
      BY <2>1, ByteBounds
    <3>3. QED  BY <2>1, <2>3, <3>1, <3>2, Z3
  <2>6. /\ FLAG_C \in s.f <=> 16 * H + L >= 256
        /\ FLAG_AC \in s.f <=> L >= 16
    BY <2>1, <2>3 DEF L
  <2>7. IsDecimal(op_daa(s.a, s.f).a)
        /\ Decimal(op_daa(s.a, s.f).a) + 100 * Carry(op_daa(s.a, s.f).f) = 10 * H + L
    BY <2>1, <2>3, <2>5, <2>6, DaaAdjusts
  <2>8. QED  BY <2>4, <2>7 DEF s
<1>2. ASSUME AluInv PROVE DecimalSum
  <2> SUFFICES ASSUME IsDecimal(a), NEW val \in Byte, IsDecimal(val)
               PROVE  LET IsSum(s, c) ==
                            LET r == op_daa(s.a, s.f)
                            IN  /\ IsDecimal(r.a)
                                /\ Decimal(r.a) + 100 * Carry(r.f)
                                     = Decimal(a) + Decimal(val) + c
                      IN  IsSum(op_add(a, f, val), 0) /\ IsSum(op_adc(a, f, val), Carry(f))
    BY DEF DecimalSum
  <2>1. a \in Byte /\ 0 \in 0 .. 1 /\ Carry(f) \in 0 .. 1
    BY <1>2, CarryBit DEF AluInv
  <2>2. op_add(a, f, val) = Arith(a, f, val, (a + val + 0) % 65536, ac_table)
    BY <2>1, ByteBounds DEF op_add
  <2>3. op_adc(a, f, val) = Arith(a, f, val, (a + val + Carry(f)) % 65536, ac_table)
    BY DEF op_adc
  <2>4. QED  BY <1>1, <2>1, <2>2, <2>3
<1>3. QED  BY <1>2, AluInvariance, PTL
=============================================================================
