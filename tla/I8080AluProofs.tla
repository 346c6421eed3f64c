--------------------------- MODULE I8080AluProofs ---------------------------
(***************************************************************************)
(* What every operation of I8080Alu returns, for every operand: a byte,    *)
(* and flags whose unused bits are as they were.                           *)
(***************************************************************************)
EXTENDS I8080Alu, TLAPS

\* Flags whose unused bits have the values i8080_init gives them.
GoodFlags(f) == f \subseteq 0 .. 7 /\ FixedOnes \subseteq f /\ f \intersect FixedZeros = {}

\* What alu and accumulate return.
GoodResult(r) == r.a \in Byte /\ GoodFlags(r.f)

Flags == {FLAG_C, FLAG_P, FLAG_AC, FLAG_Z, FLAG_S}

-----------------------------------------------------------------------------
(* Byte and Word by their bounds.                                          *)
LEMMA RangeBounds ==
  ASSUME NEW m \in Int
  PROVE  \A n : n \in 0 .. m - 1 <=> n \in Int /\ 0 <= n /\ n < m
  OBVIOUS

LEMMA ByteBounds ==
  \A n : n \in Byte <=> n \in Int /\ 0 <= n /\ n < 256
<1>1. Bytes256 = 256
  BY DEF Bytes256
<1>2. Bytes256 \in Int
  BY <1>1
<1>3. \A n : n \in Byte <=> n \in Int /\ 0 <= n /\ n < Bytes256
  BY <1>2, RangeBounds, Zenon DEF Byte
<1>4. QED  BY <1>1, <1>3

LEMMA WordBounds ==
  \A n : n \in Word <=> n \in Int /\ 0 <= n /\ n < 65536
<1>1. Words65536 = 65536
  BY DEF Words65536
<1>2. Words65536 \in Int
  BY <1>1
<1>3. \A n : n \in Word <=> n \in Int /\ 0 <= n /\ n < Words65536
  BY <1>2, RangeBounds, Zenon DEF Word
<1>4. QED  BY <1>1, <1>3

(* set_flag_to, on one of the five flags, leaves the unused bits alone.    *)
LEMMA SetFlagGood ==
  ASSUME NEW f, GoodFlags(f), NEW flag \in Flags, NEW val
  PROVE  GoodFlags(set_flag_to(f, flag, val))
<1>1. flag \in {0, 2, 4, 6, 7}
  BY DEF Flags, FLAG_C, FLAG_P, FLAG_AC, FLAG_Z, FLAG_S
<1>2. GoodFlags(f \union {flag}) /\ GoodFlags(f \ {flag})
  BY <1>1 DEF GoodFlags, FixedOnes, FixedZeros
<1>3. QED
  BY <1>2 DEF set_flag_to

LEMMA ResultFlagsGood ==
  ASSUME NEW f, GoodFlags(f), NEW r
  PROVE  GoodFlags(ResultFlags(f, r))
<1>1. FLAG_P \in Flags /\ FLAG_Z \in Flags /\ FLAG_S \in Flags
  BY DEF Flags
<1> DEFINE p == set_flag_to(f, FLAG_P, parity_table[r + 1] # 0)
           z == set_flag_to(p, FLAG_Z, r = 0)
<1>2. GoodFlags(p)
  BY <1>1, SetFlagGood
<1>3. GoodFlags(z)
  <2> HIDE DEF p
  <2>1. QED  BY <1>1, <1>2, SetFlagGood
<1>4. GoodFlags(set_flag_to(z, FLAG_S, Bit(r, 7)))
  <2> HIDE DEF z
  <2>1. QED  BY <1>1, <1>3, SetFlagGood
<1>5. QED
  BY <1>4 DEF ResultFlags

-----------------------------------------------------------------------------
(* The low byte of any integer is a byte, its bits are 0 or 1.             *)
LEMMA ByteFacts ==
  /\ \A n \in Int : n % 256 \in Byte
  /\ \A n \in Byte : \A i \in 0 .. 7 : BitOf(n, i) \in {0, 1}
<1>1. \A n \in Int : n % 256 \in Byte
  BY ByteBounds, Z3
<1>2. \A n \in Byte : \A i \in 0 .. 7 : BitOf(n, i) \in {0, 1}
  BY ByteBounds, Z3 DEF BitOf, Weight
<1>3. QED  BY <1>1, <1>2

LEMMA WordFact ==
  ASSUME NEW n \in Int
  PROVE  n % 65536 \in Word
  BY WordBounds, Z3

LEMMA ByteOfIsByte ==
  ASSUME NEW S
  PROVE  ByteOf(S) \in Byte
  BY ByteBounds, Z3 DEF ByteOf, Weight

LEMMA ArithGood ==
  ASSUME NEW a, NEW f, GoodFlags(f), NEW val, NEW tmp16 \in Int, NEW table
  PROVE  GoodResult(Arith(a, f, val, tmp16, table))
<1>1. tmp16 % 256 \in Byte
  BY ByteFacts
<1>2. FLAG_C \in Flags /\ FLAG_AC \in Flags
  BY DEF Flags
<1> DEFINE cy == set_flag_to(f, FLAG_C, Bit(tmp16, 8))
           ac == set_flag_to(cy, FLAG_AC, table[acindex(a, val, tmp16) + 1] # 0)
<1>3. GoodFlags(cy)
  BY <1>2, SetFlagGood
<1>4. GoodFlags(ac)
  <2> HIDE DEF cy
  <2>1. QED  BY <1>2, <1>3, SetFlagGood
<1>5. GoodFlags(ResultFlags(ac, tmp16 % 256))
  <2> HIDE DEF ac
  <2>1. QED  BY <1>4, ResultFlagsGood
<1>6. QED
  BY <1>1, <1>5 DEF Arith, GoodResult

LEMMA LogicGood ==
  ASSUME NEW f, GoodFlags(f), NEW r \in Byte, NEW on
  PROVE  GoodResult(Logic(f, r, on))
<1>1. FLAG_C \in Flags /\ FLAG_AC \in Flags
  BY DEF Flags
<1> DEFINE cy == set_flag_to(f, FLAG_C, FALSE)
           ac == set_flag_to(cy, FLAG_AC, on)
<1>2. GoodFlags(cy)
  BY <1>1, SetFlagGood
<1>3. GoodFlags(ac)
  <2> HIDE DEF cy
  <2>1. QED  BY <1>1, <1>2, SetFlagGood
<1>4. GoodFlags(ResultFlags(ac, r))
  <2> HIDE DEF ac
  <2>1. QED  BY <1>3, ResultFlagsGood
<1>5. QED
  BY <1>4 DEF Logic, GoodResult

-----------------------------------------------------------------------------
(* ADD .. CMP, of any operand and any flags.                               *)
LEMMA AluGood ==
  ASSUME NEW a \in Byte, NEW f, GoodFlags(f), NEW val \in Byte, NEW k
  PROVE  GoodResult(alu(k, a, f, val))
<1>1. Carry(f) \in {0, 1}
  BY DEF Carry
<1>2. /\ (a + val) % 65536 \in Int /\ (a + val + Carry(f)) % 65536 \in Int
      /\ (a - val) % 65536 \in Int /\ (a - val - Carry(f)) % 65536 \in Int
  BY <1>1, ByteBounds
<1>3. GoodResult(op_add(a, f, val)) /\ GoodResult(op_adc(a, f, val))
  BY <1>2, ArithGood DEF op_add, op_adc
<1>4. GoodResult(op_sub(a, f, val)) /\ GoodResult(op_sbb(a, f, val))
  BY <1>2, ArithGood DEF op_sub, op_sbb
<1>5. GoodResult(op_cmp(a, f, val))
  BY <1>4 DEF op_cmp, op_sub, Arith, GoodResult
<1>6. GoodResult(op_ana(a, f, val)) /\ GoodResult(op_xra(a, f, val))
      /\ GoodResult(op_ora(a, f, val))
  BY ByteOfIsByte, LogicGood DEF op_ana, op_xra, op_ora, BitAnd, BitXor, BitOr
<1>7. QED
  BY <1>3, <1>4, <1>5, <1>6 DEF alu

(* A byte shifted left or right has room for the bit that comes in.        *)
LEMMA ShiftGood ==
  ASSUME NEW a \in Byte, NEW bit \in {0, 1}
  PROVE  ((2 * a) % 256) + bit \in Byte /\ (a \div 2) + 128 * bit \in Byte
<1>1. ((2 * a) % 256) + bit \in Byte
  <2>1. CASE a < 128
    <3>1. (2 * a) % 256 = 2 * a
      BY <2>1, ByteBounds, Z3
    <3>2. QED  BY <3>1, <2>1, ByteBounds, Z3
  <2>2. CASE a >= 128
    <3>1. (2 * a) % 256 = 2 * a - 256
      BY <2>2, ByteBounds, Z3
    <3>2. QED  BY <3>1, <2>2, ByteBounds, Z3
  <2>3. QED  BY <2>1, <2>2, ByteBounds
<1>2. (a \div 2) + 128 * bit \in Byte
  <2>1. a \div 2 \in 0 .. 127
    BY ByteBounds, Z3
  <2>2. 128 * bit \in {0, 128}
    OBVIOUS
  <2>3. QED  BY <2>1, <2>2, ByteBounds
<1>3. QED  BY <1>1, <1>2

(* RLC .. CMC.                                                             *)
LEMMA AccumulateGood ==
  ASSUME NEW a \in Byte, NEW f, GoodFlags(f), NEW k
  PROVE  GoodResult(accumulate(k, a, f))
<1>1. FLAG_C \in Flags
  BY DEF Flags
<1>2. Carry(f) \in {0, 1} /\ BitOf(a, 7) \in {0, 1} /\ BitOf(a, 0) \in {0, 1}
  BY ByteFacts DEF Carry
<1>3. /\ ((2 * a) % 256) + BitOf(a, 7) \in Byte
      /\ ((2 * a) % 256) + Carry(f) \in Byte
      /\ (a \div 2) + 128 * BitOf(a, 0) \in Byte
      /\ (a \div 2) + 128 * Carry(f) \in Byte
  BY <1>2, ShiftGood
<1>4. GoodResult(op_rlc(a, f)) /\ GoodResult(op_ral(a, f))
  BY <1>1, <1>3, SetFlagGood DEF op_rlc, op_ral, GoodResult
<1>5. GoodResult(op_rrc(a, f)) /\ GoodResult(op_rar(a, f))
  BY <1>1, <1>3, SetFlagGood DEF op_rrc, op_rar, GoodResult
<1>6. GoodResult(op_daa(a, f))
  <2> DEFINE low  == a % 16 > 9 \/ FLAG_AC \in f
             high == a \div 16 > 9 \/ FLAG_C \in f \/ (a \div 16 >= 9 /\ a % 16 > 9)
             inc  == (IF low THEN 6 ELSE 0) + (IF high THEN 96 ELSE 0)
  <2>1. inc \in Byte
    BY ByteBounds
  <2>2. (a + inc) % 65536 \in Int
    <3> HIDE DEF inc
    <3>1. QED  BY <2>1, ByteBounds
  <2>3. GoodResult(op_add(a, f, inc))
    <3> HIDE DEF inc
    <3>1. QED  BY <2>2, ArithGood DEF op_add
  <2>4. GoodFlags(set_flag_to(op_add(a, f, inc).f, FLAG_C, high))
    <3> HIDE DEF inc, high
    <3>1. QED  BY <2>3, <1>1, SetFlagGood DEF GoodResult
  <2>5. op_daa(a, f) = [op_add(a, f, inc) EXCEPT !.f = set_flag_to(@, FLAG_C, high)]
    BY DEF op_daa
  <2>6. op_daa(a, f).a = op_add(a, f, inc).a
        /\ op_daa(a, f).f = set_flag_to(op_add(a, f, inc).f, FLAG_C, high)
    <3> HIDE DEF inc, high
    <3>1. QED  BY <2>5 DEF op_add, Arith
  <2>7. QED
    BY <2>3, <2>4, <2>6 DEF GoodResult
<1>7. GoodResult(op_cma(a, f)) /\ GoodResult(op_stc(a, f)) /\ GoodResult(op_cmc(a, f))
  BY <1>1, ByteOfIsByte, SetFlagGood DEF op_cma, op_stc, op_cmc, BitXor, GoodResult
<1>8. QED
  BY <1>4, <1>5, <1>6, <1>7 DEF accumulate

(* INR and DCR, of a register or of memory; DAD.                           *)
LEMMA IncrementGood ==
  ASSUME NEW f, GoodFlags(f), NEW val \in Byte
  PROVE  /\ op_inr(f, val).v \in Byte /\ GoodFlags(op_inr(f, val).f)
         /\ op_dcr(f, val).v \in Byte /\ GoodFlags(op_dcr(f, val).f)
<1>1. (val + 1) % 256 \in Byte /\ (val - 1) % 256 \in Byte
  BY ByteFacts, ByteBounds
<1>2. FLAG_AC \in Flags
  BY DEF Flags
<1>3. \A r, on : GoodFlags(ResultFlags(set_flag_to(f, FLAG_AC, on), r))
  BY <1>2, SetFlagGood, ResultFlagsGood
<1>4. QED
  BY <1>1, <1>3 DEF op_inr, op_dcr

LEMMA DadGood ==
  ASSUME NEW hl \in Word, NEW f, GoodFlags(f), NEW val \in Word
  PROVE  op_dad(hl, f, val).hl \in Word /\ GoodFlags(op_dad(hl, f, val).f)
<1>1. (hl + val) % 65536 \in Word
  <2>1. hl + val \in Int
    BY WordBounds
  <2>2. QED  BY <2>1, WordFact
<1>2. FLAG_C \in Flags
  BY DEF Flags
<1>3. QED
  BY <1>1, <1>2, SetFlagGood DEF op_dad
=============================================================================
