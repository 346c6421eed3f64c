------------------------------ MODULE I8080Alu ------------------------------
(***************************************************************************)
(* The arithmetic of i8080.c: what each op_ function computes from the     *)
(* accumulator a, the flags f and an operand.  The flags register is the   *)
(* set of its one bits, so that set_flag_to is set union or difference.    *)
(* An operation that writes the accumulator returns [a, f]; op_inr and     *)
(* op_dcr, which the C code gives any register, return [v, f].             *)
(***************************************************************************)
EXTENDS Words

FLAG_C  == 0
FLAG_P  == 2
FLAG_AC == 4
FLAG_Z  == 6
FLAG_S  == 7

\* The bits no instruction may change: bit 1 reads 1, bits 3 and 5 read 0.
FixedOnes  == {1}
FixedZeros == {3, 5}

parity_table == <<
  1, 0, 0, 1, 0, 1, 1, 0, 0, 1, 1, 0, 1, 0, 0, 1, 0, 1, 1, 0, 1, 0, 0, 1, 1, 0,
  0, 1, 0, 1, 1, 0, 0, 1, 1, 0, 1, 0, 0, 1, 1, 0, 0, 1, 0, 1, 1, 0, 1, 0, 0, 1,
  0, 1, 1, 0, 0, 1, 1, 0, 1, 0, 0, 1, 0, 1, 1, 0, 1, 0, 0, 1, 1, 0, 0, 1, 0, 1,
  1, 0, 1, 0, 0, 1, 0, 1, 1, 0, 0, 1, 1, 0, 1, 0, 0, 1, 1, 0, 0, 1, 0, 1, 1, 0,
  0, 1, 1, 0, 1, 0, 0, 1, 0, 1, 1, 0, 1, 0, 0, 1, 1, 0, 0, 1, 0, 1, 1, 0, 0, 1,
  1, 0, 1, 0, 0, 1, 1, 0, 0, 1, 0, 1, 1, 0, 1, 0, 0, 1, 0, 1, 1, 0, 0, 1, 1, 0,
  1, 0, 0, 1, 1, 0, 0, 1, 0, 1, 1, 0, 0, 1, 1, 0, 1, 0, 0, 1, 0, 1, 1, 0, 1, 0,
  0, 1, 1, 0, 0, 1, 0, 1, 1, 0, 1, 0, 0, 1, 0, 1, 1, 0, 0, 1, 1, 0, 1, 0, 0, 1,
  0, 1, 1, 0, 1, 0, 0, 1, 1, 0, 0, 1, 0, 1, 1, 0, 0, 1, 1, 0, 1, 0, 0, 1, 1, 0,
  0, 1, 0, 1, 1, 0, 1, 0, 0, 1, 0, 1, 1, 0, 0, 1, 1, 0, 1, 0, 0, 1 >>

ac_table          == << 0, 0, 1, 0, 1, 0, 1, 1 >>
subtract_ac_table == << 1, 0, 0, 0, 1, 1, 1, 0 >>

set_flag_to(f, flag, val) == IF val THEN f \union {flag} ELSE f \ {flag}

Carry(f) == IF FLAG_C \in f THEN 1 ELSE 0

\* Fault: the zero flag is set and never reset.
ResultFlags_sticky_z(f, r) ==
  LET p == set_flag_to(f, FLAG_P, parity_table[r + 1] # 0)
      z == IF r = 0 THEN p \union {FLAG_Z} ELSE p
  IN  set_flag_to(z, FLAG_S, Bit(r, 7))

\* The flags every arithmetic and logical operation takes from its result r.
ResultFlags(f, r) ==
  LET p == set_flag_to(f, FLAG_P, parity_table[r + 1] # 0)
      z == set_flag_to(p, FLAG_Z, r = 0)
  IN  set_flag_to(z, FLAG_S, Bit(r, 7))

\* The index bits 3 of both operands and of the result make in an ac table.
acindex(a, val, tmp16) == 4 * BitOf(a, 3) + 2 * BitOf(val, 3) + BitOf(tmp16, 3)

\* What op_add, op_adc, op_sub and op_sbb do with their 16-bit result.
Arith(a, f, val, tmp16, table) ==
  LET r  == tmp16 % 256
      cy == set_flag_to(f, FLAG_C, Bit(tmp16, 8))
      ac == set_flag_to(cy, FLAG_AC, table[acindex(a, val, tmp16) + 1] # 0)
  IN  [a |-> r, f |-> ResultFlags(ac, r)]

op_add(a, f, val) == Arith(a, f, val, (a + val) % 65536, ac_table)
\* Fault: ADC without the carry.
op_adc_no_carry(a, f, val) == op_add(a, f, val)
op_adc(a, f, val) == Arith(a, f, val, (a + val + Carry(f)) % 65536, ac_table)
op_sub(a, f, val) == Arith(a, f, val, (a - val) % 65536, subtract_ac_table)
\* Fault: SBB looks up the table of the additions.
op_sbb_add_table(a, f, val) ==
  Arith(a, f, val, (a - val - Carry(f)) % 65536, ac_table)
op_sbb(a, f, val) ==
  Arith(a, f, val, (a - val - Carry(f)) % 65536, subtract_ac_table)

\* op_cmp sets the flags of a subtraction and leaves the accumulator alone.
op_cmp(a, f, val) == [op_sub(a, f, val) EXCEPT !.a = a]

\* What op_ana, op_xra and op_ora do with their result r.
Logic(f, r, ac) ==
  LET cy == set_flag_to(f, FLAG_C, FALSE)
  IN  [a |-> r, f |-> ResultFlags(set_flag_to(cy, FLAG_AC, ac), r)]

op_ana(a, f, val) == Logic(f, BitAnd(a, val), Bit(a, 3) \/ Bit(val, 3))
op_xra(a, f, val) == Logic(f, BitXor(a, val), FALSE)
op_ora(a, f, val) == Logic(f, BitOr(a, val), FALSE)

op_inr(f, val) ==
  LET r == (val + 1) % 256
  IN  [v |-> r, f |-> ResultFlags(set_flag_to(f, FLAG_AC, r % 16 = 0), r)]

\* Fault: the difference is not truncated to 8 bits.
op_dcr_wide(f, val) ==
  [v |-> val - 1,
   f |-> ResultFlags(set_flag_to(f, FLAG_AC, val % 16 # 0), (val - 1) % 256)]
op_dcr(f, val) ==
  LET r == (val - 1) % 256
  IN  [v |-> r, f |-> ResultFlags(set_flag_to(f, FLAG_AC, r % 16 # 15), r)]

\* 16-bit addition to HL: only the carry flag is affected.
op_dad(hl, f, val) ==
  [hl |-> (hl + val) % 65536, f |-> set_flag_to(f, FLAG_C, Bit(hl + val, 16))]

op_rlc(a, f) ==
  [a |-> ((2 * a) % 256) + BitOf(a, 7), f |-> set_flag_to(f, FLAG_C, Bit(a, 7))]
op_rrc(a, f) ==
  [a |-> (a \div 2) + 128 * BitOf(a, 0), f |-> set_flag_to(f, FLAG_C, Bit(a, 0))]
op_ral(a, f) ==
  [a |-> ((2 * a) % 256) + Carry(f), f |-> set_flag_to(f, FLAG_C, Bit(a, 7))]
op_rar(a, f) ==
  [a |-> (a \div 2) + 128 * Carry(f), f |-> set_flag_to(f, FLAG_C, Bit(a, 0))]

\* Fault: the high digit does not look at what the low digit will carry.
op_daa_two_conditions(a, f) ==
  LET low  == a % 16 > 9 \/ FLAG_AC \in f
      high == a \div 16 > 9 \/ FLAG_C \in f
      inc  == (IF low THEN 6 ELSE 0) + (IF high THEN 96 ELSE 0)
  IN  [op_add(a, f, inc) EXCEPT !.f = set_flag_to(@, FLAG_C, high)]

\* Decimal adjust: add 6 to each digit that left 0 .. 9 or carried.
op_daa(a, f) ==
  LET ahi  == a \div 16
      alo  == a % 16
      low  == alo > 9 \/ FLAG_AC \in f
      high == ahi > 9 \/ FLAG_C \in f \/ (ahi >= 9 /\ alo > 9)
      inc  == (IF low THEN 6 ELSE 0) + (IF high THEN 96 ELSE 0)
  IN  [op_add(a, f, inc) EXCEPT !.f = set_flag_to(@, FLAG_C, high)]

\* The operation bits 3..5 of an opcode select in 80 .. bf and c6 .. fe.
alu(k, a, f, val) ==
  CASE k = 0 -> op_add(a, f, val) [] k = 1 -> op_adc(a, f, val)
    [] k = 2 -> op_sub(a, f, val) [] k = 3 -> op_sbb(a, f, val)
    [] k = 4 -> op_ana(a, f, val) [] k = 5 -> op_xra(a, f, val)
    [] k = 6 -> op_ora(a, f, val) [] OTHER -> op_cmp(a, f, val)

op_cma(a, f) == [a |-> BitXor(a, 255), f |-> f]
op_stc(a, f) == [a |-> a, f |-> set_flag_to(f, FLAG_C, TRUE)]
op_cmc(a, f) == [a |-> a, f |-> set_flag_to(f, FLAG_C, FLAG_C \notin f)]

\* The operation of RLC, RRC, RAL, RAR, DAA, CMA, STC, CMC: bits 3..5 again.
accumulate(k, a, f) ==
  CASE k = 0 -> op_rlc(a, f) [] k = 1 -> op_rrc(a, f)
    [] k = 2 -> op_ral(a, f) [] k = 3 -> op_rar(a, f)
    [] k = 4 -> op_daa(a, f) [] k = 5 -> op_cma(a, f)
    [] k = 6 -> op_stc(a, f) [] OTHER -> op_cmc(a, f)
=============================================================================
