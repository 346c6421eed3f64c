----------------------------- MODULE Generators -----------------------------
(***************************************************************************)
(* misc/makearithcases.c and misc/makemovcases.c print the C text of the   *)
(* cases 80 .. bf and 40 .. 7f of i8080_exec_opcode.  What a case prints   *)
(* is modelled by what the printed statements do to the context they run   *)
(* on, ctx in the C text and c here.                                       *)
(***************************************************************************)
EXTENDS I8080

\* Both programs name the registers by this switch.
bits_to_reg == [val \in 0 .. 7 |->
  CASE val = 0 -> "b" [] val = 1 -> "c" [] val = 2 -> "d" [] val = 3 -> "e"
    [] val = 4 -> "h" [] val = 5 -> "l" [] val = 6 -> "m" [] val = 7 -> "a"]

optable == <<"add", "adc", "sub", "sbb", "ana", "xra", "ora", "cmp">>

\* op_<name>(ctx, val), for a name the first program prints.
call_op(c, name, val) ==
  LET A == c.reg["a"]
  IN  set_af(c, CASE name = "add" -> op_add(A, c.f, val)
                  [] name = "adc" -> op_adc(A, c.f, val)
                  [] name = "sub" -> op_sub(A, c.f, val)
                  [] name = "sbb" -> op_sbb(A, c.f, val)
                  [] name = "ana" -> op_ana(A, c.f, val)
                  [] name = "xra" -> op_xra(A, c.f, val)
                  [] name = "ora" -> op_ora(A, c.f, val)
                  [] name = "cmp" -> op_cmp(A, c.f, val))

print_src_mem(c, op) == tick(call_op(c, op, read_byte(c, get_pair(c, HL))), 7)
print_src_reg(c, op, val) == tick(call_op(c, op, c.reg[val]), 4)

\* The case 0x80 .. 0xbf of i in makearithcases.c.
makearithcases(c, i) ==
  LET s == optable[1 + ((i \div 8) % 8)]
  IN  IF i % 8 = 6 THEN print_src_mem(c, s)
      ELSE print_src_reg(c, s, bits_to_reg[i % 8])

print_hlt(c) == tick([c EXCEPT !.halted = TRUE], 7)
print_mov_r8_mem(c, val) ==
  tick(set_reg(c, bits_to_reg[(val \div 8) % 8], read_byte(c, get_pair(c, HL))), 7)
print_mov_mem_r8(c, val) ==
  tick(write_byte(c, get_pair(c, HL), c.reg[bits_to_reg[val % 8]]), 7)
print_mov_r8_r8(c, val) ==
  tick(set_reg(c, bits_to_reg[(val \div 8) % 8], c.reg[bits_to_reg[val % 8]]), 5)

\* The case 0x40 .. 0x7f of i in makemovcases.c.
makemovcases(c, i) ==
  CASE i = \h76                           -> print_hlt(c)
    [] i # \h76 /\ i % 8 = 6              -> print_mov_r8_mem(c, i)
    [] i % 8 # 6 /\ (i \div 8) % 8 = 6    -> print_mov_mem_r8(c, i)
    [] i % 8 # 6 /\ (i \div 8) % 8 # 6    -> print_mov_r8_r8(c, i)

(* The 128 cases of the switch that were generated and then edited by hand *)
(* with the rest of it still do what the generators print: the register    *)
(* the bits name, memory for m, and the cycles of each form.               *)
GeneratedCases ==
  [][FetchExecute =>
       /\ opcode \in 64 .. 127 => ctx' = makemovcases(skip(ctx, 1), opcode)
       /\ opcode \in 128 .. 191 => ctx' = makearithcases(skip(ctx, 1), opcode)]_ctx
=============================================================================
