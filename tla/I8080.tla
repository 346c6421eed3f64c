------------------------------- MODULE I8080 --------------------------------
(***************************************************************************)
(* The processor of i8080.c and the machine its callbacks reach.  The      *)
(* state is struct i8080 (ctx); its functions take a context and return    *)
(* the context they leave.  The machine behind user_data is memory cells,  *)
(* with one address decoder for reads and one for writes, and a device     *)
(* behind the ports: fields mem and dev of ctx.  The callbacks are given   *)
(* ctx->user_data, io_inb alone is given ctx itself (i8080.c:1444): that   *)
(* the same device answers IN as OUT is because both machines begin with   *)
(* the processor, so that the two pointers are one.                        *)
(***************************************************************************)
EXTENDS I8080Alu

CONSTANTS
  Cell, NoCell,           \* the memory cells; what an unmapped address has
  Load(_), Store(_),      \* the cell an address reads, the cell it writes
  OpenBus,                \* what a read of an unmapped address returns
  Device,                 \* the states of the device behind the ports
  IoIn(_, _),             \* io_inb of ctx: the byte a device state has at a port
  IoOut(_, _, _),         \* io_outb of user_data: state, port, value -> state
  BootMem, BootDev, BootPC,   \* what the machine sets after i8080_init
  IntOpcodes,             \* the opcodes it passes to i8080_interrupt
  HostOpcodes,            \* the opcodes it passes to i8080_exec_opcode
  CycleMod                \* number of values of cycles, 2^64 in the code

VARIABLE ctx

RegName == {"a", "b", "c", "d", "e", "h", "l"}

Ctx ==
  [reg : [RegName -> Byte], f : SUBSET (0 .. 7), sp : Word, pc : Word,
   halted : BOOLEAN, int_enable : BOOLEAN, int_requested : BOOLEAN,
   int_opcode : Byte, cycles : 0 .. CycleMod - 1,
   mem : [Cell -> Byte], dev : Device]

\* The callbacks keep to their prototypes in i8080.h.
ASSUME MachineAssumption ==
  /\ NoCell \notin Cell
  /\ \A address \in Word : {Load(address), Store(address)} \subseteq Cell \union {NoCell}
  /\ OpenBus \in Byte
  /\ \A d \in Device, port \in Byte :
       /\ IoIn(d, port) \in Byte
       /\ \A v \in Byte : IoOut(d, port, v) \in Device

\* What the machine is allowed to do with the processor.
ASSUME HostAssumption ==
  /\ \A m \in BootMem : m \in [Cell -> Byte]
  /\ BootDev \in Device
  /\ BootPC \subseteq Word
  /\ IntOpcodes \subseteq Byte
  /\ HostOpcodes \subseteq Byte
  /\ CycleMod \in Nat \ {0}

-----------------------------------------------------------------------------
\* Registers and register pairs.

BC == <<"b", "c">>
DE == <<"d", "e">>
HL == <<"h", "l">>

set_reg(c, r, v) == [c EXCEPT !.reg = [@ EXCEPT ![r] = v]]

get_pair(c, p) == pair(c.reg[p[1]], c.reg[p[2]])
set_pair(c, p, w) == set_reg(set_reg(c, p[1], hi(w)), p[2], lo(w))

\* The accumulator and the flags, where the arithmetic leaves its result.
set_af(c, r) == [set_reg(c, "a", r.a) EXCEPT !.f = r.f]

\* Fault: the flags in the high byte.
get_psw_swapped(c) == pair(ByteOf(c.f), c.reg["a"])
get_psw(c) == pair(c.reg["a"], ByteOf(c.f))
set_psw(c, w) == set_af(c, [a |-> hi(w), f |-> Bits(lo(w))])

\* Fault: only the bits that are always set to 1 are repaired.
FixFlags_ones(c) == [c EXCEPT !.f = @ \union FixedOnes]

\* "Make sure the unused bits are set": before PUSH PSW, after POP PSW.
FixFlags(c) == [c EXCEPT !.f = (@ \union FixedOnes) \ FixedZeros]

-----------------------------------------------------------------------------
\* Memory, instruction stream and stack.

read_byte(c, address) ==
  IF Load(address) = NoCell THEN OpenBus ELSE c.mem[Load(address)]

write_byte(c, address, v) ==
  [c EXCEPT !.mem = IF Store(address) = NoCell THEN @
                    ELSE [@ EXCEPT ![Store(address)] = v]]

Up(w, n)   == (w + n) % 65536
Down(w, n) == (w - n) % 65536

read_word(c, address) ==
  pair(read_byte(c, Up(address, 1)), read_byte(c, address))
write_word(c, address, w) ==
  write_byte(write_byte(c, address, lo(w)), Up(address, 1), hi(w))

\* fetch_byte and fetch_word: what they read, and what they do to pc.
byte_at_pc(c) == read_byte(c, c.pc)
word_at_pc(c) == read_word(c, c.pc)
skip(c, n)    == [c EXCEPT !.pc = Up(@, n)]

\* pop_word: what it reads, and what it does to sp.
top(c)  == read_word(c, c.sp)
drop(c) == [c EXCEPT !.sp = Up(@, 2)]

\* Fault: the word is written before the stack pointer has moved.
push_word_late(c, w) == [write_word(c, c.sp, w) EXCEPT !.sp = Down(@, 2)]

push_word(c, w) ==
  LET d == [c EXCEPT !.sp = Down(@, 2)]
  IN  write_word(d, d.sp, w)

\* Fault: RST pushes the address of the byte after the next.
op_rst_off_by_one(c, to) == [push_word(c, Up(c.pc, 1)) EXCEPT !.pc = to]

op_jmp(c)     == [c EXCEPT !.pc = word_at_pc(c)]
op_ret(c)     == [drop(c) EXCEPT !.pc = top(c)]
op_rst(c, to) == [push_word(c, c.pc) EXCEPT !.pc = to]

\* Fault: pc moves past the operand before the target is fetched from it.
op_call_skips(c) == LET d == skip(c, 2) IN op_jmp(push_word(d, d.pc))

\* The return address is pushed before the target is fetched.
op_call(c) == op_jmp(push_word(c, Up(c.pc, 2)))

op_xchg(c) == set_pair(set_pair(c, HL, get_pair(c, DE)), DE, get_pair(c, HL))
op_xthl(c) == set_pair(write_word(c, c.sp, get_pair(c, HL)), HL, top(c))

tick(c, n) == [c EXCEPT !.cycles = (@ + n) % CycleMod]

-----------------------------------------------------------------------------
\* What the bits of an opcode select.

R8 == <<"b", "c", "d", "e", "h", "l", "m", "a">>
Dst(op) == R8[1 + ((op \div 8) % 8)]
Src(op) == R8[1 + (op % 8)]

\* An 8-bit operand is a register or m, the byte at the address in HL.
get_r8(c, r) == IF r = "m" THEN read_byte(c, get_pair(c, HL)) ELSE c.reg[r]
set_r8(c, r, v) ==
  IF r = "m" THEN write_byte(c, get_pair(c, HL), v) ELSE set_reg(c, r, v)

\* A 16-bit operand is BC, DE, HL or sp.
Row(op) == (op \div 16) % 4
Pair(op) == IF Row(op) = 0 THEN BC ELSE IF Row(op) = 1 THEN DE ELSE HL
get_r16(c, op) == IF Row(op) = 3 THEN c.sp ELSE get_pair(c, Pair(op))
set_r16(c, op, w) ==
  IF Row(op) = 3 THEN [c EXCEPT !.sp = w] ELSE set_pair(c, Pair(op), w)

\* The condition of a conditional return, jump or call: NZ Z NC C PO PE P M.
Condition(c, op) ==
  LET flag == <<FLAG_Z, FLAG_C, FLAG_P, FLAG_S>>[1 + Row(op)]
  IN  (flag \in c.f) = ((op \div 8) % 2 = 1)

-----------------------------------------------------------------------------
\* The instructions: c is the context once the opcode has been fetched.

MemoryOr(r, m, n) == IF r = "m" THEN m ELSE n

\* Faults: DCX sets flags as DCR does, a return not taken costs nothing, a
\* call not taken leaves its operands to be executed, MOV forgets the cycles
\* of memory.
DCX_flags(c, op) ==
  LET w == Down(get_r16(c, op), 1)
  IN  tick([set_r16(c, op, w) EXCEPT !.f = ResultFlags(@, lo(w))], 5)
RetIf_untimed(c, op) == IF Condition(c, op) THEN tick(op_ret(c), 11) ELSE c
CallIf_no_skip(c, op) ==
  IF Condition(c, op) THEN tick(op_call(c), 17) ELSE tick(c, 11)
MOV_cheap(c, op) == tick(set_r8(c, Dst(op), get_r8(c, Src(op))), 5)

LXI(c, op)  == tick(skip(set_r16(c, op, word_at_pc(c)), 2), 10)
INX(c, op)  == tick(set_r16(c, op, Up(get_r16(c, op), 1)), 5)
DCX(c, op)  == tick(set_r16(c, op, Down(get_r16(c, op), 1)), 5)
STAX(c, op) == tick(write_byte(c, get_pair(c, Pair(op)), c.reg["a"]), 7)
LDAX(c, op) == tick(set_reg(c, "a", read_byte(c, get_pair(c, Pair(op)))), 7)
SHLD(c) == tick(skip(write_word(c, word_at_pc(c), get_pair(c, HL)), 2), 16)
LHLD(c) == tick(skip(set_pair(c, HL, read_word(c, word_at_pc(c))), 2), 16)
STA(c)  == tick(skip(write_byte(c, word_at_pc(c), c.reg["a"]), 2), 13)
LDA(c)  == tick(skip(set_reg(c, "a", read_byte(c, word_at_pc(c))), 2), 13)

DAD(c, op) ==
  LET r == op_dad(get_pair(c, HL), c.f, get_r16(c, op))
  IN  tick([set_pair(c, HL, r.hl) EXCEPT !.f = r.f], 10)

INR(c, op) ==
  LET r == op_inr(c.f, get_r8(c, Dst(op)))
  IN  tick([set_r8(c, Dst(op), r.v) EXCEPT !.f = r.f], MemoryOr(Dst(op), 10, 5))

DCR(c, op) ==
  LET r == op_dcr(c.f, get_r8(c, Dst(op)))
  IN  tick([set_r8(c, Dst(op), r.v) EXCEPT !.f = r.f], MemoryOr(Dst(op), 10, 5))

MVI(c, op) ==
  tick(skip(set_r8(c, Dst(op), byte_at_pc(c)), 1), MemoryOr(Dst(op), 10, 7))

MOV(c, op) ==
  tick(set_r8(c, Dst(op), get_r8(c, Src(op))),
       IF "m" \in {Dst(op), Src(op)} THEN 7 ELSE 5)

Accumulate(c, op) ==
  tick(set_af(c, accumulate((op \div 8) % 8, c.reg["a"], c.f)), 4)

AluRegister(c, op) ==
  tick(set_af(c, alu((op \div 8) % 8, c.reg["a"], c.f, get_r8(c, Src(op)))),
       MemoryOr(Src(op), 7, 4))

AluImmediate(c, op) ==
  tick(skip(set_af(c, alu((op \div 8) % 8, c.reg["a"], c.f, byte_at_pc(c))), 1), 7)

\* POP and PUSH take the accumulator and the flags where others take sp.
POP(c, op) ==
  LET d == drop(c)
  IN  tick(IF Row(op) = 3 THEN FixFlags(set_psw(d, top(c)))
           ELSE set_pair(d, Pair(op), top(c)), 10)

PUSH(c, op) ==
  tick(IF Row(op) = 3 THEN LET d == FixFlags(c) IN push_word(d, get_psw(d))
       ELSE push_word(c, get_pair(c, Pair(op))), 11)

RetIf(c, op)  == IF Condition(c, op) THEN tick(op_ret(c), 11) ELSE tick(c, 5)
JmpIf(c, op)  == tick(IF Condition(c, op) THEN op_jmp(c) ELSE skip(c, 2), 10)
CallIf(c, op) ==
  IF Condition(c, op) THEN tick(op_call(c), 17) ELSE tick(skip(c, 2), 11)

RET(c)     == tick(op_ret(c), 10)
JMP(c)     == tick(op_jmp(c), 10)
CALL(c)    == tick(op_call(c), 17)
RST(c, op) == tick(op_rst(c, 8 * ((op \div 8) % 8)), 11)

OUT(c) ==
  tick(skip([c EXCEPT !.dev = IoOut(@, byte_at_pc(c), c.reg["a"])], 1), 10)
\* The callback of IN is given ctx, in which the machine begins (see above).
IN_(c) == tick(skip(set_reg(c, "a", IoIn(c.dev, byte_at_pc(c))), 1), 10)

XTHL(c) == tick(op_xthl(c), 18)
XCHG(c) == tick(op_xchg(c), 5)
PCHL(c) == tick([c EXCEPT !.pc = get_pair(c, HL)], 5)
SPHL(c) == tick([c EXCEPT !.sp = get_pair(c, HL)], 5)

HLT(c) == tick([c EXCEPT !.halted = TRUE], 7)
EI(c)  == tick([c EXCEPT !.int_enable = TRUE], 4)
DI(c)  == tick([c EXCEPT !.int_enable = FALSE], 4)
NOP(c) == tick(c, 4)

i8080_exec_opcode(c, op) ==
  LET row == op % 16
      col == op % 8
  IN CASE op < 64 /\ col = 0             -> NOP(c)
       [] op < 64 /\ row = 1             -> LXI(c, op)
       [] op \in {\h02, \h12}            -> STAX(c, op)
       [] op = \h22                      -> SHLD(c)
       [] op = \h32                      -> STA(c)
       [] op < 64 /\ row = 3             -> INX(c, op)
       [] op < 64 /\ col = 4             -> INR(c, op)
       [] op < 64 /\ col = 5             -> DCR(c, op)
       [] op < 64 /\ col = 6             -> MVI(c, op)
       [] op < 64 /\ col = 7             -> Accumulate(c, op)
       [] op < 64 /\ row = 9             -> DAD(c, op)
       [] op \in {\h0a, \h1a}            -> LDAX(c, op)
       [] op = \h2a                      -> LHLD(c)
       [] op = \h3a                      -> LDA(c)
       [] op < 64 /\ row = 11            -> DCX(c, op)
       [] op = \h76                      -> HLT(c)
       [] op \in 64 .. 127 \ {\h76}      -> MOV(c, op)
       [] op \in 128 .. 191              -> AluRegister(c, op)
       [] op >= 192 /\ col = 0           -> RetIf(c, op)
       [] op >= 192 /\ row = 1           -> POP(c, op)
       [] op >= 192 /\ col = 2           -> JmpIf(c, op)
       [] op \in {\hc3, \hcb}            -> JMP(c)
       [] op = \hd3                      -> OUT(c)
       [] op = \hdb                      -> IN_(c)
       [] op = \he3                      -> XTHL(c)
       [] op = \heb                      -> XCHG(c)
       [] op = \hf3                      -> DI(c)
       [] op = \hfb                      -> EI(c)
       [] op >= 192 /\ col = 4           -> CallIf(c, op)
       [] op >= 192 /\ row = 5           -> PUSH(c, op)
       [] op \in {\hc9, \hd9}            -> RET(c)
       [] op = \he9                      -> PCHL(c)
       [] op = \hf9                      -> SPHL(c)
       [] op \in {\hcd, \hdd, \hed, \hfd} -> CALL(c)
       [] op >= 192 /\ col = 6           -> AluImmediate(c, op)
       [] op >= 192 /\ col = 7           -> RST(c, op)

-----------------------------------------------------------------------------
\* The functions the machine calls.

\* i8080_init, and what the machine then sets up before it runs.
Init ==
  \E m \in BootMem, at \in BootPC :
    ctx = [reg |-> [r \in RegName |-> 0], f |-> FixedOnes, sp |-> 0, pc |-> at,
           halted |-> FALSE, int_enable |-> FALSE, int_requested |-> FALSE,
           int_opcode |-> 0, cycles |-> 0, mem |-> m, dev |-> BootDev]

i8080_interrupt(op) ==
  ctx' = [ctx EXCEPT !.int_requested = TRUE, !.int_opcode = op]

\* Faults: the requested opcode is skipped as a fetched one is, the request
\* stays pending.
Acknowledge_skips ==
  /\ ctx.int_requested /\ ctx.int_enable
  /\ LET c == [ctx EXCEPT !.int_enable = FALSE, !.int_requested = FALSE,
                          !.halted = FALSE]
     IN  ctx' = i8080_exec_opcode(skip(c, 1), c.int_opcode)
Acknowledge_pending ==
  /\ ctx.int_requested /\ ctx.int_enable
  /\ ctx' = i8080_exec_opcode([ctx EXCEPT !.int_enable = FALSE, !.halted = FALSE],
                              ctx.int_opcode)

\* i8080_step: a request INTE allows, a fetched instruction, or nothing.
Acknowledge ==
  /\ ctx.int_requested /\ ctx.int_enable
  /\ LET c == [ctx EXCEPT !.int_enable = FALSE, !.int_requested = FALSE,
                          !.halted = FALSE]
     IN  ctx' = i8080_exec_opcode(c, c.int_opcode)

FetchExecute ==
  /\ ~(ctx.int_requested /\ ctx.int_enable)
  /\ ~ctx.halted
  /\ ctx' = i8080_exec_opcode(skip(ctx, 1), byte_at_pc(ctx))

Sleep ==
  /\ ~(ctx.int_requested /\ ctx.int_enable)
  /\ ctx.halted
  /\ UNCHANGED ctx

i8080_step == Acknowledge \/ FetchExecute \/ Sleep

Next ==
  \/ i8080_step
  \/ \E op \in IntOpcodes : i8080_interrupt(op)
  \/ \E op \in HostOpcodes : ctx' = i8080_exec_opcode(ctx, op)

Spec == Init /\ [][Next]_ctx

-----------------------------------------------------------------------------
TypeOK == ctx \in Ctx

(* The bits of f that i8080.c calls "always set to 1" and "always set to   *)
(* 0" are so after every instruction, a POP PSW of any memory included.    *)
UnusedFlagBits == FixedOnes \subseteq ctx.f /\ ctx.f \intersect FixedZeros = {}

\* The control part of the processor, as the machine around it sees it.
Control == INSTANCE I8080Control WITH
  halted <- ctx.halted, int_enable <- ctx.int_enable,
  int_requested <- ctx.int_requested, int_opcode <- ctx.int_opcode,
  cycles <- ctx.cycles

(* i8080_step, i8080_interrupt and i8080_exec_opcode, with all 256         *)
(* opcodes, do to the control state what I8080Control says.                *)
ImplementsControl == Control!Spec

\* An address that reads back what was written to it, and the two addresses
\* the next push writes being two such cells.
RAM(address) == Load(address) # NoCell /\ Store(address) = Load(address)
PushInRAM(c) ==
  LET s == Down(c.sp, 2)
  IN  RAM(s) /\ RAM(Up(s, 1)) /\ Load(s) # Load(Up(s, 1))

(* A return leads back to where a restart or an interrupt took the         *)
(* processor from, and from a call to the instruction a call that was not  *)
(* taken falls through to; the stack pointer is back too.                  *)
ReturnsComeBack ==
  PushInRAM(ctx) =>
    LET back(c) == <<op_ret(c).pc, op_ret(c).sp>>
    IN  /\ \A n \in 0 .. 7 : back(op_rst(ctx, 8 * n)) = <<ctx.pc, ctx.sp>>
        /\ back(op_call(ctx)) = <<skip(ctx, 2).pc, ctx.sp>>

(* PUSH and POP of the same pair, PSW included, change nothing but memory  *)
(* and the cycles: the low byte is pushed where pop reads it.              *)
PushPopRestores ==
  PushInRAM(ctx) =>
    \A i \in 0 .. 3 :
      LET d == POP(PUSH(ctx, \hc5 + 16 * i), \hc1 + 16 * i)
      IN  d.reg = ctx.reg /\ d.f = ctx.f /\ d.sp = ctx.sp

(* Every step of a processor that is not asleep takes the 4 to 18 cycles   *)
(* of an 8080 instruction, a conditional one that does nothing included:   *)
(* the machine's only clock moves.                                         *)
TimePasses ==
  [][FetchExecute \/ Acknowledge =>
       (ctx'.cycles - ctx.cycles) % CycleMod \in 4 .. 18]_ctx

\* The next step fetches an opcode, and which.
Fetches == ~(ctx.int_requested /\ ctx.int_enable) /\ ~ctx.halted
opcode  == byte_at_pc(ctx)

\* The opcodes with a condition, and all that may leave the straight line.
Conditional == {op \in 192 .. 255 : op % 8 \in {0, 2, 4}}
Branching ==
  Conditional \union {op \in 192 .. 255 : op % 8 = 7}
    \union {\hc3, \hcb, \hc9, \hd9, \he9, \hcd, \hdd, \hed, \hfd}

\* The bytes the 8080 takes for an instruction, its operands included.
ThreeBytes ==
  {op \in 0 .. 63 : op % 16 = 1} \union {\h22, \h2a, \h32, \h3a}
    \union {op \in 192 .. 255 : op % 8 \in {2, 4}}
    \union {\hc3, \hcb, \hcd, \hdd, \hed, \hfd}
TwoBytes ==
  {op \in 0 .. 63 \union 192 .. 255 : op % 8 = 6} \union {\hd3, \hdb}
Length(op) == IF op \in ThreeBytes THEN 3 ELSE IF op \in TwoBytes THEN 2 ELSE 1

(* An instruction that does not branch, or whose condition fails, consumes *)
(* all of its operand bytes and no more, whichever case of the switch it   *)
(* is: the next fetch never starts in the middle of an instruction.        *)
FallsThrough ==
  [][FetchExecute =>
       \/ ctx'.pc = Up(ctx.pc, Length(opcode))
       \/ opcode \in Conditional /\ Condition(ctx, opcode)
       \/ opcode \in Branching \ Conditional]_ctx

\* INR, DCR, DAD and the accumulator's instructions, the arithmetic and
\* POP PSW: what may change a flag.
Flagging ==
  {op \in 0 .. 63 : op % 8 \in {4, 5, 7} \/ op % 16 = 9} \union (128 .. 191)
    \union {op \in 192 .. 255 : op % 8 = 6} \union {\hf1}

\* The cells no address stores to.
ReadOnly == Cell \ {Store(address) : address \in Word}

\* A call that is taken, the cells its operand is read from, and those its
\* return address is written to.
TakesCall ==
  \/ opcode \in {\hcd, \hdd, \hed, \hfd}
  \/ opcode \in {op \in 192 .. 255 : op % 8 = 4} /\ Condition(ctx, opcode)
OperandCells == {Load(Up(ctx.pc, 1)), Load(Up(ctx.pc, 2))}
PushedCells  == {Store(Down(ctx.sp, 2)), Store(Up(Down(ctx.sp, 2), 1))}

(* A call goes to the address that stands behind it.  The code pushes the  *)
(* return address first and fetches the target from memory after; they     *)
(* only meet where the stack lies over the operand itself, under its own   *)
(* address or another one of the same cell.                                *)
CallsReachTarget ==
  [][FetchExecute /\ TakesCall /\ OperandCells \intersect PushedCells \subseteq {NoCell} =>
       ctx'.pc = read_word(ctx, Up(ctx.pc, 1))]_ctx

(* Programs test flags long after setting them: across moves, INX, DCX,    *)
(* jumps, calls, PUSH PSW and interrupts taken, no flag changes.           *)
FlagsSurvive ==
  [][ctx'.f # ctx.f => Fetches /\ opcode \in Flagging]_ctx
=============================================================================
