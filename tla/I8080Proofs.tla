----------------------------- MODULE I8080Proofs ----------------------------
(***************************************************************************)
(* For every machine that meets MachineAssumption and HostAssumption: the  *)
(* processor keeps its types and the unused bits of its flags over all 256 *)
(* opcodes, and it implements I8080Control.  Types and unused bits are one *)
(* invariant: POP PSW and PUSH PSW repair flags of any value, the other    *)
(* instructions only keep them.  The instructions are built from helpers   *)
(* that follow the control state, and end in a tick of the cycle counter.  *)
(* The same helpers keep the flags and the program counter: a second pass  *)
(* over the opcodes shows which set flags and how far each one advances.   *)
(* Last, the generated cases are compared with the switch, case by case.   *)
(***************************************************************************)
EXTENDS Generators, I8080AluProofs

\* A context as the instructions find it and leave it.
Sane(c) == c \in Ctx /\ GoodFlags(c.f)

\* The cells no address stores to.
SameRom(d, c) == \A x \in ReadOnly : d.mem[x] = c.mem[x]

\* The control state, which is what I8080Control calls its variables, and
\* the read-only cells.
Unmoved(d, c) ==
  /\ d.halted = c.halted /\ d.int_enable = c.int_enable
  /\ d.int_requested = c.int_requested /\ d.int_opcode = c.int_opcode
  /\ d.cycles = c.cycles
  /\ SameRom(d, c)

\* What a helper makes of c, and what an instruction makes of it.
Follows(d, c) == Sane(d) /\ Unmoved(d, c)
Ticked(d, c) == \E b : Follows(b, c) /\ \E n \in 4 .. 18 : d = tick(b, n)

-----------------------------------------------------------------------------
(* The fields of a sane context.                                           *)
LEMMA SaneFields ==
  ASSUME NEW c, Sane(c)
  PROVE  /\ c.reg \in [RegName -> Byte] /\ GoodFlags(c.f)
         /\ c.sp \in Word /\ c.pc \in Word
         /\ c.cycles \in 0 .. CycleMod - 1
         /\ c.mem \in [Cell -> Byte] /\ c.dev \in Device
         /\ c.int_opcode \in Byte
  BY DEF Sane, Ctx

LEMMA FollowsItself ==
  ASSUME NEW c, Sane(c)
  PROVE  Follows(c, c)
  BY DEF Follows, Unmoved, SameRom

LEMMA FollowsAgain ==
  ASSUME NEW c, NEW d, NEW e, Follows(d, c), Follows(e, d)
  PROVE  Follows(e, c)
  BY DEF Follows, Unmoved, SameRom

(* Assignments to single fields.                                           *)
LEMMA SetField ==
  ASSUME NEW c, Sane(c)
  PROVE  /\ \A w \in Word : Follows([c EXCEPT !.sp = w], c) /\ Follows([c EXCEPT !.pc = w], c)
         /\ \A f : GoodFlags(f) => Follows([c EXCEPT !.f = f], c)
         /\ \A d \in Device : Follows([c EXCEPT !.dev = d], c)
<1>1. ASSUME NEW w \in Word
      PROVE  Follows([c EXCEPT !.sp = w], c) /\ Follows([c EXCEPT !.pc = w], c)
  BY DEF Sane, Ctx, Follows, Unmoved, SameRom
<1>2. ASSUME NEW f, GoodFlags(f)
      PROVE  Follows([c EXCEPT !.f = f], c)
  BY <1>2 DEF Sane, Ctx, Follows, Unmoved, SameRom, GoodFlags
<1>3. ASSUME NEW d \in Device
      PROVE  Follows([c EXCEPT !.dev = d], c)
  BY DEF Sane, Ctx, Follows, Unmoved, SameRom
<1>4. QED  BY <1>1, <1>2, <1>3

LEMMA SetReg ==
  ASSUME NEW c, Sane(c), NEW r \in RegName, NEW v \in Byte
  PROVE  Follows(set_reg(c, r, v), c)
<1>1. [c.reg EXCEPT ![r] = v] \in [RegName -> Byte]
  BY DEF Sane, Ctx
<1>2. set_reg(c, r, v) = [c EXCEPT !.reg = [c.reg EXCEPT ![r] = v]]
  BY DEF set_reg
<1>3. QED
  BY <1>1, <1>2 DEF Sane, Ctx, Follows, Unmoved, SameRom

LEMMA WriteByte ==
  ASSUME NEW c, Sane(c), NEW address \in Word, NEW v \in Byte
  PROVE  Follows(write_byte(c, address, v), c)
<1>1. CASE Store(address) = NoCell
  <2>1. write_byte(c, address, v) = [c EXCEPT !.mem = c.mem]
    BY <1>1 DEF write_byte
  <2>2. QED  BY <2>1 DEF Sane, Ctx, Follows, Unmoved, SameRom
<1>2. CASE Store(address) # NoCell
  <2>1. write_byte(c, address, v) = [c EXCEPT !.mem = [c.mem EXCEPT ![Store(address)] = v]]
    BY <1>2 DEF write_byte
  <2>2. [c.mem EXCEPT ![Store(address)] = v] \in [Cell -> Byte]
    BY DEF Sane, Ctx
  <2>3. \A x \in ReadOnly : x \in Cell /\ x # Store(address)
    BY DEF ReadOnly
  <2>4. \A x \in ReadOnly : [c.mem EXCEPT ![Store(address)] = v][x] = c.mem[x]
    BY <2>3 DEF Sane, Ctx
  <2>5. QED  BY <2>1, <2>2, <2>4 DEF Sane, Ctx, Follows, Unmoved, SameRom
<1>3. QED  BY <1>1, <1>2

LEMMA ReadByte ==
  ASSUME NEW c, Sane(c), NEW address \in Word
  PROVE  read_byte(c, address) \in Byte
<1>1. Load(address) \in Cell \union {NoCell} /\ OpenBus \in Byte
  BY MachineAssumption DEF MachineAssumption
<1>2. c.mem \in [Cell -> Byte]
  BY DEF Sane, Ctx
<1>3. QED
  BY <1>1, <1>2 DEF read_byte

-----------------------------------------------------------------------------
(* Bytes and words.                                                        *)
LEMMA Packing ==
  /\ \A w \in Word : hi(w) \in Byte /\ lo(w) \in Byte
  /\ \A x \in Byte, y \in Byte : pair(x, y) \in Word
  /\ \A w \in Word, n \in 0 .. 2 : Up(w, n) \in Word /\ Down(w, n) \in Word
<1>1. ASSUME NEW w \in Word PROVE hi(w) \in Byte /\ lo(w) \in Byte
  <2>1. w \in Int /\ w \div 256 \in Int
    BY WordBounds, Z3
  <2>2. QED  BY <2>1, ByteFacts DEF hi, lo
<1>2. ASSUME NEW x \in Byte, NEW y \in Byte PROVE pair(x, y) \in Word
  BY ByteBounds, WordBounds DEF pair
<1>3. ASSUME NEW w \in Word, NEW n \in 0 .. 2
      PROVE  Up(w, n) \in Word /\ Down(w, n) \in Word
  <2>1. w + n \in Int /\ w - n \in Int
    BY WordBounds
  <2>2. QED  BY <2>1, WordFact DEF Up, Down
<1>4. QED  BY <1>1, <1>2, <1>3

LEMMA RegPairs ==
  ASSUME NEW c, Sane(c), NEW p \in {BC, DE, HL}
  PROVE  /\ get_pair(c, p) \in Word
         /\ \A w \in Word : Follows(set_pair(c, p, w), c)
<1>1. p[1] \in RegName /\ p[2] \in RegName
  BY DEF BC, DE, HL, RegName
<1>2. get_pair(c, p) \in Word
  BY <1>1, SaneFields, Packing DEF get_pair
<1>3. ASSUME NEW w \in Word PROVE Follows(set_pair(c, p, w), c)
  <2> DEFINE d == set_reg(c, p[1], hi(w))
  <2>1. hi(w) \in Byte /\ lo(w) \in Byte
    BY Packing
  <2>2. Follows(d, c)
    BY <1>1, <2>1, SetReg
  <2>3. Follows(set_reg(d, p[2], lo(w)), d)
    <3> HIDE DEF d
    <3>1. QED  BY <1>1, <2>1, <2>2, SetReg DEF Follows
  <2>4. QED
    BY <2>2, <2>3, FollowsAgain DEF set_pair
<1>4. QED  BY <1>2, <1>3

LEMMA SetAf ==
  ASSUME NEW c, Sane(c), NEW r, GoodResult(r)
  PROVE  Follows(set_af(c, r), c)
<1> DEFINE d == set_reg(c, "a", r.a)
<1>1. Follows(d, c)
  BY SetReg DEF GoodResult, RegName
<1>2. Follows([d EXCEPT !.f = r.f], d)
  <2> HIDE DEF d
  <2>1. QED  BY <1>1, SetField DEF Follows, GoodResult
<1>3. QED
  BY <1>1, <1>2, FollowsAgain DEF set_af

LEMMA WordAccess ==
  ASSUME NEW c, Sane(c), NEW address \in Word
  PROVE  /\ read_word(c, address) \in Word
         /\ \A w \in Word : Follows(write_word(c, address, w), c)
<1>1. Up(address, 1) \in Word
  BY Packing
<1>2. read_word(c, address) \in Word
  BY <1>1, ReadByte, Packing DEF read_word
<1>3. ASSUME NEW w \in Word PROVE Follows(write_word(c, address, w), c)
  <2> DEFINE d == write_byte(c, address, lo(w))
  <2>1. hi(w) \in Byte /\ lo(w) \in Byte
    BY Packing
  <2>2. Follows(d, c)
    BY <2>1, WriteByte
  <2>3. Follows(write_byte(d, Up(address, 1), hi(w)), d)
    <3> HIDE DEF d
    <3>1. QED  BY <1>1, <2>1, <2>2, WriteByte DEF Follows
  <2>4. QED
    BY <2>2, <2>3, FollowsAgain DEF write_word
<1>4. QED  BY <1>2, <1>3

(* The instruction stream and the stack.                                   *)
LEMMA Stream ==
  ASSUME NEW c, Sane(c)
  PROVE  /\ byte_at_pc(c) \in Byte /\ word_at_pc(c) \in Word /\ top(c) \in Word
         /\ \A n \in 0 .. 2 : Follows(skip(c, n), c)
         /\ Follows(drop(c), c)
<1>1. c.pc \in Word /\ c.sp \in Word
  BY SaneFields
<1>2. byte_at_pc(c) \in Byte /\ word_at_pc(c) \in Word /\ top(c) \in Word
  BY <1>1, ReadByte, WordAccess DEF byte_at_pc, word_at_pc, top
<1>3. ASSUME NEW n \in 0 .. 2 PROVE Follows(skip(c, n), c)
  BY <1>1, Packing, SetField DEF skip
<1>4. Follows(drop(c), c)
  <2>1. Up(c.sp, 2) \in Word
    BY <1>1, Packing, 2 \in 0 .. 2
  <2>2. QED  BY <2>1, SetField DEF drop
<1>5. QED  BY <1>2, <1>3, <1>4

LEMMA Push ==
  ASSUME NEW c, Sane(c), NEW w \in Word
  PROVE  Follows(push_word(c, w), c)
<1> DEFINE d == [c EXCEPT !.sp = Down(c.sp, 2)]
<1>1. Down(c.sp, 2) \in Word
  BY SaneFields, Packing, 2 \in 0 .. 2
<1>2. Follows(d, c)
  BY <1>1, SetField
<1>3. Follows(write_word(d, d.sp, w), d)
  <2> HIDE DEF d
  <2>1. QED  BY <1>2, SaneFields, WordAccess DEF Follows
<1>4. QED
  BY <1>2, <1>3, FollowsAgain DEF push_word

-----------------------------------------------------------------------------
(* PUSH PSW sets the unused bits before it packs the flags, POP PSW after  *)
(* it unpacks them, whatever byte was on the stack.                        *)
LEMMA Repairs ==
  ASSUME NEW f \in SUBSET (0 .. 7)
  PROVE  GoodFlags((f \union FixedOnes) \ FixedZeros)
  BY DEF GoodFlags, FixedOnes, FixedZeros

LEMMA FixFlagsFollows ==
  ASSUME NEW c, Sane(c)
  PROVE  Follows(FixFlags(c), c)
<1>1. c.f \in SUBSET (0 .. 7)
  BY DEF Sane, Ctx
<1>2. GoodFlags((c.f \union FixedOnes) \ FixedZeros)
  BY <1>1, Repairs
<1>3. QED
  BY <1>2, SetField DEF FixFlags

LEMMA PopPsw ==
  ASSUME NEW c, Sane(c), NEW w \in Word
  PROVE  Follows(FixFlags(set_psw(c, w)), c)
<1> DEFINE d == set_reg(c, "a", hi(w))
           g == (Bits(lo(w)) \union FixedOnes) \ FixedZeros
<1>1. Follows(d, c)
  BY Packing, SetReg DEF RegName
<1>2. GoodFlags(g)
  BY Repairs DEF Bits
<1>3. FixFlags(set_psw(c, w)) = [d EXCEPT !.f = g]
  <2>1. set_psw(c, w) = [d EXCEPT !.f = Bits(lo(w))]
    BY DEF set_psw, set_af
  <2>2. "f" \in DOMAIN d
    <3> HIDE DEF d
    <3>1. QED  BY <1>1 DEF Follows, Sane, Ctx
  <2>3. QED
    <3> HIDE DEF d
    <3>1. QED  BY <2>1, <2>2 DEF FixFlags
<1>4. Follows([d EXCEPT !.f = g], d)
  <2> HIDE DEF d, g
  <2>1. QED  BY <1>1, <1>2, SetField DEF Follows
<1>5. QED
  <2> HIDE DEF d, g
  <2>1. QED  BY <1>1, <1>3, <1>4, FollowsAgain

LEMMA Psw ==
  ASSUME NEW c, Sane(c)
  PROVE  get_psw(c) \in Word
<1>1. c.reg["a"] \in Byte
  BY SaneFields DEF RegName
<1>2. QED
  BY <1>1, ByteOfIsByte, Packing DEF get_psw

-----------------------------------------------------------------------------
(* What an opcode selects: a register or m, a register pair or sp.         *)
LEMMA Select ==
  ASSUME NEW op \in Byte
  PROVE  /\ Dst(op) \in RegName \union {"m"} /\ Src(op) \in RegName \union {"m"}
         /\ Pair(op) \in {BC, DE, HL}
<1>1. 1 + ((op \div 8) % 8) \in 1 .. 8 /\ 1 + (op % 8) \in 1 .. 8
  BY ByteBounds, Z3
<1>2. \A i \in 1 .. 8 : R8[i] \in RegName \union {"m"}
  BY DEF R8, RegName
<1>3. Dst(op) \in RegName \union {"m"} /\ Src(op) \in RegName \union {"m"}
  BY <1>1, <1>2 DEF Dst, Src
<1>4. Pair(op) \in {BC, DE, HL}
  BY DEF Pair
<1>5. QED  BY <1>3, <1>4

LEMMA Operand8 ==
  ASSUME NEW c, Sane(c), NEW r \in RegName \union {"m"}
  PROVE  /\ get_r8(c, r) \in Byte
         /\ \A v \in Byte : Follows(set_r8(c, r, v), c)
<1>1. CASE r = "m"
  <2>1. get_pair(c, HL) \in Word
    BY RegPairs
  <2>2. QED
    BY <1>1, <2>1, ReadByte, WriteByte DEF get_r8, set_r8
<1>2. CASE r # "m"
  <2>1. r \in RegName
    BY <1>2
  <2>2. c.reg[r] \in Byte
    BY <2>1, SaneFields
  <2>3. QED
    BY <1>2, <2>1, <2>2, SetReg DEF get_r8, set_r8
<1>3. QED  BY <1>1, <1>2

LEMMA Operand16 ==
  ASSUME NEW c, Sane(c), NEW op \in Byte
  PROVE  /\ get_r16(c, op) \in Word
         /\ \A w \in Word : Follows(set_r16(c, op, w), c)
<1>1. Pair(op) \in {BC, DE, HL}
  BY Select
<1>2. get_r16(c, op) \in Word
  BY <1>1, RegPairs, SaneFields DEF get_r16
<1>3. ASSUME NEW w \in Word PROVE Follows(set_r16(c, op, w), c)
  BY <1>1, RegPairs, SetField DEF set_r16
<1>4. QED  BY <1>2, <1>3

(* Jumps, calls and returns.                                               *)
LEMMA Branch ==
  ASSUME NEW c, Sane(c)
  PROVE  /\ Follows(op_jmp(c), c) /\ Follows(op_ret(c), c) /\ Follows(op_call(c), c)
         /\ \A to \in Word : Follows(op_rst(c, to), c)
<1>1. ASSUME NEW d, Sane(d) PROVE Follows(op_jmp(d), d)
  BY <1>1, Stream, SetField DEF op_jmp
<1>2. Follows(op_ret(c), c)
  <2> DEFINE d == drop(c)
  <2>1. Follows(d, c) /\ top(c) \in Word
    BY Stream
  <2>2. Follows([d EXCEPT !.pc = top(c)], d)
    <3> HIDE DEF d
    <3>1. QED  BY <2>1, SetField DEF Follows
  <2>3. QED  BY <2>1, <2>2, FollowsAgain DEF op_ret
<1>3. Follows(op_call(c), c)
  <2> DEFINE d == push_word(c, Up(c.pc, 2))
  <2>1. Up(c.pc, 2) \in Word
    BY SaneFields, Packing, 2 \in 0 .. 2
  <2>2. Follows(d, c)
    BY <2>1, Push
  <2>3. Follows(op_jmp(d), d)
    <3> HIDE DEF d
    <3>1. QED  BY <2>2, <1>1 DEF Follows
  <2>4. QED  BY <2>2, <2>3, FollowsAgain DEF op_call
<1>4. ASSUME NEW to \in Word PROVE Follows(op_rst(c, to), c)
  <2> DEFINE d == push_word(c, c.pc)
  <2>1. Follows(d, c)
    BY SaneFields, Push
  <2>2. Follows([d EXCEPT !.pc = to], d)
    <3> HIDE DEF d
    <3>1. QED  BY <2>1, SetField DEF Follows
  <2>3. QED  BY <2>1, <2>2, FollowsAgain DEF op_rst
<1>5. QED  BY <1>1, <1>2, <1>3, <1>4

(* Two helpers, one after the other.                                       *)
LEMMA Exchange ==
  ASSUME NEW c, Sane(c)
  PROVE  Follows(op_xchg(c), c) /\ Follows(op_xthl(c), c)
<1>1. HL \in {BC, DE, HL} /\ DE \in {BC, DE, HL}
  OBVIOUS
<1>2. Follows(op_xchg(c), c)
  <2> DEFINE d == set_pair(c, HL, get_pair(c, DE))
  <2>1. get_pair(c, DE) \in Word /\ get_pair(c, HL) \in Word
    BY <1>1, RegPairs
  <2>2. Follows(d, c)
    BY <1>1, <2>1, RegPairs
  <2>3. Follows(set_pair(d, DE, get_pair(c, HL)), d)
    <3> HIDE DEF d
    <3>1. QED  BY <1>1, <2>1, <2>2, RegPairs DEF Follows
  <2>4. QED  BY <2>2, <2>3, FollowsAgain DEF op_xchg
<1>3. Follows(op_xthl(c), c)
  <2> DEFINE d == write_word(c, c.sp, get_pair(c, HL))
  <2>1. get_pair(c, HL) \in Word /\ top(c) \in Word /\ c.sp \in Word
    BY <1>1, RegPairs, Stream, SaneFields
  <2>2. Follows(d, c)
    BY <2>1, WordAccess
  <2>3. Follows(set_pair(d, HL, top(c)), d)
    <3> HIDE DEF d
    <3>1. QED  BY <1>1, <2>1, <2>2, RegPairs DEF Follows
  <2>4. QED  BY <2>2, <2>3, FollowsAgain DEF op_xthl
<1>4. QED  BY <1>2, <1>3

-----------------------------------------------------------------------------
(* Every instruction but HLT, EI and DI: sane, and one tick further.       *)
LEMMA TickIt ==
  ASSUME NEW c, NEW b, Follows(b, c), NEW n \in 4 .. 18
  PROVE  Ticked(tick(b, n), c)
  BY DEF Ticked

LEMMA SkipAfter ==
  ASSUME NEW c, NEW b, Follows(b, c), NEW n \in 0 .. 2
  PROVE  Follows(skip(b, n), c)
<1>1. Follows(skip(b, n), b)
  BY Stream DEF Follows
<1>2. QED  BY <1>1, FollowsAgain

LEMMA Moves ==
  ASSUME NEW c, Sane(c), NEW op \in Byte
  PROVE  /\ Ticked(MVI(c, op), c) /\ Ticked(MOV(c, op), c)
         /\ Ticked(LXI(c, op), c) /\ Ticked(INX(c, op), c) /\ Ticked(DCX(c, op), c)
<1>1. Dst(op) \in RegName \union {"m"} /\ Src(op) \in RegName \union {"m"}
  BY Select
<1>2. Ticked(MVI(c, op), c)
  <2>1. Follows(set_r8(c, Dst(op), byte_at_pc(c)), c)
    BY <1>1, Stream, Operand8
  <2>2. Follows(skip(set_r8(c, Dst(op), byte_at_pc(c)), 1), c)
    BY <2>1, SkipAfter, 1 \in 0 .. 2
  <2>3. MemoryOr(Dst(op), 10, 7) \in 4 .. 18
    BY DEF MemoryOr
  <2>4. QED  BY <2>2, <2>3, TickIt DEF MVI
<1>3. Ticked(MOV(c, op), c)
  <2>1. Follows(set_r8(c, Dst(op), get_r8(c, Src(op))), c)
    BY <1>1, Operand8
  <2>2. (IF "m" \in {Dst(op), Src(op)} THEN 7 ELSE 5) \in 4 .. 18
    OBVIOUS
  <2>3. QED  BY <2>1, <2>2, TickIt DEF MOV
<1>4. Ticked(LXI(c, op), c)
  <2>1. Follows(set_r16(c, op, word_at_pc(c)), c)
    BY Stream, Operand16
  <2>2. Follows(skip(set_r16(c, op, word_at_pc(c)), 2), c)
    BY <2>1, SkipAfter, 2 \in 0 .. 2
  <2>3. QED  BY <2>2, TickIt, 10 \in 4 .. 18 DEF LXI
<1>5. Ticked(INX(c, op), c) /\ Ticked(DCX(c, op), c)
  <2>1. get_r16(c, op) \in Word
    BY Operand16
  <2>2. Up(get_r16(c, op), 1) \in Word /\ Down(get_r16(c, op), 1) \in Word
    BY <2>1, Packing, 1 \in 0 .. 2
  <2>3. Follows(set_r16(c, op, Up(get_r16(c, op), 1)), c)
        /\ Follows(set_r16(c, op, Down(get_r16(c, op), 1)), c)
    BY <2>2, Operand16
  <2>4. QED  BY <2>3, TickIt, 5 \in 4 .. 18 DEF INX, DCX
<1>6. QED  BY <1>2, <1>3, <1>4, <1>5

LEMMA LoadsAndStores ==
  ASSUME NEW c, Sane(c), NEW op \in Byte
  PROVE  /\ Ticked(STAX(c, op), c) /\ Ticked(LDAX(c, op), c)
         /\ Ticked(STA(c), c) /\ Ticked(LDA(c), c)
         /\ Ticked(SHLD(c), c) /\ Ticked(LHLD(c), c)
<1>1. /\ get_pair(c, Pair(op)) \in Word /\ get_pair(c, HL) \in Word
      /\ word_at_pc(c) \in Word /\ c.reg["a"] \in Byte /\ "a" \in RegName
  BY Select, RegPairs, Stream, SaneFields DEF RegName
<1>2. Ticked(STAX(c, op), c) /\ Ticked(LDAX(c, op), c)
  <2>1. Follows(write_byte(c, get_pair(c, Pair(op)), c.reg["a"]), c)
    BY <1>1, WriteByte
  <2>2. Follows(set_reg(c, "a", read_byte(c, get_pair(c, Pair(op)))), c)
    BY <1>1, ReadByte, SetReg
  <2>3. QED  BY <2>1, <2>2, TickIt, 7 \in 4 .. 18 DEF STAX, LDAX
<1>3. Ticked(STA(c), c) /\ Ticked(LDA(c), c)
  <2>1. Follows(write_byte(c, word_at_pc(c), c.reg["a"]), c)
    BY <1>1, WriteByte
  <2>2. Follows(set_reg(c, "a", read_byte(c, word_at_pc(c))), c)
    BY <1>1, ReadByte, SetReg
  <2>3. QED  BY <2>1, <2>2, SkipAfter, TickIt, 2 \in 0 .. 2, 13 \in 4 .. 18 DEF STA, LDA
<1>4. Ticked(SHLD(c), c) /\ Ticked(LHLD(c), c)
  <2>1. Follows(write_word(c, word_at_pc(c), get_pair(c, HL)), c)
    BY <1>1, WordAccess
  <2>2. Follows(set_pair(c, HL, read_word(c, word_at_pc(c))), c)
    BY <1>1, WordAccess, RegPairs
  <2>3. QED  BY <2>1, <2>2, SkipAfter, TickIt, 2 \in 0 .. 2, 16 \in 4 .. 18 DEF SHLD, LHLD
<1>5. QED  BY <1>2, <1>3, <1>4

(* A result and its flags, written to two fields.                          *)
LEMMA AndFlags ==
  ASSUME NEW c, NEW d, Follows(d, c), NEW f, GoodFlags(f)
  PROVE  Follows([d EXCEPT !.f = f], c)
<1>1. Follows([d EXCEPT !.f = f], d)
  BY SetField DEF Follows
<1>2. QED  BY <1>1, FollowsAgain

LEMMA Arithmetic ==
  ASSUME NEW c, Sane(c), NEW op \in Byte
  PROVE  /\ Ticked(INR(c, op), c) /\ Ticked(DCR(c, op), c) /\ Ticked(DAD(c, op), c)
         /\ Ticked(Accumulate(c, op), c)
         /\ Ticked(AluRegister(c, op), c) /\ Ticked(AluImmediate(c, op), c)
<1> DEFINE k == (op \div 8) % 8
<1>1. Dst(op) \in RegName \union {"m"} /\ Src(op) \in RegName \union {"m"}
  BY Select
<1>2. /\ get_r8(c, Dst(op)) \in Byte /\ get_r8(c, Src(op)) \in Byte
      /\ c.reg["a"] \in Byte /\ GoodFlags(c.f) /\ byte_at_pc(c) \in Byte
  BY <1>1, Operand8, SaneFields, Stream DEF RegName
<1>3. MemoryOr(Dst(op), 10, 5) \in 4 .. 18 /\ MemoryOr(Src(op), 7, 4) \in 4 .. 18
  BY DEF MemoryOr
<1>4. Ticked(INR(c, op), c) /\ Ticked(DCR(c, op), c)
  <2> DEFINE i == op_inr(c.f, get_r8(c, Dst(op)))
             j == op_dcr(c.f, get_r8(c, Dst(op)))
  <2>1. i.v \in Byte /\ GoodFlags(i.f) /\ j.v \in Byte /\ GoodFlags(j.f)
    BY <1>2, IncrementGood
  <2>2. Follows(set_r8(c, Dst(op), i.v), c) /\ Follows(set_r8(c, Dst(op), j.v), c)
    BY <1>1, <2>1, Operand8
  <2>3. Follows([set_r8(c, Dst(op), i.v) EXCEPT !.f = i.f], c)
        /\ Follows([set_r8(c, Dst(op), j.v) EXCEPT !.f = j.f], c)
    <3> HIDE DEF i, j
    <3>1. QED  BY <2>1, <2>2, AndFlags
  <2>4. QED  BY <1>3, <2>3, TickIt DEF INR, DCR
<1>5. Ticked(DAD(c, op), c)
  <2> DEFINE r == op_dad(get_pair(c, HL), c.f, get_r16(c, op))
  <2>1. get_pair(c, HL) \in Word /\ get_r16(c, op) \in Word
    BY RegPairs, Operand16
  <2>2. r.hl \in Word /\ GoodFlags(r.f)
    BY <1>2, <2>1, DadGood
  <2>3. Follows(set_pair(c, HL, r.hl), c)
    BY <2>2, RegPairs
  <2>4. Follows([set_pair(c, HL, r.hl) EXCEPT !.f = r.f], c)
    <3> HIDE DEF r
    <3>1. QED  BY <2>2, <2>3, AndFlags
  <2>5. QED  BY <2>4, TickIt, 10 \in 4 .. 18 DEF DAD
<1>6. Ticked(Accumulate(c, op), c)
  <2>1. Follows(set_af(c, accumulate(k, c.reg["a"], c.f)), c)
    BY <1>2, AccumulateGood, SetAf
  <2>2. QED  BY <2>1, TickIt, 4 \in 4 .. 18 DEF Accumulate
<1>7. Ticked(AluRegister(c, op), c)
  <2>1. Follows(set_af(c, alu(k, c.reg["a"], c.f, get_r8(c, Src(op)))), c)
    BY <1>2, AluGood, SetAf
  <2>2. QED  BY <1>3, <2>1, TickIt DEF AluRegister
<1>8. Ticked(AluImmediate(c, op), c)
  <2>1. Follows(set_af(c, alu(k, c.reg["a"], c.f, byte_at_pc(c))), c)
    BY <1>2, AluGood, SetAf
  <2>2. QED  BY <2>1, SkipAfter, TickIt, 1 \in 0 .. 2, 7 \in 4 .. 18 DEF AluImmediate
<1>9. QED  BY <1>4, <1>5, <1>6, <1>7, <1>8

LEMMA Stack ==
  ASSUME NEW c, Sane(c), NEW op \in Byte
  PROVE  Ticked(POP(c, op), c) /\ Ticked(PUSH(c, op), c)
<1>1. Pair(op) \in {BC, DE, HL} /\ top(c) \in Word
  BY Select, Stream
<1>2. Ticked(POP(c, op), c)
  <2> DEFINE d == drop(c)
             e == IF Row(op) = 3 THEN FixFlags(set_psw(d, top(c)))
                  ELSE set_pair(d, Pair(op), top(c))
  <2>1. Follows(d, c)
    BY Stream
  <2>2. Follows(FixFlags(set_psw(d, top(c))), d) /\ Follows(set_pair(d, Pair(op), top(c)), d)
    <3> HIDE DEF d
    <3>1. QED  BY <1>1, <2>1, PopPsw, RegPairs DEF Follows
  <2>3. Follows(e, d)
    BY <2>2
  <2>4. Follows(e, c)
    <3> HIDE DEF d, e
    <3>1. QED  BY <2>1, <2>3, FollowsAgain
  <2>5. QED  BY <2>4, TickIt, 10 \in 4 .. 18 DEF POP
<1>3. Ticked(PUSH(c, op), c)
  <2> DEFINE d == FixFlags(c)
             e == IF Row(op) = 3 THEN push_word(d, get_psw(d))
                  ELSE push_word(c, get_pair(c, Pair(op)))
  <2>1. Follows(d, c)
    BY FixFlagsFollows
  <2>2. Follows(push_word(d, get_psw(d)), d)
    <3> HIDE DEF d
    <3>1. QED  BY <2>1, Psw, Push DEF Follows
  <2>3. Follows(push_word(d, get_psw(d)), c)
    <3> HIDE DEF d
    <3>1. QED  BY <2>1, <2>2, FollowsAgain
  <2>4. Follows(push_word(c, get_pair(c, Pair(op))), c)
    BY <1>1, RegPairs, Push
  <2>5. Follows(e, c)
    BY <2>3, <2>4
  <2>6. QED  BY <2>5, TickIt, 11 \in 4 .. 18 DEF PUSH
<1>4. QED  BY <1>2, <1>3

LEMMA Branches ==
  ASSUME NEW c, Sane(c), NEW op \in Byte
  PROVE  /\ Ticked(RetIf(c, op), c) /\ Ticked(JmpIf(c, op), c) /\ Ticked(CallIf(c, op), c)
         /\ Ticked(RET(c), c) /\ Ticked(JMP(c), c) /\ Ticked(CALL(c), c)
         /\ Ticked(RST(c, op), c) /\ Ticked(PCHL(c), c) /\ Ticked(SPHL(c), c)
<1>1. Follows(c, c) /\ Follows(skip(c, 2), c)
  BY FollowsItself, Stream, 2 \in 0 .. 2
<1>2. Follows(op_ret(c), c) /\ Follows(op_jmp(c), c) /\ Follows(op_call(c), c)
  BY Branch
<1>3. Ticked(RetIf(c, op), c)
  BY <1>1, <1>2, TickIt, 11 \in 4 .. 18, 5 \in 4 .. 18 DEF RetIf
<1>4. Ticked(JmpIf(c, op), c)
  BY <1>1, <1>2, TickIt, 10 \in 4 .. 18 DEF JmpIf
<1>5. Ticked(CallIf(c, op), c)
  BY <1>1, <1>2, TickIt, 17 \in 4 .. 18, 11 \in 4 .. 18 DEF CallIf
<1>6. Ticked(RET(c), c) /\ Ticked(JMP(c), c) /\ Ticked(CALL(c), c)
  BY <1>2, TickIt, 10 \in 4 .. 18, 17 \in 4 .. 18 DEF RET, JMP, CALL
<1>7. Ticked(RST(c, op), c)
  <2>1. 8 * ((op \div 8) % 8) \in Word
    BY ByteBounds, WordBounds, Z3
  <2>2. QED  BY <2>1, Branch, TickIt, 11 \in 4 .. 18 DEF RST
<1>8. Ticked(PCHL(c), c) /\ Ticked(SPHL(c), c)
  BY RegPairs, SetField, TickIt, 5 \in 4 .. 18 DEF PCHL, SPHL
<1>9. QED  BY <1>3, <1>4, <1>5, <1>6, <1>7, <1>8

LEMMA Others ==
  ASSUME NEW c, Sane(c)
  PROVE  /\ Ticked(NOP(c), c) /\ Ticked(XTHL(c), c) /\ Ticked(XCHG(c), c)
         /\ Ticked(IN_(c), c) /\ Ticked(OUT(c), c)
<1>1. Ticked(NOP(c), c)
  BY FollowsItself, TickIt, 4 \in 4 .. 18 DEF NOP
<1>2. Ticked(XTHL(c), c) /\ Ticked(XCHG(c), c)
  BY Exchange, TickIt, 18 \in 4 .. 18, 5 \in 4 .. 18 DEF XTHL, XCHG
<1>3. byte_at_pc(c) \in Byte /\ c.reg["a"] \in Byte /\ c.dev \in Device /\ "a" \in RegName
  BY Stream, SaneFields DEF RegName
<1>4. /\ IoIn(c.dev, byte_at_pc(c)) \in Byte
      /\ IoOut(c.dev, byte_at_pc(c), c.reg["a"]) \in Device
  BY <1>3, MachineAssumption DEF MachineAssumption
<1>5. Ticked(IN_(c), c)
  BY <1>3, <1>4, SetReg, SkipAfter, TickIt, 1 \in 0 .. 2, 10 \in 4 .. 18 DEF IN_
<1>6. Ticked(OUT(c), c)
  <2> DEFINE v == IoOut(c.dev, byte_at_pc(c), c.reg["a"])
  <2>1. Follows([c EXCEPT !.dev = v], c)
    BY <1>4, SetField
  <2>2. Follows(skip([c EXCEPT !.dev = v], 1), c)
    BY <2>1, SkipAfter, 1 \in 0 .. 2
  <2>3. QED  BY <2>2, TickIt, 10 \in 4 .. 18 DEF OUT
<1>7. QED  BY <1>1, <1>2, <1>5, <1>6

-----------------------------------------------------------------------------
(* i8080_exec_opcode: the three opcodes that move the control state, and   *)
(* the 253 that only tick.                                                 *)
LEMMA Covered ==
  ASSUME NEW op \in Byte
  PROVE  \/ op < 64 /\ op % 8 \in {0, 4, 5, 6, 7}
         \/ op < 64 /\ op % 16 \in {1, 3, 9, 11}
         \/ op \in {2, 18, 34, 50, 10, 26, 42, 58}
         \/ op \in 64 .. 191
         \/ op >= 192 /\ op % 8 \in {0, 2, 4, 6, 7}
         \/ op >= 192 /\ op % 16 \in {1, 5}
         \/ op \in {195, 203, 211, 219, 227, 235, 243, 251, 201, 217, 233, 249,
                    205, 221, 237, 253}
  BY ByteBounds, Z3

LEMMA OthersTick ==
  ASSUME NEW c, Sane(c), NEW op \in Byte, op \notin {118, 243, 251}
  PROVE  Ticked(i8080_exec_opcode(c, op), c)
<1>1. op \in Int
  BY ByteBounds
<1>2. QED
  BY <1>1, Covered, Moves, LoadsAndStores, Arithmetic, Stack, Branches, Others
     DEF i8080_exec_opcode

LEMMA ControlOpcodes ==
  ASSUME NEW c
  PROVE  /\ i8080_exec_opcode(c, 118) = HLT(c)
         /\ i8080_exec_opcode(c, 243) = DI(c)
         /\ i8080_exec_opcode(c, 251) = EI(c)
  BY DEF i8080_exec_opcode

(* What executing op does to the control state, Control!Effect of it, and  *)
(* to the read-only cells: nothing.                                        *)
Executed(d, c, op) ==
  /\ Sane(d) /\ SameRom(d, c)
  /\ d.halted <=> (c.halted \/ op = 118)
  /\ d.int_enable <=> (op = 251 \/ (op # 243 /\ c.int_enable))
  /\ d.int_requested = c.int_requested /\ d.int_opcode = c.int_opcode
  /\ \E n \in 4 .. 18 : d.cycles = (c.cycles + n) % CycleMod

LEMMA Tick ==
  ASSUME NEW b, Sane(b), NEW n \in 4 .. 18
  PROVE  /\ Sane(tick(b, n))
         /\ tick(b, n).cycles = (b.cycles + n) % CycleMod
         /\ tick(b, n).halted = b.halted /\ tick(b, n).int_enable = b.int_enable
         /\ tick(b, n).int_requested = b.int_requested
         /\ tick(b, n).int_opcode = b.int_opcode /\ tick(b, n).mem = b.mem
<1>1. CycleMod \in Nat \ {0} /\ b.cycles \in 0 .. CycleMod - 1
  BY HostAssumption, SaneFields DEF HostAssumption
<1>2. (b.cycles + n) % CycleMod \in 0 .. CycleMod - 1
  <2>1. b.cycles + n \in Int
    BY <1>1
  <2>2. QED  BY <1>1, <2>1, Z3
<1>3. QED
  BY <1>2 DEF tick, Sane, Ctx

LEMMA TickExecutes ==
  ASSUME NEW c, NEW op, NEW b, Sane(b), NEW n \in 4 .. 18,
         b.halted <=> (c.halted \/ op = 118),
         b.int_enable <=> (op = 251 \/ (op # 243 /\ c.int_enable)),
         b.int_requested = c.int_requested, b.int_opcode = c.int_opcode,
         b.cycles = c.cycles, SameRom(b, c)
  PROVE  Executed(tick(b, n), c, op)
<1> DEFINE d == tick(b, n)
<1>1. /\ Sane(d) /\ d.cycles = (b.cycles + n) % CycleMod
      /\ d.halted = b.halted /\ d.int_enable = b.int_enable
      /\ d.int_requested = b.int_requested /\ d.int_opcode = b.int_opcode
      /\ d.mem = b.mem
  BY Tick
<1> HIDE DEF d
<1>2. \E k \in 4 .. 18 : d.cycles = (c.cycles + k) % CycleMod
  BY <1>1
<1>3. QED
  BY <1>1, <1>2 DEF Executed, SameRom, d

(* The equations of Control!Effect: these values are truth values.         *)
LEMMA SameTruth ==
  ASSUME NEW x \in BOOLEAN, NEW y \in BOOLEAN, x <=> y
  PROVE  x = y
  OBVIOUS

LEMMA Equations ==
  ASSUME NEW c, NEW d, NEW op, Executed(d, c, op)
  PROVE  /\ d.halted = (c.halted \/ op = 118)
         /\ d.int_enable = (op = 251 \/ (op # 243 /\ c.int_enable))
<1>1. d.halted \in BOOLEAN /\ d.int_enable \in BOOLEAN
  BY DEF Executed, Sane, Ctx
<1> DEFINE h == (c.halted \/ op = 118)
           e == (op = 251 \/ (op # 243 /\ c.int_enable))
<1>2. h \in BOOLEAN /\ e \in BOOLEAN
  OBVIOUS
<1>3. (d.halted <=> h) /\ (d.int_enable <=> e)
  BY DEF Executed
<1> HIDE DEF h, e
<1>4. d.halted = h /\ d.int_enable = e
  BY <1>1, <1>2, <1>3, SameTruth
<1>5. QED  BY <1>4 DEF h, e

LEMMA Executes ==
  ASSUME NEW c, Sane(c), NEW op \in Byte
  PROVE  Executed(i8080_exec_opcode(c, op), c, op)
<1>1. CASE op \notin {118, 243, 251}
  <2> DEFINE d == i8080_exec_opcode(c, op)
  <2>1. Ticked(d, c)
    BY <1>1, OthersTick
  <2> HIDE DEF d
  <2>2. PICK b : Follows(b, c) /\ \E n \in 4 .. 18 : d = tick(b, n)
    BY <2>1 DEF Ticked
  <2>3. PICK n \in 4 .. 18 : d = tick(b, n)
    BY <2>2
  <2>4. Executed(tick(b, n), c, op)
    BY <1>1, <2>2, TickExecutes DEF Follows, Unmoved, SameRom
  <2>5. QED  BY <2>3, <2>4 DEF d
<1>2. CASE op = 118
  <2> DEFINE b == [c EXCEPT !.halted = TRUE]
  <2>1. Sane(b) /\ b.halted /\ b.int_enable = c.int_enable /\ b.cycles = c.cycles
        /\ b.int_requested = c.int_requested /\ b.int_opcode = c.int_opcode
        /\ SameRom(b, c)
    BY DEF Sane, Ctx, SameRom
  <2>2. i8080_exec_opcode(c, op) = tick(b, 7)
    BY <1>2, ControlOpcodes DEF HLT
  <2> HIDE DEF b
  <2>3. Executed(tick(b, 7), c, op)
    BY <1>2, <2>1, TickExecutes, 7 \in 4 .. 18
  <2>4. QED  BY <2>2, <2>3
<1>3. CASE op = 243
  <2> DEFINE b == [c EXCEPT !.int_enable = FALSE]
  <2>1. Sane(b) /\ ~b.int_enable /\ b.halted = c.halted /\ b.cycles = c.cycles
        /\ b.int_requested = c.int_requested /\ b.int_opcode = c.int_opcode
        /\ SameRom(b, c)
    BY DEF Sane, Ctx, SameRom
  <2>2. i8080_exec_opcode(c, op) = tick(b, 4)
    BY <1>3, ControlOpcodes DEF DI
  <2> HIDE DEF b
  <2>3. Executed(tick(b, 4), c, op)
    BY <1>3, <2>1, TickExecutes, 4 \in 4 .. 18
  <2>4. QED  BY <2>2, <2>3
<1>4. CASE op = 251
  <2> DEFINE b == [c EXCEPT !.int_enable = TRUE]
  <2>1. Sane(b) /\ b.int_enable /\ b.halted = c.halted /\ b.cycles = c.cycles
        /\ b.int_requested = c.int_requested /\ b.int_opcode = c.int_opcode
        /\ SameRom(b, c)
    BY DEF Sane, Ctx, SameRom
  <2>2. i8080_exec_opcode(c, op) = tick(b, 4)
    BY <1>4, ControlOpcodes DEF EI
  <2> HIDE DEF b
  <2>3. Executed(tick(b, 4), c, op)
    BY <1>4, <2>1, TickExecutes, 4 \in 4 .. 18
  <2>4. QED  BY <2>2, <2>3
<1>5. QED  BY <1>1, <1>2, <1>3, <1>4

-----------------------------------------------------------------------------
(* The control part of each step, as I8080Control has it.                  *)
LEMMA Starts ==
  ASSUME Init
  PROVE  Sane(ctx) /\ Control!Init
<1>1. PICK m \in BootMem, at \in BootPC :
        ctx = [reg |-> [r \in RegName |-> 0], f |-> FixedOnes, sp |-> 0, pc |-> at,
               halted |-> FALSE, int_enable |-> FALSE, int_requested |-> FALSE,
               int_opcode |-> 0, cycles |-> 0, mem |-> m, dev |-> BootDev]
  BY DEF Init
<1>2. m \in [Cell -> Byte] /\ at \in Word /\ BootDev \in Device /\ 0 \in 0 .. CycleMod - 1
  BY HostAssumption DEF HostAssumption
<1>3. 0 \in Byte /\ 0 \in Word
  BY ByteBounds, WordBounds
<1>4. FixedOnes \in SUBSET (0 .. 7) /\ GoodFlags(FixedOnes)
  BY DEF FixedOnes, FixedZeros, GoodFlags
<1>5. Sane(ctx)
  BY <1>1, <1>2, <1>3, <1>4 DEF Sane, Ctx
<1>6. Control!Init
  BY <1>1 DEF Control!Init, Control!NOP
<1>7. QED  BY <1>5, <1>6

LEMMA AcknowledgeStep ==
  ASSUME Sane(ctx), Acknowledge
  PROVE  Sane(ctx') /\ SameRom(ctx', ctx) /\ Control!Acknowledge
<1> DEFINE c == [ctx EXCEPT !.int_enable = FALSE, !.int_requested = FALSE,
                            !.halted = FALSE]
<1>1. /\ Sane(c) /\ c.halted = FALSE /\ c.int_enable = FALSE
      /\ c.int_requested = FALSE /\ c.int_opcode = ctx.int_opcode
      /\ c.cycles = ctx.cycles /\ ctx.int_opcode \in Byte /\ c.mem = ctx.mem
  BY DEF Sane, Ctx
<1>2. ctx' = i8080_exec_opcode(c, ctx.int_opcode)
  BY <1>1 DEF Acknowledge
<1> HIDE DEF c
<1>3. Executed(ctx', c, ctx.int_opcode)
  BY <1>1, <1>2, Executes
<1>4. /\ ctx'.halted = (c.halted \/ ctx.int_opcode = 118)
      /\ ctx'.int_enable =
           (ctx.int_opcode = 251 \/ (ctx.int_opcode # 243 /\ c.int_enable))
  BY <1>3, Equations
<1>5. /\ ctx'.int_requested = FALSE /\ ctx'.int_opcode = ctx.int_opcode
      /\ \E n \in 4 .. 18 : ctx'.cycles = (ctx.cycles + n) % CycleMod
  BY <1>1, <1>3 DEF Executed
<1>6. Control!Acknowledge
  BY <1>1, <1>4, <1>5 DEF Acknowledge, Control!Acknowledge, Control!Accepting,
     Control!Effect, Control!Costs, Control!HLT, Control!EI, Control!DI
<1>7. QED  BY <1>1, <1>3, <1>6 DEF Executed, SameRom

LEMMA FetchStep ==
  ASSUME Sane(ctx), FetchExecute
  PROVE  Sane(ctx') /\ SameRom(ctx', ctx) /\ \E op \in 0 .. 255 : Control!Execute(op)
<1> DEFINE op == byte_at_pc(ctx)
           c == skip(ctx, 1)
<1>1. op \in Byte /\ Follows(c, ctx)
  BY Stream, 1 \in 0 .. 2
<1>2. ctx' = i8080_exec_opcode(c, op)
  BY DEF FetchExecute
<1> HIDE DEF c, op
<1>3. Executed(ctx', c, op)
  BY <1>1, <1>2, Executes DEF Follows
<1>4. Control!Execute(op)
  BY <1>1, <1>3, Equations DEF FetchExecute, Executed, Follows, Unmoved, Control!Execute,
     Control!Accepting, Control!Effect, Control!Costs, Control!HLT, Control!EI, Control!DI
<1>5. op \in 0 .. 255
  BY <1>1, ByteBounds
<1>6. SameRom(ctx', ctx)
  BY <1>1, <1>3 DEF Executed, Follows, Unmoved, SameRom
<1>7. QED  BY <1>3, <1>4, <1>5, <1>6 DEF Executed

LEMMA RequestStep ==
  ASSUME Sane(ctx), NEW op \in IntOpcodes, i8080_interrupt(op)
  PROVE  Sane(ctx') /\ SameRom(ctx', ctx) /\ Control!Request(op)
<1>1. op \in Byte
  BY HostAssumption DEF HostAssumption
<1>2. QED
  BY <1>1 DEF i8080_interrupt, Sane, Ctx, SameRom, Control!Request

LEMMA InjectStep ==
  ASSUME Sane(ctx), NEW op \in HostOpcodes, ctx' = i8080_exec_opcode(ctx, op)
  PROVE  Sane(ctx') /\ SameRom(ctx', ctx) /\ Control!Inject(op)
<1>1. op \in Byte
  BY HostAssumption DEF HostAssumption
<1>2. Executed(ctx', ctx, op)
  BY <1>1, Executes
<1>3. QED
  BY <1>2, Equations DEF Executed, Control!Inject, Control!Effect, Control!Costs, Control!HLT,
     Control!EI, Control!DI

LEMMA EveryStep ==
  ASSUME Sane(ctx), [Next]_ctx
  PROVE  Sane(ctx') /\ SameRom(ctx', ctx) /\ [Control!Next]_(Control!vars)
<1>1. CASE Acknowledge
  BY <1>1, AcknowledgeStep DEF Control!Next, Control!Step
<1>2. CASE FetchExecute
  BY <1>2, FetchStep DEF Control!Next, Control!Step
<1>3. CASE Sleep \/ UNCHANGED ctx
  BY <1>3 DEF Sleep, SameRom, Control!vars
<1>4. ASSUME NEW op \in IntOpcodes, i8080_interrupt(op)
      PROVE  Sane(ctx') /\ SameRom(ctx', ctx) /\ Control!Next
  BY <1>4, RequestStep DEF Control!Next
<1>5. ASSUME NEW op \in HostOpcodes, ctx' = i8080_exec_opcode(ctx, op)
      PROVE  Sane(ctx') /\ SameRom(ctx', ctx) /\ Control!Next
  BY <1>5, InjectStep DEF Control!Next
<1>6. QED
  BY <1>1, <1>2, <1>3, <1>4, <1>5 DEF Next, i8080_step

-----------------------------------------------------------------------------
(* The inductive invariant of the processor.                               *)
LEMMA StaysSane == Spec => []Sane(ctx)
<1>1. Init => Sane(ctx)
  BY Starts
<1>2. Sane(ctx) /\ [Next]_ctx => Sane(ctx)'
  BY EveryStep
<1>3. QED  BY <1>1, <1>2, PTL DEF Spec

(* Every register, the stack pointer, the program counter and every byte   *)
(* of memory keep the width i8080.h gives them, over any program.          *)
THEOREM Types == Spec => []TypeOK
<1>1. Sane(ctx) => TypeOK
  BY DEF Sane, TypeOK
<1>2. QED  BY <1>1, StaysSane, PTL

(* No program, by no byte it pops into the flags, changes the bits of f    *)
(* that are always set to 1 and always set to 0.                           *)
THEOREM UnusedBits == Spec => []UnusedFlagBits
<1>1. Sane(ctx) => UnusedFlagBits
  BY DEF Sane, GoodFlags, UnusedFlagBits
<1>2. QED  BY <1>1, StaysSane, PTL

(* The difference of a wrapping counter before and after an instruction.   *)
LEMMA Difference ==
  ASSUME NEW m \in Nat, m > 18, NEW x \in 0 .. m - 1, NEW k \in 4 .. 18
  PROVE  (((x + k) % m) - x) % m = k
<1>1. CASE x + k < m
  <2>1. (x + k) % m = x + k
    BY <1>1, Z3
  <2>2. QED
    BY <2>1, k % m = k, Z3
<1>2. CASE x + k >= m
  <2>1. (x + k) % m = x + k - m
    BY <1>2, Z3
  <2>2. (k - m) % m = k
    BY Z3
  <2>3. QED
    BY <2>1, <2>2, Z3
<1>3. QED  BY <1>1, <1>2

(* Over any program, no step of a processor that runs leaves the clock of  *)
(* the machine where it was, or moves it by more than an instruction.      *)
THEOREM Timing ==
  ASSUME CycleMod > 18
  PROVE  Spec => TimePasses
<1> DEFINE Passes == (ctx'.cycles - ctx.cycles) % CycleMod \in 4 .. 18
<1>1. ASSUME Sane(ctx), FetchExecute \/ Acknowledge
      PROVE  Passes
  <2>1. \E k \in 4 .. 18 : ctx'.cycles = (ctx.cycles + k) % CycleMod
    <3>1. CASE FetchExecute
      BY <1>1, <3>1, FetchStep DEF Control!Execute, Control!Effect, Control!Costs
    <3>2. CASE Acknowledge
      BY <1>1, <3>2, AcknowledgeStep DEF Control!Acknowledge, Control!Effect, Control!Costs
    <3>3. QED  BY <1>1, <3>1, <3>2
  <2>2. CycleMod \in Nat /\ ctx.cycles \in 0 .. CycleMod - 1
    BY <1>1, SaneFields, HostAssumption DEF HostAssumption
  <2>3. QED  BY <2>1, <2>2, CycleMod > 18, Difference
<1>2. Sane(ctx) /\ [Next]_ctx => [FetchExecute \/ Acknowledge => Passes]_ctx
  BY <1>1
<1>3. QED  BY <1>2, StaysSane, PTL DEF Spec, TimePasses

(* Over any program and any machine around it, i8080_step,                 *)
(* i8080_interrupt and i8080_exec_opcode halt, wake, mask, take requests   *)
(* and count cycles as I8080Control says.                                  *)
THEOREM Implementation == Spec => ImplementsControl
<1>1. Init => Control!Init
  BY Starts
<1>2. Sane(ctx) /\ [Next]_ctx => [Control!Next]_(Control!vars)
  BY EveryStep
<1>3. QED
  BY <1>1, <1>2, StaysSane, PTL DEF Spec, ImplementsControl, Control!Spec

-----------------------------------------------------------------------------
(* Flags and the program counter, instruction by instruction.  Most of the *)
(* helpers touch neither.                                                  *)
Keeps(d, c) == Sane(d) /\ d.f = c.f /\ d.pc = c.pc

LEMMA KeepsItself ==
  ASSUME NEW c, Sane(c)
  PROVE  Keeps(c, c)
  BY DEF Keeps

LEMMA KeepsAgain ==
  ASSUME NEW c, NEW d, NEW e, Keeps(d, c), Keeps(e, d)
  PROVE  Keeps(e, c)
  BY DEF Keeps

LEMMA KeepsReg ==
  ASSUME NEW c, Sane(c), NEW r \in RegName, NEW v \in Byte
  PROVE  Keeps(set_reg(c, r, v), c)
<1>1. Sane(set_reg(c, r, v))
  BY SetReg DEF Follows
<1>2. QED  BY <1>1 DEF Keeps, set_reg, Sane, Ctx

LEMMA KeepsByte ==
  ASSUME NEW c, Sane(c), NEW address \in Word, NEW v \in Byte
  PROVE  Keeps(write_byte(c, address, v), c)
<1>1. Sane(write_byte(c, address, v))
  BY WriteByte DEF Follows
<1>2. QED  BY <1>1 DEF Keeps, write_byte, Sane, Ctx

LEMMA KeepsField ==
  ASSUME NEW c, Sane(c)
  PROVE  /\ \A w \in Word : Keeps([c EXCEPT !.sp = w], c)
         /\ \A d \in Device : Keeps([c EXCEPT !.dev = d], c)
         /\ Keeps(drop(c), c)
<1>1. ASSUME NEW w \in Word PROVE Keeps([c EXCEPT !.sp = w], c)
  BY DEF Keeps, Sane, Ctx
<1>2. ASSUME NEW d \in Device PROVE Keeps([c EXCEPT !.dev = d], c)
  BY DEF Keeps, Sane, Ctx
<1>3. Up(c.sp, 2) \in Word
  BY SaneFields, Packing, 2 \in 0 .. 2
<1>4. QED  BY <1>1, <1>2, <1>3 DEF drop

LEMMA KeepsPair ==
  ASSUME NEW c, Sane(c), NEW p \in {BC, DE, HL}, NEW w \in Word
  PROVE  Keeps(set_pair(c, p, w), c)
<1>1. p[1] \in RegName /\ p[2] \in RegName
  BY DEF BC, DE, HL, RegName
<1> DEFINE d == set_reg(c, p[1], hi(w))
<1>2. Keeps(d, c)
  BY <1>1, Packing, KeepsReg
<1>3. Keeps(set_reg(d, p[2], lo(w)), d)
  <2> HIDE DEF d
  <2>1. QED  BY <1>1, <1>2, Packing, KeepsReg DEF Keeps
<1>4. QED  BY <1>2, <1>3, KeepsAgain DEF set_pair

LEMMA KeepsWord ==
  ASSUME NEW c, Sane(c), NEW address \in Word, NEW w \in Word
  PROVE  Keeps(write_word(c, address, w), c)
<1> DEFINE d == write_byte(c, address, lo(w))
<1>1. Keeps(d, c)
  BY Packing, KeepsByte
<1>2. Keeps(write_byte(d, Up(address, 1), hi(w)), d)
  <2> HIDE DEF d
  <2>1. QED  BY <1>1, Packing, KeepsByte, 1 \in 0 .. 2 DEF Keeps
<1>3. QED  BY <1>1, <1>2, KeepsAgain DEF write_word

LEMMA KeepsPush ==
  ASSUME NEW c, Sane(c), NEW w \in Word
  PROVE  Keeps(push_word(c, w), c)
<1> DEFINE d == [c EXCEPT !.sp = Down(c.sp, 2)]
<1>1. Down(c.sp, 2) \in Word
  BY SaneFields, Packing, 2 \in 0 .. 2
<1>2. Keeps(d, c)
  BY <1>1, KeepsField
<1>3. Keeps(write_word(d, d.sp, w), d)
  <2> HIDE DEF d
  <2>1. QED  BY <1>2, SaneFields, KeepsWord DEF Keeps
<1>4. QED  BY <1>2, <1>3, KeepsAgain DEF push_word

LEMMA KeepsOperand ==
  ASSUME NEW c, Sane(c)
  PROVE  /\ \A r \in RegName \union {"m"}, v \in Byte : Keeps(set_r8(c, r, v), c)
         /\ \A op \in Byte, w \in Word : Keeps(set_r16(c, op, w), c)
<1>1. ASSUME NEW r \in RegName \union {"m"}, NEW v \in Byte
      PROVE  Keeps(set_r8(c, r, v), c)
  BY RegPairs, KeepsReg, KeepsByte DEF set_r8
<1>2. ASSUME NEW op \in Byte, NEW w \in Word
      PROVE  Keeps(set_r16(c, op, w), c)
  BY Select, KeepsPair, KeepsField DEF set_r16
<1>3. QED  BY <1>1, <1>2

(* The end of an instruction: skip its operands, count its cycles.         *)
LEMMA Ends ==
  ASSUME NEW b, Sane(b), NEW n \in 4 .. 18
  PROVE  /\ tick(b, n).f = b.f /\ tick(b, n).pc = b.pc
         /\ \A k \in 1 .. 2 :
              tick(skip(b, k), n).f = b.f /\ tick(skip(b, k), n).pc = Up(b.pc, k)
  BY DEF tick, skip, Sane, Ctx

(* New flags, or a new accumulator and flags, leave the program counter.   *)
LEMMA PcStays ==
  ASSUME NEW b, Sane(b), NEW f, GoodFlags(f)
  PROVE  [b EXCEPT !.f = f].pc = b.pc /\ Sane([b EXCEPT !.f = f])
  BY DEF Sane, Ctx, GoodFlags

\* What an instruction that sets no flag and does not branch leaves, its k
\* operand bytes skipped.
Runs(d, c, k) == d.f = c.f /\ d.pc = Up(c.pc, k)

LEMMA RunsOn ==
  ASSUME NEW c, Sane(c), NEW b, Keeps(b, c), NEW n \in 4 .. 18
  PROVE  /\ Runs(tick(b, n), c, 0)
         /\ \A k \in 1 .. 2 : Runs(tick(skip(b, k), n), c, k)
<1>1. Up(c.pc, 0) = c.pc
  BY SaneFields, WordBounds, Z3 DEF Up
<1>2. QED  BY <1>1, Ends DEF Keeps, Runs

LEMMA MovesRun ==
  ASSUME NEW c, Sane(c), NEW op \in Byte
  PROVE  /\ Runs(MVI(c, op), c, 1) /\ Runs(MOV(c, op), c, 0) /\ Runs(LXI(c, op), c, 2)
         /\ Runs(INX(c, op), c, 0) /\ Runs(DCX(c, op), c, 0)
<1>1. /\ Dst(op) \in RegName \union {"m"} /\ Src(op) \in RegName \union {"m"}
      /\ byte_at_pc(c) \in Byte /\ word_at_pc(c) \in Word /\ get_r16(c, op) \in Word
  BY Select, Stream, Operand16
<1>2. get_r8(c, Src(op)) \in Byte
  BY <1>1, Operand8
<1>3. Up(get_r16(c, op), 1) \in Word /\ Down(get_r16(c, op), 1) \in Word
  BY <1>1, Packing, 1 \in 0 .. 2
<1>4. /\ Keeps(set_r8(c, Dst(op), byte_at_pc(c)), c)
      /\ Keeps(set_r8(c, Dst(op), get_r8(c, Src(op))), c)
      /\ Keeps(set_r16(c, op, word_at_pc(c)), c)
      /\ Keeps(set_r16(c, op, Up(get_r16(c, op), 1)), c)
      /\ Keeps(set_r16(c, op, Down(get_r16(c, op), 1)), c)
  BY <1>1, <1>2, <1>3, KeepsOperand
<1>5. /\ MemoryOr(Dst(op), 10, 7) \in 4 .. 18 /\ 10 \in 4 .. 18 /\ 5 \in 4 .. 18
      /\ (IF "m" \in {Dst(op), Src(op)} THEN 7 ELSE 5) \in 4 .. 18
  BY DEF MemoryOr
<1>6. Runs(MVI(c, op), c, 1) /\ Runs(LXI(c, op), c, 2)
  BY <1>4, <1>5, RunsOn, 1 \in 1 .. 2, 2 \in 1 .. 2 DEF MVI, LXI
<1>7. Runs(MOV(c, op), c, 0) /\ Runs(INX(c, op), c, 0) /\ Runs(DCX(c, op), c, 0)
  BY <1>4, <1>5, RunsOn DEF MOV, INX, DCX
<1>8. QED  BY <1>6, <1>7

LEMMA LoadsAndStoresRun ==
  ASSUME NEW c, Sane(c), NEW op \in Byte
  PROVE  /\ Runs(STAX(c, op), c, 0) /\ Runs(LDAX(c, op), c, 0)
         /\ Runs(STA(c), c, 2) /\ Runs(LDA(c), c, 2)
         /\ Runs(SHLD(c), c, 2) /\ Runs(LHLD(c), c, 2)
<1>1. /\ get_pair(c, Pair(op)) \in Word /\ get_pair(c, HL) \in Word
      /\ word_at_pc(c) \in Word /\ c.reg["a"] \in Byte /\ "a" \in RegName
      /\ HL \in {BC, DE, HL}
  BY Select, RegPairs, Stream, SaneFields DEF RegName
<1>2. /\ Keeps(write_byte(c, get_pair(c, Pair(op)), c.reg["a"]), c)
      /\ Keeps(write_byte(c, word_at_pc(c), c.reg["a"]), c)
      /\ Keeps(write_word(c, word_at_pc(c), get_pair(c, HL)), c)
  BY <1>1, KeepsByte, KeepsWord
<1>3. /\ Keeps(set_reg(c, "a", read_byte(c, get_pair(c, Pair(op)))), c)
      /\ Keeps(set_reg(c, "a", read_byte(c, word_at_pc(c))), c)
      /\ Keeps(set_pair(c, HL, read_word(c, word_at_pc(c))), c)
  BY <1>1, ReadByte, WordAccess, KeepsReg, KeepsPair
<1>4. 7 \in 4 .. 18 /\ 13 \in 4 .. 18 /\ 16 \in 4 .. 18 /\ 2 \in 1 .. 2
  OBVIOUS
<1>5. Runs(STAX(c, op), c, 0) /\ Runs(LDAX(c, op), c, 0)
  BY <1>2, <1>3, <1>4, RunsOn DEF STAX, LDAX
<1>6. Runs(STA(c), c, 2) /\ Runs(LDA(c), c, 2) /\ Runs(SHLD(c), c, 2) /\ Runs(LHLD(c), c, 2)
  BY <1>2, <1>3, <1>4, RunsOn DEF STA, LDA, SHLD, LHLD
<1>7. QED  BY <1>5, <1>6

(* The unused bits are in place already, so repairing them changes nothing.*)
LEMMA NothingToFix ==
  ASSUME NEW c, Sane(c)
  PROVE  FixFlags(c) = c
<1>1. (c.f \union FixedOnes) \ FixedZeros = c.f
  BY DEF Sane, GoodFlags
<1>2. FixFlags(c) = [c EXCEPT !.f = c.f]
  BY <1>1 DEF FixFlags
<1>3. QED  BY <1>2 DEF Sane, Ctx

(* PUSH, and POP but for the flags POP PSW takes from the stack.           *)
LEMMA StackRuns ==
  ASSUME NEW c, Sane(c), NEW op \in Byte
  PROVE  /\ Runs(PUSH(c, op), c, 0)
         /\ POP(c, op).pc = Up(c.pc, 0)
         /\ Row(op) # 3 => Runs(POP(c, op), c, 0)
<1>1. /\ Pair(op) \in {BC, DE, HL} /\ get_pair(c, Pair(op)) \in Word
      /\ get_psw(c) \in Word /\ top(c) \in Word
  BY Select, RegPairs, Psw, Stream
<1>2. Runs(PUSH(c, op), c, 0)
  <2>1. /\ Keeps(push_word(c, get_psw(c)), c)
        /\ Keeps(push_word(c, get_pair(c, Pair(op))), c)
    BY <1>1, KeepsPush
  <2>2. QED  BY <2>1, NothingToFix, RunsOn, 11 \in 4 .. 18 DEF PUSH
<1> DEFINE d == drop(c)
           e == FixFlags(set_psw(d, top(c)))
<1>3. Keeps(d, c)
  BY KeepsField
<1>4. CASE Row(op) # 3
  <2>1. Keeps(set_pair(d, Pair(op), top(c)), d)
    <3> HIDE DEF d
    <3>1. QED  BY <1>1, <1>3, KeepsPair DEF Keeps
  <2>2. Keeps(set_pair(d, Pair(op), top(c)), c)
    BY <1>3, <2>1, KeepsAgain
  <2>3. Runs(POP(c, op), c, 0)
    BY <1>4, <2>2, RunsOn, 10 \in 4 .. 18 DEF POP
  <2>4. QED  BY <1>2, <2>3 DEF Runs
<1>5. CASE Row(op) = 3
  <2>1. Sane(e) /\ e.pc = d.pc
    <3> HIDE DEF d
    <3>1. Sane(d)
      BY <1>3 DEF Keeps
    <3>2. Sane(e)
      BY <1>1, <3>1, PopPsw DEF Follows
    <3>3. e.pc = d.pc
      BY <3>1 DEF FixFlags, set_psw, set_af, set_reg, Sane, Ctx
    <3>4. QED  BY <3>2, <3>3
  <2>2. POP(c, op) = tick(e, 10)
    BY <1>5 DEF POP
  <2>3. Up(c.pc, 0) = c.pc
    BY SaneFields, WordBounds, Z3 DEF Up
  <2>4. POP(c, op).pc = c.pc
    <3> HIDE DEF d, e
    <3>1. QED  BY <1>3, <2>1, <2>2, Ends, 10 \in 4 .. 18 DEF Keeps
  <2>5. QED  BY <1>2, <1>5, <2>3, <2>4
<1>6. QED  BY <1>4, <1>5

(* The instructions that set flags, but for them.                          *)
LEMMA ArithmeticRuns ==
  ASSUME NEW c, Sane(c), NEW op \in Byte
  PROVE  /\ INR(c, op).pc = Up(c.pc, 0) /\ DCR(c, op).pc = Up(c.pc, 0)
         /\ DAD(c, op).pc = Up(c.pc, 0) /\ Accumulate(c, op).pc = Up(c.pc, 0)
         /\ AluRegister(c, op).pc = Up(c.pc, 0) /\ AluImmediate(c, op).pc = Up(c.pc, 1)
<1> DEFINE k == (op \div 8) % 8
<1>1. /\ Dst(op) \in RegName \union {"m"} /\ Src(op) \in RegName \union {"m"}
      /\ HL \in {BC, DE, HL} /\ get_pair(c, HL) \in Word /\ get_r16(c, op) \in Word
  BY Select, RegPairs, Operand16
<1>2. /\ get_r8(c, Dst(op)) \in Byte /\ get_r8(c, Src(op)) \in Byte
      /\ c.reg["a"] \in Byte /\ GoodFlags(c.f) /\ byte_at_pc(c) \in Byte
  BY <1>1, Operand8, SaneFields, Stream DEF RegName
<1>3. Up(c.pc, 0) = c.pc
  BY SaneFields, WordBounds, Z3 DEF Up
<1>4. /\ MemoryOr(Dst(op), 10, 5) \in 4 .. 18 /\ MemoryOr(Src(op), 7, 4) \in 4 .. 18
      /\ 10 \in 4 .. 18 /\ 4 \in 4 .. 18 /\ 7 \in 4 .. 18 /\ 1 \in 1 .. 2
  BY DEF MemoryOr
<1>5. ASSUME NEW d, Keeps(d, c), NEW f, GoodFlags(f), NEW n \in 4 .. 18
      PROVE  tick([d EXCEPT !.f = f], n).pc = c.pc
  <2> DEFINE e == [d EXCEPT !.f = f]
  <2>1. Sane(e) /\ e.pc = c.pc
    BY <1>5, PcStays DEF Keeps
  <2> HIDE DEF e
  <2>2. tick(e, n).pc = c.pc
    BY <2>1, Ends
  <2>3. QED  BY <2>2 DEF e
<1>6. ASSUME NEW r, GoodResult(r), NEW n \in 4 .. 18
      PROVE  tick(set_af(c, r), n).pc = c.pc /\ tick(skip(set_af(c, r), 1), n).pc = Up(c.pc, 1)
  <2> DEFINE d == set_reg(c, "a", r.a)
             e == set_af(c, r)
  <2>1. Keeps(d, c) /\ e = [d EXCEPT !.f = r.f] /\ GoodFlags(r.f)
    BY <1>6, KeepsReg DEF GoodResult, RegName, set_af
  <2>2. Sane(e) /\ e.pc = c.pc
    <3> HIDE DEF d, e
    <3>1. QED  BY <2>1, PcStays DEF Keeps
  <2> HIDE DEF e
  <2>3. tick(e, n).pc = c.pc /\ tick(skip(e, 1), n).pc = Up(c.pc, 1)
    BY <1>4, <2>2, Ends
  <2>4. QED  BY <2>3 DEF e
<1>7. INR(c, op).pc = c.pc /\ DCR(c, op).pc = c.pc
  <2> DEFINE i == op_inr(c.f, get_r8(c, Dst(op)))
             j == op_dcr(c.f, get_r8(c, Dst(op)))
  <2>1. i.v \in Byte /\ GoodFlags(i.f) /\ j.v \in Byte /\ GoodFlags(j.f)
    BY <1>2, IncrementGood
  <2>2. Keeps(set_r8(c, Dst(op), i.v), c) /\ Keeps(set_r8(c, Dst(op), j.v), c)
    BY <1>1, <2>1, KeepsOperand
  <2>3. INR(c, op) = tick([set_r8(c, Dst(op), i.v) EXCEPT !.f = i.f], MemoryOr(Dst(op), 10, 5))
    BY DEF INR
  <2>4. DCR(c, op) = tick([set_r8(c, Dst(op), j.v) EXCEPT !.f = j.f], MemoryOr(Dst(op), 10, 5))
    BY DEF DCR
  <2> HIDE DEF i, j
  <2>5. QED  BY <1>4, <1>5, <2>1, <2>2, <2>3, <2>4
<1>8. DAD(c, op).pc = c.pc
  <2> DEFINE r == op_dad(get_pair(c, HL), c.f, get_r16(c, op))
  <2>1. r.hl \in Word /\ GoodFlags(r.f)
    BY <1>1, <1>2, DadGood
  <2>2. Keeps(set_pair(c, HL, r.hl), c)
    BY <1>1, <2>1, KeepsPair
  <2>3. DAD(c, op) = tick([set_pair(c, HL, r.hl) EXCEPT !.f = r.f], 10)
    BY DEF DAD
  <2> HIDE DEF r
  <2>4. QED  BY <1>4, <1>5, <2>1, <2>2, <2>3
<1>9. Accumulate(c, op).pc = c.pc
  BY <1>2, <1>4, <1>6, AccumulateGood DEF Accumulate
<1>10. AluRegister(c, op).pc = c.pc
  BY <1>2, <1>4, <1>6, AluGood DEF AluRegister
<1>11. AluImmediate(c, op).pc = Up(c.pc, 1)
  BY <1>2, <1>4, <1>6, AluGood DEF AluImmediate
<1>12. QED  BY <1>3, <1>7, <1>8, <1>9, <1>10, <1>11

(* Branches keep the flags; where a condition fails they fall through.     *)
LEMMA BranchesRun ==
  ASSUME NEW c, Sane(c), NEW op \in Byte
  PROVE  /\ RetIf(c, op).f = c.f /\ JmpIf(c, op).f = c.f /\ CallIf(c, op).f = c.f
         /\ RET(c).f = c.f /\ JMP(c).f = c.f /\ CALL(c).f = c.f
         /\ RST(c, op).f = c.f /\ PCHL(c).f = c.f
         /\ ~Condition(c, op) =>
              /\ Runs(RetIf(c, op), c, 0)
              /\ Runs(JmpIf(c, op), c, 2) /\ Runs(CallIf(c, op), c, 2)
<1>1. ASSUME NEW d, Keeps(d, c), NEW w \in Word, NEW n \in 4 .. 18
      PROVE  tick([d EXCEPT !.pc = w], n).f = c.f
  BY <1>1 DEF tick, Keeps, Sane, Ctx
<1>2. /\ c.pc \in Word /\ Up(c.pc, 2) \in Word /\ word_at_pc(c) \in Word
      /\ top(c) \in Word /\ get_pair(c, HL) \in Word
  BY SaneFields, Packing, Stream, RegPairs, 2 \in 0 .. 2
<1>3. /\ 5 \in 4 .. 18 /\ 10 \in 4 .. 18 /\ 11 \in 4 .. 18 /\ 17 \in 4 .. 18
      /\ 2 \in 1 .. 2
  OBVIOUS
<1>4. Keeps(c, c) /\ Keeps(drop(c), c)
  BY KeepsItself, KeepsField
<1>5. ASSUME NEW w \in Word PROVE Keeps(push_word(c, w), c)
  BY KeepsPush
<1>6. tick(op_ret(c), 11).f = c.f /\ tick(op_ret(c), 10).f = c.f
  BY <1>1, <1>2, <1>3, <1>4 DEF op_ret
<1>7. tick(op_jmp(c), 10).f = c.f
  BY <1>1, <1>2, <1>3, <1>4 DEF op_jmp
<1>8. tick(op_call(c), 17).f = c.f
  <2> DEFINE d == push_word(c, Up(c.pc, 2))
  <2>1. Keeps(d, c)
    BY <1>2, <1>5
  <2>2. op_call(c) = [d EXCEPT !.pc = word_at_pc(d)]
    BY DEF op_call, op_jmp
  <2> HIDE DEF d
  <2>3. word_at_pc(d) \in Word
    BY <2>1, Stream DEF Keeps
  <2>4. QED  BY <1>1, <1>3, <2>1, <2>2, <2>3
<1>9. RST(c, op).f = c.f
  <2>1. 8 * ((op \div 8) % 8) \in Word
    BY ByteBounds, WordBounds, Z3
  <2>2. QED  BY <1>1, <1>2, <1>3, <1>5, <2>1 DEF RST, op_rst
<1>10. PCHL(c).f = c.f
  BY <1>1, <1>2, <1>3, <1>4 DEF PCHL
<1>11. /\ Runs(tick(c, 5), c, 0)
       /\ Runs(tick(skip(c, 2), 10), c, 2) /\ Runs(tick(skip(c, 2), 11), c, 2)
  BY <1>3, <1>4, RunsOn
<1>12. QED
  BY <1>6, <1>7, <1>8, <1>9, <1>10, <1>11 DEF RetIf, JmpIf, CallIf, RET, JMP, CALL, Runs

LEMMA OthersRun ==
  ASSUME NEW c, Sane(c)
  PROVE  /\ Runs(NOP(c), c, 0) /\ Runs(XTHL(c), c, 0) /\ Runs(XCHG(c), c, 0)
         /\ Runs(IN_(c), c, 1) /\ Runs(OUT(c), c, 1) /\ Runs(SPHL(c), c, 0)
         /\ Runs(HLT(c), c, 0) /\ Runs(EI(c), c, 0) /\ Runs(DI(c), c, 0)
<1>1. /\ 4 \in 4 .. 18 /\ 5 \in 4 .. 18 /\ 7 \in 4 .. 18 /\ 10 \in 4 .. 18
      /\ 18 \in 4 .. 18 /\ 1 \in 1 .. 2
  OBVIOUS
<1>2. /\ get_pair(c, HL) \in Word /\ get_pair(c, DE) \in Word /\ top(c) \in Word
      /\ c.sp \in Word /\ byte_at_pc(c) \in Byte /\ c.reg["a"] \in Byte
      /\ c.dev \in Device /\ "a" \in RegName
  BY RegPairs, Stream, SaneFields DEF RegName
<1>3. Runs(NOP(c), c, 0)
  BY <1>1, KeepsItself, RunsOn DEF NOP
<1>4. Runs(XTHL(c), c, 0)
  <2> DEFINE d == write_word(c, c.sp, get_pair(c, HL))
  <2>1. Keeps(d, c)
    BY <1>2, KeepsWord
  <2>2. Keeps(set_pair(d, HL, top(c)), d)
    <3> HIDE DEF d
    <3>1. QED  BY <1>2, <2>1, KeepsPair DEF Keeps
  <2>3. QED  BY <1>1, <2>1, <2>2, KeepsAgain, RunsOn DEF XTHL, op_xthl
<1>5. Runs(XCHG(c), c, 0)
  <2> DEFINE d == set_pair(c, HL, get_pair(c, DE))
  <2>1. Keeps(d, c)
    BY <1>2, KeepsPair
  <2>2. Keeps(set_pair(d, DE, get_pair(c, HL)), d)
    <3> HIDE DEF d
    <3>1. QED  BY <1>2, <2>1, KeepsPair DEF Keeps
  <2>3. QED  BY <1>1, <2>1, <2>2, KeepsAgain, RunsOn DEF XCHG, op_xchg
<1>6. /\ IoIn(c.dev, byte_at_pc(c)) \in Byte
      /\ IoOut(c.dev, byte_at_pc(c), c.reg["a"]) \in Device
  BY <1>2, MachineAssumption DEF MachineAssumption
<1>7. Runs(IN_(c), c, 1)
  BY <1>1, <1>2, <1>6, KeepsReg, RunsOn DEF IN_
<1>8. Runs(OUT(c), c, 1)
  <2> DEFINE v == IoOut(c.dev, byte_at_pc(c), c.reg["a"])
  <2>1. Keeps([c EXCEPT !.dev = v], c)
    BY <1>6, KeepsField
  <2>2. QED  BY <1>1, <2>1, RunsOn DEF OUT
<1>9. Runs(SPHL(c), c, 0)
  BY <1>1, <1>2, KeepsField, RunsOn DEF SPHL
<1>10. Runs(HLT(c), c, 0) /\ Runs(EI(c), c, 0) /\ Runs(DI(c), c, 0)
  <2>1. /\ Keeps([c EXCEPT !.halted = TRUE], c)
        /\ Keeps([c EXCEPT !.int_enable = TRUE], c)
        /\ Keeps([c EXCEPT !.int_enable = FALSE], c)
    BY DEF Keeps, Sane, Ctx
  <2>2. QED  BY <1>1, <2>1, RunsOn DEF HLT, EI, DI
<1>11. QED  BY <1>3, <1>4, <1>5, <1>7, <1>8, <1>9, <1>10

(* The length of an instruction, by its case in i8080_exec_opcode.         *)
LEMMA Lengths ==
  ASSUME NEW op \in Byte
  PROVE  /\ op < 64 /\ op % 8 \in {0, 3, 4, 5, 7} => Length(op) = 1
         /\ op < 64 /\ op % 16 \in {9, 11} => Length(op) = 1
         /\ op < 64 /\ op % 16 = 1 => Length(op) = 3
         /\ op < 64 /\ op % 8 = 6 => Length(op) = 2
         /\ op \in {2, 18, 10, 26} => Length(op) = 1
         /\ op \in {34, 50, 42, 58} => Length(op) = 3
         /\ op \in 64 .. 191 => Length(op) = 1
         /\ op >= 192 /\ op % 8 \in {0, 1, 7} => Length(op) = 1
         /\ op >= 192 /\ op % 16 = 5 => Length(op) = 1
         /\ op >= 192 /\ op % 8 \in {2, 4} => Length(op) = 3
         /\ op >= 192 /\ op % 8 = 6 => Length(op) = 2
         /\ op \in {211, 219} => Length(op) = 2
         /\ op \in {227, 235, 243, 251, 249} => Length(op) = 1
<1>1. op \in Int /\ 0 <= op /\ op < 256
  BY ByteBounds
<1>2. op \in ThreeBytes <=>
        \/ op < 64 /\ (op % 16 = 1 \/ op \in {34, 42, 50, 58})
        \/ op >= 192 /\ (op % 8 \in {2, 4} \/ op \in {195, 203, 205, 221, 237, 253})
  BY <1>1 DEF ThreeBytes
<1>3. op \in TwoBytes <=> ((op < 64 \/ op >= 192) /\ op % 8 = 6) \/ op \in {211, 219}
  BY <1>1 DEF TwoBytes
<1>4. QED
  BY <1>1, <1>2, <1>3, Z3 DEF Length

LEMMA LowOpcodesRun ==
  ASSUME NEW c, Sane(c), NEW op \in Byte, op < 64
  PROVE  LET d == i8080_exec_opcode(c, op)
         IN  /\ d.pc = Up(c.pc, Length(op) - 1)
             /\ op \notin Flagging => d.f = c.f
<1>1. op \in Int /\ 0 <= op
  BY ByteBounds
<1>2. op \notin Flagging => ~(op % 8 \in {4, 5, 7}) /\ ~(op % 16 = 9)
  BY <1>1 DEF Flagging
<1>3. QED
  BY <1>1, <1>2, Covered, Lengths, MovesRun, LoadsAndStoresRun, ArithmeticRuns, OthersRun
     DEF i8080_exec_opcode, Runs

LEMMA MiddleOpcodesRun ==
  ASSUME NEW c, Sane(c), NEW op \in Byte, op \in 64 .. 191
  PROVE  LET d == i8080_exec_opcode(c, op)
         IN  /\ d.pc = Up(c.pc, Length(op) - 1)
             /\ op \notin Flagging => d.f = c.f
<1>1. op \in Int
  BY ByteBounds
<1>2. op \notin Flagging => op < 128
  BY <1>1 DEF Flagging
<1>3. QED
  BY <1>1, <1>2, Lengths, MovesRun, ArithmeticRuns, OthersRun
     DEF i8080_exec_opcode, Runs

LEMMA HighOpcodesRun ==
  ASSUME NEW c, Sane(c), NEW op \in Byte, op >= 192
  PROVE  LET d == i8080_exec_opcode(c, op)
         IN  /\ op \notin Branching => d.pc = Up(c.pc, Length(op) - 1)
             /\ op \in Conditional /\ ~Condition(c, op) => d.pc = Up(c.pc, Length(op) - 1)
             /\ op \notin Flagging => d.f = c.f
<1>1. op \in Int /\ op < 256
  BY ByteBounds
<1>2. op \notin Flagging => op % 8 # 6 /\ op # 241
  BY <1>1 DEF Flagging
<1>3. op \in Conditional <=> op % 8 \in {0, 2, 4}
  BY <1>1 DEF Conditional
<1>4. op \in Branching <=>
        \/ op % 8 \in {0, 2, 4, 7}
        \/ op \in {195, 203, 201, 217, 233, 205, 221, 237, 253}
  BY <1>1, <1>3 DEF Branching
<1>5. op % 16 = 1 /\ op # 241 => Row(op) # 3
  BY <1>1, Z3 DEF Row
<1>6. QED
  BY <1>1, <1>2, <1>3, <1>4, <1>5, Covered, Lengths, StackRuns, ArithmeticRuns,
     BranchesRun, OthersRun
     DEF i8080_exec_opcode, Runs

LEMMA OpcodesRun ==
  ASSUME NEW c, Sane(c), NEW op \in Byte
  PROVE  LET d == i8080_exec_opcode(c, op)
         IN  /\ \/ d.pc = Up(c.pc, Length(op) - 1)
                \/ op \in Conditional /\ Condition(c, op)
                \/ op \in Branching \ Conditional
             /\ op \notin Flagging => d.f = c.f
<1>1. op < 64 \/ op \in 64 .. 191 \/ op >= 192
  BY ByteBounds
<1>2. QED
  BY <1>1, LowOpcodesRun, MiddleOpcodesRun, HighOpcodesRun DEF Branching

(* The program counter of any program falls through each instruction that  *)
(* does not branch to the instruction after its last operand byte, over    *)
(* the end of the address space too.                                       *)
THEOREM StraightLine == Spec => FallsThrough
<1> DEFINE Falls ==
      FetchExecute =>
        \/ ctx'.pc = Up(ctx.pc, Length(opcode))
        \/ opcode \in Conditional /\ Condition(ctx, opcode)
        \/ opcode \in Branching \ Conditional
<1>1. ASSUME Sane(ctx), FetchExecute PROVE Falls
  <2> DEFINE op == byte_at_pc(ctx)
             c == skip(ctx, 1)
  <2>1. op \in Byte /\ Sane(c) /\ op = opcode
    BY <1>1, Stream, 1 \in 0 .. 2 DEF Follows, opcode
  <2>2. c.pc = Up(ctx.pc, 1) /\ c.f = ctx.f /\ ctx.pc \in Word
    BY <1>1 DEF skip, Sane, Ctx
  <2>3. ctx' = i8080_exec_opcode(c, op)
    BY <1>1 DEF FetchExecute
  <2>4. Condition(c, op) = Condition(ctx, op)
    BY <2>2 DEF Condition
  <2>5. Length(op) \in 1 .. 3
    BY DEF Length
  <2> HIDE DEF c, op
  <2>6. Up(c.pc, Length(op) - 1) = Up(ctx.pc, Length(op))
    <3>1. \A w \in Word, k \in 1 .. 3 : Up(Up(w, 1), k - 1) = Up(w, k)
      BY WordBounds, Z3 DEF Up
    <3>2. QED  BY <2>2, <2>5, <3>1
  <2>7. \/ ctx'.pc = Up(c.pc, Length(op) - 1)
        \/ op \in Conditional /\ Condition(c, op)
        \/ op \in Branching \ Conditional
    BY <2>1, <2>3, OpcodesRun
  <2>8. QED  BY <2>1, <2>4, <2>6, <2>7
<1>2. Sane(ctx) /\ [Next]_ctx => [Falls]_ctx
  BY <1>1
<1>3. QED  BY <1>2, StaysSane, PTL DEF Spec, FallsThrough

-----------------------------------------------------------------------------
(* A write is not seen by the reads of another cell, nor a push by the     *)
(* fetch of an operand its two cells are not cells of.                     *)
LEMMA WriteMisses ==
  ASSUME NEW c, Sane(c), NEW address \in Word, NEW v \in Byte, NEW x \in Word,
         Load(x) # Store(address) \/ Load(x) = NoCell
  PROVE  read_byte(write_byte(c, address, v), x) = read_byte(c, x)
<1>1. c.mem \in [Cell -> Byte] /\ c \in Ctx /\ Load(x) \in Cell \union {NoCell}
  BY MachineAssumption DEF MachineAssumption, Sane, Ctx
<1>2. CASE Load(x) = NoCell
  BY <1>2 DEF read_byte
<1>3. CASE Load(x) # NoCell /\ Store(address) = NoCell
  BY <1>1, <1>3 DEF write_byte, read_byte, Ctx
<1>4. CASE Load(x) # NoCell /\ Store(address) # NoCell
  <2>1. write_byte(c, address, v).mem = [c.mem EXCEPT ![Store(address)] = v]
    BY <1>1, <1>4 DEF write_byte, Ctx
  <2>2. QED  BY <1>1, <1>4, <2>1 DEF read_byte
<1>5. QED  BY <1>2, <1>3, <1>4

LEMMA PushMisses ==
  ASSUME NEW c, Sane(c), NEW w \in Word, NEW x \in Word,
         Load(x) \notin {Store(Down(c.sp, 2)), Store(Up(Down(c.sp, 2), 1))} \/ Load(x) = NoCell
  PROVE  read_byte(push_word(c, w), x) = read_byte(c, x)
<1> DEFINE s == Down(c.sp, 2)
           d == [c EXCEPT !.sp = s]
           e == write_byte(d, s, lo(w))
<1>1. s \in Word /\ Up(s, 1) \in Word /\ lo(w) \in Byte /\ hi(w) \in Byte
  BY SaneFields, Packing, 1 \in 0 .. 2, 2 \in 0 .. 2
<1>2. Sane(d) /\ d.sp = s /\ d.mem = c.mem
  <2>1. Sane(d)
    BY <1>1, SetField DEF Follows
  <2>2. QED  BY <2>1 DEF Sane, Ctx
<1>3. push_word(c, w) = write_byte(e, Up(s, 1), hi(w))
  BY <1>2 DEF push_word, write_word
<1> HIDE DEF s, d
<1>4. Sane(e) /\ read_byte(e, x) = read_byte(d, x)
  BY <1>1, <1>2, WriteByte, WriteMisses DEF Follows, s
<1> HIDE DEF e
<1>5. read_byte(push_word(c, w), x) = read_byte(e, x)
  BY <1>1, <1>3, <1>4, WriteMisses DEF s
<1>6. QED  BY <1>2, <1>4, <1>5 DEF read_byte

(* CALL, and a conditional call whose condition holds.                     *)
LEMMA CallCases ==
  ASSUME NEW c, NEW op \in Byte,
         \/ op \in {205, 221, 237, 253}
         \/ op >= 192 /\ op % 8 = 4 /\ Condition(c, op)
  PROVE  i8080_exec_opcode(c, op) = tick(op_call(c), 17)
<1>1. op \in Int
  BY ByteBounds
<1>2. op % 8 = 4 => op % 16 \in {4, 12}
  BY <1>1, Z3
<1>3. QED
  BY <1>1, <1>2 DEF i8080_exec_opcode, CALL, CallIf

(* Whatever the memory and its decoders, a call that is taken goes to the  *)
(* address behind it as it stood before the push, unless the push went     *)
(* over that address.                                                      *)
THEOREM CallTargets == Spec => CallsReachTarget
<1> DEFINE Reaches ==
      FetchExecute /\ TakesCall /\ OperandCells \intersect PushedCells \subseteq {NoCell} =>
        ctx'.pc = read_word(ctx, Up(ctx.pc, 1))
<1>1. ASSUME Sane(ctx), FetchExecute, TakesCall,
             OperandCells \intersect PushedCells \subseteq {NoCell}
      PROVE  ctx'.pc = read_word(ctx, Up(ctx.pc, 1))
  <2> DEFINE c == skip(ctx, 1)
             x == Up(ctx.pc, 1)
             y == Up(ctx.pc, 2)
             d == push_word(c, Up(c.pc, 2))
  <2>1. /\ ctx' = i8080_exec_opcode(c, opcode) /\ opcode \in Byte /\ Sane(c)
        /\ c.pc = x /\ c.sp = ctx.sp /\ c.mem = ctx.mem /\ c.f = ctx.f
    <3>1. opcode \in Byte /\ Sane(c)
      BY <1>1, Stream, 1 \in 0 .. 2 DEF Follows, opcode
    <3>2. QED  BY <1>1, <3>1 DEF FetchExecute, skip, Sane, Ctx, opcode
  <2>2. x \in Word /\ y \in Word /\ Up(x, 1) = y /\ Up(x, 2) \in Word
    <3>1. \A w \in Word : /\ Up(w, 1) \in Word /\ Up(w, 2) \in Word
                          /\ Up(Up(w, 1), 1) = Up(w, 2)
      BY WordBounds, Z3 DEF Up
    <3>2. QED  BY <1>1, <3>1, SaneFields
  <2> HIDE DEF x, y, c
  <2>3. ctx' = tick(op_call(c), 17)
    <3>1. Condition(c, opcode) = Condition(ctx, opcode)
      BY <2>1 DEF Condition
    <3>2. QED  BY <1>1, <2>1, <3>1, CallCases DEF TakesCall
  <2>4. Sane(d) /\ d.pc = x
    <3>1. Sane(d)
      BY <2>1, <2>2, Push DEF Follows
    <3>2. d.pc = c.pc
      BY <2>1 DEF push_word, write_word, write_byte, Sane, Ctx
    <3>3. QED  BY <2>1, <3>1, <3>2
  <2>5. read_byte(d, x) = read_byte(c, x) /\ read_byte(d, y) = read_byte(c, y)
    <3>1. /\ Load(x) \notin PushedCells \/ Load(x) = NoCell
          /\ Load(y) \notin PushedCells \/ Load(y) = NoCell
      BY <1>1 DEF OperandCells, x, y
    <3>2. QED  BY <2>1, <2>2, <3>1, PushMisses DEF PushedCells
  <2>6. word_at_pc(d) = read_word(ctx, x)
    BY <2>1, <2>2, <2>4, <2>5 DEF word_at_pc, read_word, read_byte
  <2>7. ctx'.pc = word_at_pc(d)
    <3> HIDE DEF d
    <3>1. op_call(c) = [d EXCEPT !.pc = word_at_pc(d)]
      BY DEF op_call, op_jmp, d
    <3>2. QED  BY <2>3, <2>4, <3>1 DEF tick, Sane, Ctx
  <2>8. QED  BY <2>6, <2>7 DEF x
<1>2. Sane(ctx) /\ [Next]_ctx => [Reaches]_ctx
  BY <1>1
<1>3. QED  BY <1>2, StaysSane, PTL DEF Spec, CallsReachTarget

\* The opcode of a pending request is one the machine passed.
Asked == ctx.int_requested => ctx.int_opcode \in IntOpcodes

LEMMA StaysAsked == Spec => []Asked
<1>1. Init => Asked
  BY DEF Init, Asked
<1>2. Sane(ctx) /\ Asked /\ [Next]_ctx => Asked'
  <2> SUFFICES ASSUME Sane(ctx), Asked, [Next]_ctx PROVE Asked'
    OBVIOUS
  <2>1. CASE Acknowledge
    BY <2>1, AcknowledgeStep DEF Control!Acknowledge, Control!Effect, Asked
  <2>2. CASE FetchExecute
    BY <2>2, FetchStep DEF Control!Execute, Control!Effect, Asked
  <2>3. CASE Sleep \/ UNCHANGED ctx
    BY <2>3 DEF Sleep, Asked
  <2>4. ASSUME NEW op \in IntOpcodes, i8080_interrupt(op) PROVE Asked'
    BY <2>4, RequestStep DEF Control!Request, Asked
  <2>5. ASSUME NEW op \in HostOpcodes, ctx' = i8080_exec_opcode(ctx, op) PROVE Asked'
    BY <2>5, InjectStep DEF Control!Inject, Control!Effect, Asked
  <2>6. QED  BY <2>1, <2>2, <2>3, <2>4, <2>5 DEF Next, i8080_step
<1>3. QED  BY <1>1, <1>2, StaysSane, PTL DEF Spec

(* Where the machine itself injects no arithmetic, the flags a program has *)
(* set are there until the program's next instruction that sets flags,     *)
(* however many others, interrupts and restarts come between.              *)
THEOREM FlagsKept ==
  ASSUME (IntOpcodes \union HostOpcodes) \intersect Flagging = {}
  PROVE  Spec => FlagsSurvive
<1> DEFINE Survive == ctx'.f # ctx.f => Fetches /\ opcode \in Flagging
<1>1. ASSUME Sane(ctx), Asked, Acknowledge PROVE Survive
  <2> DEFINE c == [ctx EXCEPT !.int_enable = FALSE, !.int_requested = FALSE,
                              !.halted = FALSE]
  <2>1. Sane(c) /\ c.f = ctx.f /\ c.int_opcode = ctx.int_opcode
    BY <1>1 DEF Sane, Ctx
  <2>2. ctx.int_opcode \in Byte /\ ctx.int_opcode \notin Flagging
    BY <1>1, SaneFields DEF Asked, Acknowledge
  <2>3. ctx' = i8080_exec_opcode(c, ctx.int_opcode)
    BY <1>1, <2>1 DEF Acknowledge
  <2> HIDE DEF c
  <2>4. ctx'.f = ctx.f
    BY <2>1, <2>2, <2>3, OpcodesRun
  <2>5. QED  BY <2>4
<1>2. ASSUME Sane(ctx), FetchExecute PROVE Survive
  <2> DEFINE op == byte_at_pc(ctx)
             c == skip(ctx, 1)
  <2>1. op \in Byte /\ Sane(c) /\ op = opcode /\ c.f = ctx.f
    BY <1>2, Stream, 1 \in 0 .. 2 DEF Follows, opcode, skip, Sane, Ctx
  <2>2. ctx' = i8080_exec_opcode(c, op) /\ Fetches
    BY <1>2 DEF FetchExecute, Fetches
  <2> HIDE DEF c, op
  <2>3. op \notin Flagging => ctx'.f = ctx.f
    BY <2>1, <2>2, OpcodesRun
  <2>4. QED  BY <2>1, <2>2, <2>3
<1>3. ASSUME Sane(ctx), NEW op \in IntOpcodes, i8080_interrupt(op) PROVE Survive
  BY <1>3 DEF i8080_interrupt, Sane, Ctx
<1>4. ASSUME Sane(ctx), NEW op \in HostOpcodes, ctx' = i8080_exec_opcode(ctx, op)
      PROVE  Survive
  <2>1. op \in Byte /\ op \notin Flagging
    BY HostAssumption DEF HostAssumption
  <2>2. ctx'.f = ctx.f
    BY <1>4, <2>1, OpcodesRun
  <2>3. QED  BY <2>2
<1>5. Sane(ctx) /\ Asked /\ [Next]_ctx => [Survive]_ctx
  BY <1>1, <1>2, <1>3, <1>4 DEF Next, i8080_step, Sleep
<1>6. QED  BY <1>5, StaysSane, StaysAsked, PTL DEF Spec, FlagsSurvive

-----------------------------------------------------------------------------
(* The generated cases, 40 .. bf: the registers both generators name are   *)
(* those the opcode's bits select.                                         *)
LEMMA SameNames ==
  ASSUME NEW op \in Byte
  PROVE  /\ bits_to_reg[op % 8] = Src(op) /\ bits_to_reg[(op \div 8) % 8] = Dst(op)
         /\ Src(op) = "m" <=> op % 8 = 6
         /\ Dst(op) = "m" <=> (op \div 8) % 8 = 6
<1>1. op % 8 \in 0 .. 7 /\ (op \div 8) % 8 \in 0 .. 7
  BY ByteBounds, Z3
<1>2. \A k \in 0 .. 7 : bits_to_reg[k] = R8[1 + k] /\ (R8[1 + k] = "m" <=> k = 6)
  BY DEF bits_to_reg, R8
<1>3. QED  BY <1>1, <1>2 DEF Src, Dst

LEMMA MovGenerated ==
  ASSUME NEW c, NEW op \in Byte, op \in 64 .. 127
  PROVE  i8080_exec_opcode(c, op) = makemovcases(c, op)
<1>1. op \in Int
  BY ByteBounds
<1>2. CASE op = 118
  BY <1>2, ControlOpcodes DEF makemovcases, print_hlt, HLT
<1>3. CASE op # 118
  <2>1. i8080_exec_opcode(c, op) = MOV(c, op)
    BY <1>1, <1>3 DEF i8080_exec_opcode
  <2>2. op % 8 = 6 => (op \div 8) % 8 # 6
    BY <1>1, <1>3, Z3
  <2>3. CASE op % 8 = 6
    BY <1>3, <2>1, <2>2, <2>3, SameNames
       DEF makemovcases, print_mov_r8_mem, MOV, set_r8, get_r8
  <2>4. CASE op % 8 # 6 /\ (op \div 8) % 8 = 6
    BY <1>3, <2>1, <2>4, SameNames
       DEF makemovcases, print_mov_mem_r8, MOV, set_r8, get_r8
  <2>5. CASE op % 8 # 6 /\ (op \div 8) % 8 # 6
    BY <1>3, <2>1, <2>5, SameNames
       DEF makemovcases, print_mov_r8_r8, MOV, set_r8, get_r8
  <2>6. QED  BY <2>3, <2>4, <2>5
<1>4. QED  BY <1>2, <1>3

LEMMA ArithGenerated ==
  ASSUME NEW c, NEW op \in Byte, op \in 128 .. 191
  PROVE  i8080_exec_opcode(c, op) = makearithcases(c, op)
<1> DEFINE k == (op \div 8) % 8
<1>1. op \in Int /\ k \in 0 .. 7
  BY ByteBounds, Z3
<1>2. i8080_exec_opcode(c, op) = AluRegister(c, op)
  BY <1>1 DEF i8080_exec_opcode
<1> HIDE DEF k
<1>3. \A val : call_op(c, optable[1 + k], val) = set_af(c, alu(k, c.reg["a"], c.f, val))
  <2>1. k \in {0, 1, 2, 3, 4, 5, 6, 7}
    BY <1>1
  <2>2. QED  BY <2>1 DEF call_op, optable, alu
<1>4. QED
  BY <1>2, <1>3, SameNames
     DEF AluRegister, makearithcases, print_src_mem, print_src_reg, MemoryOr, get_r8, k

(* On every machine, the 128 cases the two generators printed do what the  *)
(* switch of i8080_exec_opcode does by the bits of the opcode.             *)
THEOREM Generated == Spec => GeneratedCases
<1> DEFINE AsPrinted ==
      FetchExecute =>
        /\ opcode \in 64 .. 127 => ctx' = makemovcases(skip(ctx, 1), opcode)
        /\ opcode \in 128 .. 191 => ctx' = makearithcases(skip(ctx, 1), opcode)
<1>1. ASSUME Sane(ctx) PROVE AsPrinted
  <2>1. opcode \in Byte
    BY <1>1, Stream DEF opcode
  <2>2. FetchExecute => ctx' = i8080_exec_opcode(skip(ctx, 1), opcode)
    BY DEF FetchExecute, opcode
  <2>3. QED  BY <2>1, <2>2, MovGenerated, ArithGenerated
<1>2. Sane(ctx) /\ [Next]_ctx => [AsPrinted]_ctx
  BY <1>1
<1>3. QED  BY <1>2, StaysSane, PTL DEF Spec, GeneratedCases
=============================================================================
