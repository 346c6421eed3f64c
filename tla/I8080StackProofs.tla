-------------------------- MODULE I8080StackProofs --------------------------
(***************************************************************************)
(* The stack, for every memory map: where the next push lands in two       *)
(* different cells that read back what is written to them, returns come    *)
(* back and POP undoes PUSH.  The byte order of write_word and read_word,  *)
(* the direction of sp, the pairs and the packing of the flags meet here.  *)
(* On it rest the calls of the operating system of the CP/M runner: they   *)
(* return, and have printed what they were asked to, in every program that *)
(* leaves the bytes main patched alone and gets to them by a CALL.  And    *)
(* the interrupts of any program: that nothing read of the stack below its *)
(* pointer reaches the rest of the state is proved of every instruction,   *)
(* then an invariant follows the handlers nested on the stack.             *)
(***************************************************************************)
EXTENDS CpmEmulator, Interrupted, I8080Proofs

(* The two bytes of a word make the word, and the word of two bytes gives  *)
(* the bytes back.                                                         *)
LEMMA PackUnpack ==
  /\ \A w \in Word : pair(hi(w), lo(w)) = w
  /\ \A x \in Byte, y \in Byte : hi(pair(x, y)) = x /\ lo(pair(x, y)) = y
<1>1. ASSUME NEW w \in Word PROVE pair(hi(w), lo(w)) = w
  <2>1. w \in Int /\ 0 <= w /\ w < 65536
    BY WordBounds
  <2>2. (w \div 256) % 256 = w \div 256
    BY <2>1, Z3
  <2>3. 256 * (w \div 256) + (w % 256) = w
    BY <2>1, Z3
  <2>4. QED  BY <2>2, <2>3 DEF pair, hi, lo
<1>2. ASSUME NEW x \in Byte, NEW y \in Byte
      PROVE  hi(pair(x, y)) = x /\ lo(pair(x, y)) = y
  BY ByteBounds, Z3 DEF pair, hi, lo
<1>3. QED  BY <1>1, <1>2

(* Down and Up by two take the stack pointer there and back.               *)
LEMMA DownUp ==
  ASSUME NEW w \in Word
  PROVE  Up(Down(w, 2), 2) = w
  BY WordBounds, Z3 DEF Up, Down

(* What a push leaves: the word on top, sp two lower, the rest alone.      *)
LEMMA Pushed ==
  ASSUME NEW c, Sane(c), NEW w \in Word, PushInRAM(c)
  PROVE  LET d == push_word(c, w)
         IN  /\ d.sp = Down(c.sp, 2) /\ top(d) = w
             /\ d.reg = c.reg /\ d.f = c.f /\ d.pc = c.pc
<1> DEFINE s == Down(c.sp, 2)
           t == Up(s, 1)
           e == [c EXCEPT !.sp = s]
           m == [[c.mem EXCEPT ![Store(s)] = lo(w)] EXCEPT ![Store(t)] = hi(w)]
           d == push_word(c, w)
<1>1. s \in Word /\ t \in Word
  BY SaneFields, Packing, 1 \in 0 .. 2, 2 \in 0 .. 2
<1>2. /\ Store(s) = Load(s) /\ Store(t) = Load(t) /\ Load(s) # Load(t)
      /\ Load(s) # NoCell /\ Load(t) # NoCell
  BY DEF PushInRAM, RAM
<1>3. Load(s) \in Cell /\ Load(t) \in Cell
  BY <1>1, <1>2, MachineAssumption DEF MachineAssumption
<1>4. c \in Ctx /\ c.mem \in [Cell -> Byte]
  BY DEF Sane, Ctx
<1> HIDE DEF s, t
<1>5. /\ e.sp = s /\ e.mem = c.mem /\ e.reg = c.reg /\ e.f = c.f /\ e.pc = c.pc
      /\ e \in [DOMAIN c -> {e[x] : x \in DOMAIN c}] /\ "mem" \in DOMAIN e
  BY <1>4 DEF Ctx
<1>6. d = write_word(e, e.sp, w)
  BY DEF push_word, s
<1>7. d = [[e EXCEPT !.mem = [@ EXCEPT ![Store(s)] = lo(w)]]
             EXCEPT !.mem = [@ EXCEPT ![Store(t)] = hi(w)]]
  BY <1>2, <1>5, <1>6 DEF write_word, write_byte, t
<1>8. d.mem = m /\ d.sp = s /\ d.reg = c.reg /\ d.f = c.f /\ d.pc = c.pc
  <2> HIDE DEF d, e
  <2>1. QED  BY <1>5, <1>7
<1>9. m[Load(s)] = lo(w) /\ m[Load(t)] = hi(w)
  BY <1>2, <1>3, <1>4
<1>10. top(d) = pair(hi(w), lo(w))
  <2> HIDE DEF d, m
  <2>1. QED  BY <1>2, <1>8, <1>9 DEF top, read_word, read_byte, t
<1>11. QED
  <2> HIDE DEF d
  <2>1. d.sp = Down(c.sp, 2) /\ top(d) = w
    BY <1>8, <1>10, PackUnpack DEF s
  <2>2. QED  BY <2>1, <1>8 DEF d

(* A return from it.                                                       *)
LEMMA Returned ==
  ASSUME NEW c, Sane(c), NEW w \in Word, PushInRAM(c), NEW d,
         d \in Ctx, d.sp = Down(c.sp, 2), top(d) = w
  PROVE  op_ret(d).pc = w /\ op_ret(d).sp = c.sp
<1>1. Up(d.sp, 2) = c.sp
  BY SaneFields, DownUp
<1>2. QED
  BY <1>1 DEF op_ret, drop, Ctx

(* A jump leaves the stack alone.                                          *)
LEMMA JumpKeepsStack ==
  ASSUME NEW d, d \in Ctx, NEW w \in Word
  PROVE  LET e == [d EXCEPT !.pc = w]
         IN  e \in Ctx /\ e.sp = d.sp /\ top(e) = top(d)
<1> DEFINE e == [d EXCEPT !.pc = w]
<1>1. e \in Ctx /\ e.sp = d.sp /\ e.mem = d.mem
  BY DEF Ctx
<1> HIDE DEF e
<1>2. top(e) = top(d)
  BY <1>1 DEF top, read_word, read_byte
<1>3. QED  BY <1>1, <1>2 DEF e

LEMMA ComeBack ==
  ASSUME Sane(ctx), PushInRAM(ctx)
  PROVE  ReturnsComeBack
<1>1. ctx.pc \in Word /\ ctx.sp \in Word
  BY SaneFields
<1>2. ASSUME NEW n \in 0 .. 7
      PROVE  op_ret(op_rst(ctx, 8 * n)).pc = ctx.pc /\ op_ret(op_rst(ctx, 8 * n)).sp = ctx.sp
  <2> DEFINE d == push_word(ctx, ctx.pc)
             e == op_rst(ctx, 8 * n)
  <2>1. d \in Ctx /\ d.sp = Down(ctx.sp, 2) /\ top(d) = ctx.pc
    BY <1>1, Push, Pushed DEF Follows, Sane
  <2>2. 8 * n \in Word
    BY WordBounds
  <2>3. e = [d EXCEPT !.pc = 8 * n]
    BY DEF op_rst
  <2> HIDE DEF d, e
  <2>4. e \in Ctx /\ e.sp = Down(ctx.sp, 2) /\ top(e) = ctx.pc
    BY <2>1, <2>2, <2>3, JumpKeepsStack
  <2>5. op_ret(e).pc = ctx.pc /\ op_ret(e).sp = ctx.sp
    BY <1>1, <2>4, Returned
  <2>6. QED  BY <2>5 DEF e
<1>3. op_ret(op_call(ctx)).pc = skip(ctx, 2).pc /\ op_ret(op_call(ctx)).sp = ctx.sp
  <2> DEFINE w == Up(ctx.pc, 2)
             d == push_word(ctx, w)
             e == op_call(ctx)
  <2>1. w \in Word
    BY <1>1, Packing, 2 \in 0 .. 2
  <2>2. Follows(d, ctx)
    BY <2>1, Push
  <2>3. d \in Ctx /\ d.sp = Down(ctx.sp, 2) /\ top(d) = w /\ word_at_pc(d) \in Word
    <3>1. d.sp = Down(ctx.sp, 2) /\ top(d) = w
      BY <2>1, Pushed
    <3> HIDE DEF d
    <3>2. QED  BY <2>2, <3>1, Stream DEF Follows, Sane
  <2>4. e = [d EXCEPT !.pc = word_at_pc(d)]
    BY DEF op_call, op_jmp
  <2>5. skip(ctx, 2).pc = w
    BY DEF skip, Sane, Ctx
  <2> HIDE DEF d, e, w
  <2>6. e \in Ctx /\ e.sp = Down(ctx.sp, 2) /\ top(e) = w
    BY <2>3, <2>4, JumpKeepsStack
  <2>7. op_ret(e).pc = w /\ op_ret(e).sp = ctx.sp
    BY <2>1, <2>6, Returned
  <2>8. QED  BY <2>5, <2>7 DEF e
<1>4. QED  BY <1>2, <1>3 DEF ReturnsComeBack

(* Over any program, any memory map and wherever sp stands in RAM, RET     *)
(* comes back to where a restart, an interrupt or a call left, with sp as  *)
(* it was: the bytes of the return address are pushed and popped in the    *)
(* same order, at the same addresses, those that wrap at 0 included.       *)
THEOREM Returns == Spec => []ReturnsComeBack
<1>1. Sane(ctx) => ReturnsComeBack
  BY ComeBack DEF ReturnsComeBack
<1>2. QED  BY <1>1, StaysSane, PTL

-----------------------------------------------------------------------------
(* A set of bits packed into a byte and unpacked again.                    *)
LEMMA BitsOfByte ==
  ASSUME NEW S \in SUBSET (0 .. 7)
  PROVE  Bits(ByteOf(S)) = S
<1> DEFINE w(i) == IF i \in S THEN Weight[i + 1] ELSE 0
<1>1. /\ w(0) \in {0, 1} /\ w(1) \in {0, 2} /\ w(2) \in {0, 4} /\ w(3) \in {0, 8}
      /\ w(4) \in {0, 16} /\ w(5) \in {0, 32} /\ w(6) \in {0, 64} /\ w(7) \in {0, 128}
  BY DEF Weight
<1>2. \A i \in 0 .. 7 : w(i) = Weight[i + 1] <=> i \in S
  BY DEF Weight
<1>3. ByteOf(S) = w(0) + w(1) + w(2) + w(3) + w(4) + w(5) + w(6) + w(7)
  BY DEF ByteOf
<1> HIDE DEF w
<1>4. \A i \in 0 .. 7 : BitOf(ByteOf(S), i) = 1 <=> w(i) = Weight[i + 1]
  BY <1>1, <1>3, Z3 DEF BitOf, Weight
<1>5. QED  BY <1>2, <1>4 DEF Bits, Bit

(* What set_pair and set_psw leave.                                        *)
LEMMA PairWritten ==
  ASSUME NEW c, Sane(c), NEW p \in {BC, DE, HL}, NEW w \in Word
  PROVE  LET d == set_pair(c, p, w)
         IN  /\ d.reg = [[c.reg EXCEPT ![p[1]] = hi(w)] EXCEPT ![p[2]] = lo(w)]
             /\ d.f = c.f /\ d.sp = c.sp
<1>1. c \in Ctx
  BY DEF Sane
<1>2. QED
  BY <1>1 DEF set_pair, set_reg, Ctx

LEMMA PairKeeps ==
  ASSUME NEW c, Sane(c), NEW p \in {BC, DE, HL}, NEW w \in Word
  PROVE  set_pair(c, p, w).f = c.f /\ set_pair(c, p, w).sp = c.sp
<1>1. c \in Ctx
  BY DEF Sane
<1>2. QED
  BY <1>1 DEF set_pair, set_reg, Ctx

LEMMA PairRestored ==
  ASSUME NEW c, Sane(c), NEW d, Sane(d), d.reg = c.reg, NEW p \in {BC, DE, HL}
  PROVE  set_pair(d, p, get_pair(c, p)).reg = c.reg
<1> DEFINE w == get_pair(c, p)
<1>1. c.reg \in [RegName -> Byte] /\ p[1] \in RegName /\ p[2] \in RegName /\ p[1] # p[2]
  BY SaneFields DEF BC, DE, HL, RegName
<1>2. w \in Word
  BY RegPairs
<1>3. hi(w) = c.reg[p[1]] /\ lo(w) = c.reg[p[2]]
  BY <1>1, PackUnpack DEF get_pair
<1> HIDE DEF w
<1>4. set_pair(d, p, w).reg = [[d.reg EXCEPT ![p[1]] = hi(w)] EXCEPT ![p[2]] = lo(w)]
  BY <1>2, PairWritten
<1>5. [[c.reg EXCEPT ![p[1]] = hi(w)] EXCEPT ![p[2]] = lo(w)] = c.reg
  BY <1>1, <1>3
<1>6. QED  BY <1>4, <1>5 DEF w

LEMMA PswRestored ==
  ASSUME NEW c, Sane(c), NEW d, Sane(d), d.reg = c.reg
  PROVE  LET e == FixFlags(set_psw(d, get_psw(c)))
         IN  e.reg = c.reg /\ e.f = c.f /\ e.sp = d.sp
<1> DEFINE w == get_psw(c)
           e == FixFlags(set_psw(d, w))
<1>1. /\ c.reg \in [RegName -> Byte] /\ c.reg["a"] \in Byte
      /\ c.f \in SUBSET (0 .. 7) /\ GoodFlags(c.f)
  BY DEF Sane, Ctx, RegName
<1>2. hi(w) = c.reg["a"] /\ lo(w) = ByteOf(c.f)
  BY <1>1, ByteOfIsByte, PackUnpack DEF get_psw
<1>3. Bits(lo(w)) = c.f
  BY <1>1, <1>2, BitsOfByte
<1> HIDE DEF w
<1>4. d \in Ctx
  BY DEF Sane
<1>5. /\ e.reg = [d.reg EXCEPT !["a"] = hi(w)] /\ e.sp = d.sp
      /\ e.f = (Bits(lo(w)) \union FixedOnes) \ FixedZeros
  BY <1>4 DEF FixFlags, set_psw, set_af, set_reg, Ctx
<1>6. (c.f \union FixedOnes) \ FixedZeros = c.f
  BY <1>1 DEF GoodFlags
<1>7. [c.reg EXCEPT !["a"] = hi(w)] = c.reg
  BY <1>1, <1>2
<1>8. QED
  <2> HIDE DEF e
  <2>1. e.reg = c.reg /\ e.f = c.f /\ e.sp = d.sp
    BY <1>3, <1>5, <1>6, <1>7
  <2>2. QED  BY <2>1 DEF e, w

(* The instructions: POP after PUSH, from the context PUSH leaves.         *)
LEMMA TickedFields ==
  ASSUME NEW b, b \in Ctx, NEW n \in 4 .. 18
  PROVE  LET d == tick(b, n)
         IN  d.reg = b.reg /\ d.f = b.f /\ d.sp = b.sp /\ top(d) = top(b)
<1> DEFINE d == tick(b, n)
<1>1. d.reg = b.reg /\ d.f = b.f /\ d.sp = b.sp /\ d.mem = b.mem
  BY DEF tick, Ctx
<1> HIDE DEF d
<1>2. top(d) = top(b)
  BY <1>1 DEF top, read_word, read_byte
<1>3. QED  BY <1>1, <1>2 DEF d

LEMMA Dropped ==
  ASSUME NEW d, d \in Ctx
  PROVE  drop(d).reg = d.reg /\ drop(d).f = d.f /\ drop(d).sp = Up(d.sp, 2)
  BY DEF drop, Ctx

LEMMA Restored ==
  ASSUME Sane(ctx), PushInRAM(ctx), NEW i \in 0 .. 3
  PROVE  LET d == POP(PUSH(ctx, \hc5 + 16 * i), \hc1 + 16 * i)
         IN  d.reg = ctx.reg /\ d.f = ctx.f /\ d.sp = ctx.sp
<1> DEFINE u == \hc5 + 16 * i
           o == \hc1 + 16 * i
           w == IF i = 3 THEN get_psw(ctx) ELSE get_pair(ctx, Pair(u))
           b == push_word(ctx, w)
           e == PUSH(ctx, u)
           d == drop(e)
           g == IF i = 3 THEN FixFlags(set_psw(d, w)) ELSE set_pair(d, Pair(u), w)
<1>1. Row(u) = i /\ Row(o) = i
  BY Z3 DEF Row
<1>2. Pair(u) = Pair(o) /\ Pair(u) \in {BC, DE, HL} /\ u \in Byte
  <2>1. u \in Byte
    BY ByteBounds
  <2>2. QED  BY <1>1, <2>1, Select DEF Pair
<1>3. w \in Word /\ ctx.sp \in Word
  BY <1>2, Psw, RegPairs, SaneFields
<1> HIDE DEF u, o
<1>4. e = tick(b, 11)
  BY <1>1, NothingToFix DEF PUSH
<1>5. Follows(b, ctx) /\ Sane(b) /\ b \in Ctx
  BY <1>3, Push DEF Follows, Sane
<1>6. b.reg = ctx.reg /\ b.f = ctx.f /\ b.sp = Down(ctx.sp, 2) /\ top(b) = w
  BY <1>3, Pushed
<1> HIDE DEF w, b
<1>7. e.reg = ctx.reg /\ e.f = ctx.f /\ e.sp = Down(ctx.sp, 2) /\ top(e) = w
  BY <1>4, <1>5, <1>6, TickedFields, 11 \in 4 .. 18
<1>8. Sane(e) /\ e \in Ctx
  BY <1>4, <1>5, Tick, 11 \in 4 .. 18 DEF Sane
<1> HIDE DEF e
<1>9. Sane(d) /\ d.reg = ctx.reg /\ d.f = ctx.f /\ d.sp = ctx.sp
  BY <1>3, <1>7, <1>8, Stream, Dropped, DownUp DEF Follows
<1>10. POP(e, o) = tick(g, 10)
  BY <1>1, <1>2, <1>7 DEF POP
<1> HIDE DEF d
<1>11. Sane(g) /\ g.reg = ctx.reg /\ g.f = ctx.f /\ g.sp = ctx.sp
  <2>1. CASE i = 3
    <3>1. w = get_psw(ctx)
      BY <2>1 DEF w
    <3>2. Follows(g, d)
      BY <1>3, <1>9, <2>1, PopPsw
    <3>3. g = FixFlags(set_psw(d, get_psw(ctx)))
      BY <2>1, <3>1
    <3>4. QED  BY <1>9, <3>2, <3>3, PswRestored DEF Follows
  <2>2. CASE i # 3
    <3>1. w = get_pair(ctx, Pair(u))
      BY <2>2 DEF w
    <3>2. g = set_pair(d, Pair(u), get_pair(ctx, Pair(u)))
      BY <2>2, <3>1
    <3>3. Follows(g, d)
      BY <1>2, <1>3, <1>9, <2>2, RegPairs
    <3>4. g.reg = ctx.reg
      BY <1>2, <1>9, <3>2, PairRestored
    <3>5. g.f = ctx.f /\ g.sp = ctx.sp
      <4>1. g = set_pair(d, Pair(u), w)
        BY <2>2
      <4>2. set_pair(d, Pair(u), w).f = d.f /\ set_pair(d, Pair(u), w).sp = d.sp
        <5>1. Sane(d) /\ Pair(u) \in {BC, DE, HL} /\ w \in Word
          BY <1>2, <1>3, <1>9
        <5>2. QED  BY <5>1, PairKeeps
      <4> HIDE DEF g
      <4>3. QED  BY <1>9, <4>1, <4>2
    <3>6. QED  BY <3>3, <3>4, <3>5 DEF Follows
  <2>3. QED  BY <2>1, <2>2
<1> HIDE DEF g
<1>12. tick(g, 10).reg = ctx.reg /\ tick(g, 10).f = ctx.f /\ tick(g, 10).sp = ctx.sp
  BY <1>11, TickedFields, 10 \in 4 .. 18 DEF Sane
<1>13. QED
  BY <1>10, <1>12 DEF e, u, o

(* PUSH and POP of a pair, the accumulator and flags included, are the     *)
(* identity on the processor but for its cycles.                           *)
THEOREM PushPop == Spec => []PushPopRestores
<1>1. Sane(ctx) => PushPopRestores
  BY Restored DEF PushPopRestores
<1>2. QED  BY <1>1, StaysSane, PTL

-----------------------------------------------------------------------------
(* The CP/M runner.  What the instructions of a call of the operating      *)
(* system do to the processor: the CALL, the patched OUT, the RET.         *)
LEMMA PushedFields ==
  ASSUME NEW c, Sane(c), NEW w \in Word
  PROVE  LET d == push_word(c, w)
         IN  d.sp = Down(c.sp, 2) /\ d.reg = c.reg /\ d.f = c.f /\ d.pc = c.pc
BY DEF push_word, write_word, write_byte, Sane, Ctx

\* c, between the CALL of k and the return from it.
InCall(c, k) ==
  /\ c.reg = k.reg /\ c.f = k.f /\ c.sp = Down(k.sp, 2)
  /\ PushInRAM(k) => top(c) = Up(k.pc, 3)

LEMMA CallStep ==
  ASSUME NEW c, Sane(c)
  PROVE  InCall(CALL(skip(c, 1)), c)
<1> DEFINE b == skip(c, 1)
           w == Up(b.pc, 2)
           d == push_word(b, w)
           to == word_at_pc(d)
           e == [d EXCEPT !.pc = to]
<1>1. Sane(b) /\ b.reg = c.reg /\ b.f = c.f /\ b.sp = c.sp /\ b.pc = Up(c.pc, 1)
  BY Stream, 1 \in 0 .. 2 DEF Follows, skip, Sane, Ctx
<1>2. w \in Word /\ w = Up(c.pc, 3)
  <2>1. \A x \in Word : Up(Up(x, 1), 2) = Up(x, 3) /\ Up(x, 3) \in Word
    BY WordBounds, Z3 DEF Up
  <2>2. QED  BY <1>1, <2>1, SaneFields
<1>3. PushInRAM(b) <=> PushInRAM(c)
  BY <1>1 DEF PushInRAM
<1> HIDE DEF b, w
<1>4. /\ Sane(d) /\ d.sp = Down(c.sp, 2) /\ d.reg = c.reg /\ d.f = c.f
      /\ PushInRAM(c) => top(d) = Up(c.pc, 3)
  <2>1. Sane(d)
    BY <1>1, <1>2, Push DEF Follows
  <2>2. d.sp = Down(c.sp, 2) /\ d.reg = c.reg /\ d.f = c.f
    BY <1>1, <1>2, PushedFields
  <2>3. PushInRAM(c) => top(d) = w
    BY <1>1, <1>2, <1>3, Pushed
  <2>4. QED  BY <1>2, <2>1, <2>2, <2>3
<1>5. CALL(b) = tick(e, 17)
  BY DEF CALL, op_call, op_jmp, w
<1> HIDE DEF d
<1>6. to \in Word /\ d \in Ctx
  BY <1>4, Stream DEF Sane
<1> HIDE DEF to
<1>7. e \in Ctx /\ e.sp = d.sp /\ e.reg = d.reg /\ e.f = d.f /\ top(e) = top(d)
  BY <1>6, JumpKeepsStack DEF Ctx
<1> HIDE DEF e
<1>8. LET t == tick(e, 17)
      IN  t.reg = e.reg /\ t.f = e.f /\ t.sp = e.sp /\ top(t) = top(e)
  BY <1>7, TickedFields, 17 \in 4 .. 18
<1>9. QED  BY <1>4, <1>5, <1>7, <1>8 DEF InCall, b

LEMMA OutStep ==
  ASSUME NEW c, Sane(c)
  PROVE  LET d == OUT(skip(c, 1))
         IN  /\ d.reg = c.reg /\ d.f = c.f /\ d.sp = c.sp /\ d.mem = c.mem
             /\ d.pc = Up(c.pc, 2)
<1>1. \A x \in Word : Up(Up(x, 1), 1) = Up(x, 2)
  BY WordBounds, Z3 DEF Up
<1>2. c.pc \in Word
  BY SaneFields
<1>3. QED
  BY <1>1, <1>2 DEF OUT, tick, skip, Sane, Ctx

LEMMA RetStep ==
  ASSUME NEW c, Sane(c)
  PROVE  LET d == RET(skip(c, 1))
         IN  /\ d.reg = c.reg /\ d.f = c.f /\ d.sp = Up(c.sp, 2)
             /\ d.pc = top(c)
<1> DEFINE b == skip(c, 1)
<1>1. b \in Ctx /\ b.reg = c.reg /\ b.f = c.f /\ b.sp = c.sp /\ b.mem = c.mem
  BY Stream, 1 \in 0 .. 2 DEF Follows, skip, Sane, Ctx
<1> HIDE DEF b
<1>2. top(b) = top(c)
  BY <1>1 DEF top, read_word, read_byte
<1>3. RET(b) = tick([drop(b) EXCEPT !.pc = top(b)], 10)
  BY DEF RET, op_ret
<1>4. QED
  BY <1>1, <1>2, <1>3 DEF drop, tick, Ctx, b

(* The runner takes only steps of the processor, and is never interrupted. *)
LEMMA CpmIsMachine == CpmSpec => Spec
<1>1. CpmInit => Init
  BY DEF CpmInit
<1>2. [CpmNext]_vars => [Next]_ctx
  BY DEF CpmNext, Step, PrintRound, Finish, Next, vars
<1>3. QED  BY <1>1, <1>2, PTL DEF CpmSpec, Spec

Undisturbed == Sane(ctx) /\ ~ctx.int_requested

LEMMA StaysUndisturbed ==
  ASSUME CpmHost
  PROVE  CpmSpec => []Undisturbed
<1>1. Sane(ctx) /\ Asked => Undisturbed
  BY DEF CpmHost, Asked, Undisturbed, Sane, Ctx
<1>2. QED  BY <1>1, CpmIsMachine, StaysSane, StaysAsked, PTL

LEMMA StepFetches ==
  ASSUME Undisturbed, Step
  PROVE  /\ ctx' = i8080_exec_opcode(skip(ctx, 1), byte_at_pc(ctx))
         /\ byte_at_pc(ctx) = \hcd => InCall(ctx', ctx)
         /\ byte_at_pc(ctx) = \hd3 =>
              /\ ctx'.reg = ctx.reg /\ ctx'.f = ctx.f /\ ctx'.sp = ctx.sp
              /\ ctx'.mem = ctx.mem /\ ctx'.pc = Up(ctx.pc, 2)
         /\ byte_at_pc(ctx) = \hc9 =>
              /\ ctx'.reg = ctx.reg /\ ctx'.f = ctx.f /\ ctx'.sp = Up(ctx.sp, 2)
              /\ ctx'.pc = top(ctx)
<1>1. ctx' = i8080_exec_opcode(skip(ctx, 1), byte_at_pc(ctx))
  BY DEF Step, i8080_step, Acknowledge, FetchExecute, Sleep, Undisturbed
<1>2. \A c : /\ i8080_exec_opcode(c, \hcd) = CALL(c)
             /\ i8080_exec_opcode(c, \hd3) = OUT(c)
             /\ i8080_exec_opcode(c, \hc9) = RET(c)
  BY DEF i8080_exec_opcode
<1>3. QED
  BY <1>1, <1>2, CallStep, OutStep, RetStep DEF Undisturbed

\* The bytes patched over the entry of the operating system.
Entry(c) == read_byte(c, 5) = \hd3 /\ read_byte(c, 6) = 1 /\ read_byte(c, 7) = \hc9

\* Where the processor is in the patched bytes it is in a call, the last one.
CallInv ==
  /\ Entry(ctx) /\ ctx.pc # 6 /\ Sane(caller)
  /\ ctx.pc \in {5, 7} => InCall(ctx, caller)

LEMMA CallStarts ==
  ASSUME CpmHost, CpmInit
  PROVE  CallInv
<1>1. PICK m \in BootMem, at \in BootPC :
        ctx = [reg |-> [r \in RegName |-> 0], f |-> FixedOnes, sp |-> 0, pc |-> at,
               halted |-> FALSE, int_enable |-> FALSE, int_requested |-> FALSE,
               int_opcode |-> 0, cycles |-> 0, mem |-> m, dev |-> BootDev]
  BY DEF CpmInit, Init
<1>2. ctx.pc = 256 /\ ctx.mem = m
  BY <1>1 DEF CpmHost, offset
<1>3. PICK file \in Files : m = Patched(Loaded(file))
  BY <1>1 DEF CpmHost, memories
<1>4. m \in [Cell -> Byte]
  BY <1>1, HostAssumption DEF HostAssumption
<1>5. DOMAIN m = Modelled /\ m[5] = \hd3 /\ m[6] = 1 /\ m[7] = \hc9
  BY <1>3, 5 \in Modelled, 6 \in Modelled, 7 \in Modelled DEF Patched, CpmHost
<1>6. Modelled = Cell
  BY <1>4, <1>5
<1>7. \A x \in 5 .. 7 : Load(x) = x /\ x # NoCell
  <2>1. \A x \in 5 .. 7 : x \in Word /\ x \in Cell /\ memory_size > x
    BY <1>6, WordBounds DEF CpmHost, memory_size
  <2>2. QED
    BY <1>6, <2>1, MachineAssumption DEF MachineAssumption, CpmHost, memory_cell
<1>8. Entry(ctx)
  BY <1>2, <1>5, <1>7 DEF Entry, read_byte
<1>9. Sane(caller)
  BY Starts DEF CpmInit
<1>10. QED  BY <1>2, <1>8, <1>9 DEF CallInv

\* The step Disciplined allows.
Allowed ==
  /\ \A x \in 5 .. 7 : read_byte(ctx', x) = read_byte(ctx, x)
  /\ ctx'.pc \in 5 .. 7 =>
       (ctx.pc = 5 /\ ctx'.pc = 7) \/ (Calls /\ ctx'.pc = 5)

(* At 5 the OUT is next, at 7 the RET; neither is a call.                  *)
LEMMA AtEntry ==
  ASSUME CallInv
  PROVE  /\ ctx.pc = 5 => byte_at_pc(ctx) = \hd3 /\ Outs /\ ~Calls
         /\ ctx.pc = 7 => byte_at_pc(ctx) = \hc9 /\ ~Outs /\ ~Calls
<1>1. Up(5, 1) = 6
  BY DEF Up
<1>2. QED
  BY <1>1 DEF CallInv, Entry, byte_at_pc, Outs, Calls

(* The return moves the stack pointer: no step of it is a stutter.         *)
LEMMA ReturnMoves ==
  ASSUME Undisturbed, CallInv, Step, ctx.pc = 7
  PROVE  ctx'.sp # ctx.sp
<1>1. ctx'.sp = Up(ctx.sp, 2) /\ ctx.sp \in Word
  BY AtEntry, StepFetches, SaneFields DEF Undisturbed
<1>2. \A w \in Word : Up(w, 2) # w
  BY WordBounds, Z3 DEF Up
<1>3. QED  BY <1>1, <1>2

LEMMA CallKept ==
  ASSUME Undisturbed, CallInv, Step, [Allowed]_ctx
  PROVE  CallInv'
<1>1. caller' = IF Calls THEN ctx ELSE caller
  BY DEF Step
<1>2. Entry(ctx)'
  BY DEF CallInv, Entry, Allowed
<1>3. Sane(caller)'
  BY <1>1 DEF CallInv, Undisturbed
<1>4. CASE ctx.pc = 5
  <2>1. ctx'.pc = 7
    <3>1. Up(5, 2) = 7
      BY DEF Up
    <3>2. QED  BY <1>4, <3>1, AtEntry, StepFetches
  <2>2. /\ ctx'.reg = ctx.reg /\ ctx'.f = ctx.f /\ ctx'.sp = ctx.sp
        /\ ctx'.mem = ctx.mem /\ caller' = caller
    BY <1>1, <1>4, AtEntry, StepFetches
  <2>3. top(ctx') = top(ctx)
    BY <2>2 DEF top, read_word, read_byte
  <2>4. QED
    BY <1>2, <1>3, <1>4, <2>1, <2>2, <2>3 DEF CallInv, InCall
<1>5. CASE ctx.pc # 5 /\ ctx' # ctx
  <2>1. ctx'.pc \in 5 .. 7 => Calls /\ ctx'.pc = 5
    BY <1>5 DEF Allowed
  <2>2. Calls => InCall(ctx', ctx) /\ caller' = ctx
    BY <1>1, StepFetches DEF Calls
  <2>3. QED
    BY <1>2, <1>3, <2>1, <2>2, 5 \in 5 .. 7, 6 \in 5 .. 7, 7 \in 5 .. 7 DEF CallInv
<1>6. CASE ctx.pc # 5 /\ ctx' = ctx
  <2>1. ctx.pc # 7
    BY <1>6, ReturnMoves
  <2>2. QED  BY <1>2, <1>3, <1>6, <2>1 DEF CallInv
<1>7. QED  BY <1>4, <1>5, <1>6

LEMMA CallStays ==
  ASSUME CpmHost
  PROVE  CpmSpec /\ Disciplined => []CallInv
<1>1. CpmInit => CallInv
  BY CallStarts
<1>2. Undisturbed /\ CallInv /\ [CpmNext]_vars /\ [Allowed]_ctx => CallInv'
  <2>1. ASSUME CallInv, UNCHANGED <<ctx, caller>> PROVE CallInv'
    BY <2>1 DEF CallInv, Entry
  <2>2. QED
    BY <2>1, CallKept DEF CpmNext, PrintRound, Finish, vars, hostVars
<1>3. QED
  BY <1>1, <1>2, StaysUndisturbed, PTL DEF CpmSpec, Disciplined, Allowed

(* A program that leaves the patched bytes alone and reaches them by CALLs *)
(* gets every CALL 5 back: the return address lies under whatever was      *)
(* printed meanwhile, and OUT and RET touch no register and no flag.       *)
THEOREM CallsComeBack ==
  ASSUME CpmHost
  PROVE  CpmSpec /\ Disciplined => CallsReturn
<1> DEFINE Back ==
      ctx.pc = 7 /\ ctx' # ctx /\ PushInRAM(caller) =>
        /\ ctx'.pc = Up(caller.pc, 3) /\ ctx'.sp = caller.sp
        /\ ctx'.reg = caller.reg /\ ctx'.f = caller.f
<1>1. ASSUME Undisturbed, CallInv, Step PROVE Back
  <2> SUFFICES ASSUME ctx.pc = 7, PushInRAM(caller)
               PROVE  /\ ctx'.pc = Up(caller.pc, 3) /\ ctx'.sp = caller.sp
                      /\ ctx'.reg = caller.reg /\ ctx'.f = caller.f
    OBVIOUS
  <2>1. InCall(ctx, caller) /\ caller.sp \in Word
    BY <1>1, SaneFields DEF CallInv
  <2>2. /\ ctx'.reg = ctx.reg /\ ctx'.f = ctx.f /\ ctx'.sp = Up(ctx.sp, 2)
        /\ ctx'.pc = top(ctx)
    BY <1>1, AtEntry, StepFetches
  <2>3. QED  BY <2>1, <2>2, DownUp DEF InCall
<1>2. Undisturbed /\ CallInv /\ [CpmNext]_vars => [Back]_vars
  BY <1>1 DEF CpmNext, PrintRound, Finish, vars
<1>3. QED
  BY <1>2, CallStays, StaysUndisturbed, PTL DEF CpmSpec, CallsReturn

-----------------------------------------------------------------------------
\* The n-th byte from DE on.
Ahead(c, n) == read_byte(c, Up(get_pair(c, DE), n))

\* The printing loop has printed the n bytes before ch, de is past ch.
PrintedTo(n) ==
  /\ \A k \in 0 .. n - 1 : Ahead(ctx, k) # Dollar
  /\ out \in Seq(Byte) /\ Len(out) = n
  /\ \A k \in 1 .. n : out[k] = Ahead(ctx, k - 1)
  /\ ch = Ahead(ctx, n) /\ de = Up(get_pair(ctx, DE), n + 1)

\* It has gone round the whole memory, and found nothing to stop at.
GoneRound == (\A x \in Word : read_byte(ctx, x) # Dollar) /\ ch # Dollar /\ de \in Word

\* In a call of the operating system that is about to return.
PrintInv ==
  ctx.pc = 7 =>
    /\ phase = "print" =>
         ctx.reg["c"] = 9 /\ ((\E n \in Word : PrintedTo(n)) \/ GoneRound)
    /\ PrintsMessage

(* Every address is ahead of every other, the end of memory between them.  *)
LEMMA AllAhead ==
  ASSUME NEW w \in Word, NEW x \in Word
  PROVE  \E n \in Word : Up(w, n) = x
<1> DEFINE n == (x - w) % 65536
<1>1. n \in Word /\ Up(w, n) = x
  BY WordBounds, Z3 DEF Up
<1>2. QED  BY <1>1

(* One character more.                                                     *)
LEMMA PrintOne ==
  ASSUME NEW s \in Seq(Byte), NEW c \in Byte, Kept \in Nat, Len(s) < Kept
  PROVE  /\ printed(s, c) \in Seq(Byte) /\ Len(printed(s, c)) = Len(s) + 1
         /\ printed(s, c)[Len(s) + 1] = c
         /\ \A k \in 1 .. Len(s) : printed(s, c)[k] = s[k]
<1>1. printed(s, c) = Append(s, c)
  BY DEF printed
<1>2. QED  BY <1>1

(* The message, when the n bytes before the first '$' are known.           *)
LEMMA MessageIs ==
  ASSUME NEW n \in Word, PrintedTo(n), ch = Dollar
  PROVE  out = Message(get_pair(ctx, DE))
<1> DEFINE at(k) == read_byte(ctx, Up(get_pair(ctx, DE), k))
           First(k) == at(k) = Dollar /\ \A j \in 0 .. k - 1 : at(j) # Dollar
           size == CHOOSE k \in Word : First(k)
<1>1. /\ at(n) = Dollar /\ \A k \in 0 .. n - 1 : at(k) # Dollar
      /\ \A k \in 1 .. n : out[k] = at(k - 1)
      /\ out = [k \in 1 .. n |-> out[k]]
  BY DEF PrintedTo, Ahead
<1> HIDE DEF at
<1>2. First(n)
  BY <1>1
<1>3. \A k \in Word : First(k) => k = n
  <2>1. \A k \in Word : k \in Int /\ 0 <= k
    BY WordBounds
  <2>2. ASSUME NEW k \in Word, k < n PROVE ~First(k)
    BY <1>1, <2>1, <2>2
  <2>3. ASSUME NEW k \in Word, n < k PROVE ~First(k)
    BY <1>1, <2>1, <2>3
  <2>4. QED  BY <2>1, <2>2, <2>3
<1> HIDE DEF First
<1>4. size = n
  BY <1>2, <1>3
<1>5. Message(get_pair(ctx, DE)) = [k \in 1 .. size |-> at(k - 1)]
  BY DEF Message, First, at
<1> HIDE DEF size
<1>6. QED  BY <1>1, <1>4, <1>5

(* What is ahead of DE is bytes.                                           *)
LEMMA AheadBytes ==
  ASSUME Sane(ctx)
  PROVE  /\ get_pair(ctx, DE) \in Word
         /\ \A n \in Nat : Ahead(ctx, n) \in Byte
<1>1. get_pair(ctx, DE) \in Word
  BY RegPairs
<1>2. \A w \in Word, n \in Nat : Up(w, n) \in Word
  BY WordBounds, Z3 DEF Up
<1>3. QED  BY <1>1, <1>2, ReadByte DEF Ahead

(* A round of the printing loop that goes on.                              *)
LEMMA RoundGoesOn ==
  ASSUME Kept \in Nat, Kept >= 65536, Sane(ctx), PrintRound, ch # Dollar,
         (\E n \in Word : PrintedTo(n)) \/ GoneRound
  PROVE  (\E n \in Word : PrintedTo(n)') \/ GoneRound'
<1>1. /\ out' = printed(out, ch) /\ ch' = read_byte(ctx, de) /\ de' = Up(de, 1)
      /\ ctx' = ctx
  BY DEF PrintRound, next
<1>2. CASE GoneRound
  <2>1. de' \in Word
    BY <1>1, <1>2, Packing, 1 \in 0 .. 2 DEF GoneRound
  <2>2. QED  BY <1>1, <1>2, <2>1 DEF GoneRound
<1>3. ASSUME NEW n \in Word, PrintedTo(n)
      PROVE  (\E k \in Word : PrintedTo(k)') \/ GoneRound'
  <2> DEFINE w == get_pair(ctx, DE)
  <2>1. n \in Int /\ 0 <= n /\ n < 65536 /\ w \in Word
    BY WordBounds, AheadBytes
  <2> HIDE DEF w
  <2>2. /\ out \in Seq(Byte) /\ Len(out) = n /\ ch = Ahead(ctx, n) /\ ch \in Byte
        /\ de = Up(w, n + 1)
        /\ \A k \in 0 .. n - 1 : Ahead(ctx, k) # Dollar
        /\ \A k \in 1 .. n : out[k] = Ahead(ctx, k - 1)
    BY <1>3, <2>1, AheadBytes DEF PrintedTo, w
  <2>3. /\ out' \in Seq(Byte) /\ Len(out') = n + 1 /\ out'[n + 1] = ch
        /\ \A k \in 1 .. n : out'[k] = out[k]
    <3>1. Len(out) < Kept /\ out \in Seq(Byte) /\ ch \in Byte
      BY <2>1, <2>2
    <3>2. /\ printed(out, ch) \in Seq(Byte) /\ Len(printed(out, ch)) = Len(out) + 1
          /\ printed(out, ch)[Len(out) + 1] = ch
          /\ \A k \in 1 .. Len(out) : printed(out, ch)[k] = out[k]
      BY <3>1, PrintOne
    <3>3. QED  BY <1>1, <2>2, <3>2
  <2>4. \A k \in 0 .. n : Ahead(ctx, k) # Dollar
    BY <2>1, <2>2
  <2>5. \A k \in 1 .. n + 1 : out'[k] = Ahead(ctx, k - 1)
    BY <2>1, <2>2, <2>3
  <2>6. ch' = Ahead(ctx, n + 1) /\ de' = Up(w, n + 2)
    <3>1. \A x \in Word, k \in Nat : Up(Up(x, k + 1), 1) = Up(x, k + 2)
      BY WordBounds, Z3 DEF Up
    <3>2. n \in Nat /\ de = Up(w, n + 1) /\ de' = Up(de, 1)
      BY <1>1, <2>1, <2>2
    <3>3. de' = Up(w, n + 2)
      BY <2>1, <3>1, <3>2
    <3>4. ch' = Ahead(ctx, n + 1)
      BY <1>1, <3>2 DEF Ahead, w
    <3>5. QED  BY <3>3, <3>4
  <2>7. CASE n < 65535
    <3>1. n + 1 \in Word /\ (n + 1) - 1 = n /\ (n + 1) + 1 = n + 2
      BY <2>1, <2>7, WordBounds
    <3>2. PrintedTo(n + 1)'
      BY <1>1, <2>3, <2>4, <2>5, <2>6, <3>1 DEF PrintedTo, w
    <3>3. QED  BY <3>1, <3>2
  <2>8. CASE n >= 65535
    <3>1. \A x \in Word : read_byte(ctx, x) # Dollar
      <4> TAKE x \in Word
      <4>1. PICK k \in Word : Up(w, k) = x
        BY <2>1, AllAhead
      <4>2. k \in 0 .. n
        <5>1. k \in Int /\ 0 <= k /\ k < 65536
          BY WordBounds
        <5>2. n \in Int /\ n >= 65535
          BY <2>1, <2>8
        <5>3. k <= n
          BY <5>1, <5>2
        <5>4. QED  BY <5>1, <5>2, <5>3
      <4>3. QED  BY <2>4, <4>1, <4>2 DEF Ahead, w
    <3>2. de \in Word /\ de' \in Word
      <4>1. \A y \in Word, k \in Nat : Up(y, k) \in Word
        BY WordBounds, Z3 DEF Up
      <4>2. QED  BY <2>1, <2>2, <2>6, <4>1
    <3>3. QED  BY <1>1, <3>1, <3>2 DEF GoneRound
  <2>9. QED  BY <2>1, <2>7, <2>8
<1>4. QED  BY <1>2, <1>3

(* The return is reached from the OUT alone.                               *)
LEMMA FromOut ==
  ASSUME Undisturbed, CallInv, Step, [Allowed]_ctx, ctx'.pc = 7
  PROVE  ctx.pc = 5
BY ReturnMoves, 7 \in 5 .. 7 DEF Allowed

LEMMA OutPrints ==
  ASSUME Undisturbed, CallInv, Step, [Allowed]_ctx
  PROVE  PrintInv'
<1> SUFFICES ASSUME ctx'.pc = 7 PROVE PrintInv'
  BY DEF PrintInv
<1>1. ctx.pc = 5
  BY FromOut
<1>2. ctx'.reg = ctx.reg /\ ctx'.mem = ctx.mem /\ phase = "run" /\ bdos
  BY <1>1, AtEntry, StepFetches DEF Step
<1>3. /\ get_pair(ctx', DE) = get_pair(ctx, DE) /\ get_pair(ctx, DE) \in Word
      /\ \A x : read_byte(ctx', x) = read_byte(ctx, x)
  BY <1>2, RegPairs DEF get_pair, read_byte, Undisturbed
<1>4. CASE ctx.reg["c"] = 9
  <2>1. phase' = "print" /\ out' = <<>>
    BY <1>2, <1>4 DEF bdos
  <2>2. ch' = Ahead(ctx', 0) /\ de' = Up(get_pair(ctx', DE), 1)
    <3>1. \A w \in Word : Up(w, 0) = w
      BY WordBounds, Z3 DEF Up
    <3>2. ch' = read_byte(ctx, get_pair(ctx, DE)) /\ de' = Up(get_pair(ctx, DE), 1)
      BY <1>2, <1>4 DEF bdos, next
    <3>3. QED  BY <1>3, <3>1, <3>2 DEF Ahead
  <2>3. PrintedTo(0)'
    BY <2>1, <2>2 DEF PrintedTo
  <2>4. 0 \in Word
    BY WordBounds
  <2>5. QED  BY <1>2, <1>4, <2>1, <2>3, <2>4 DEF PrintInv, PrintsMessage
<1>5. CASE ctx.reg["c"] # 9
  <2>1. /\ phase' = "run"
        /\ out' = IF ctx.reg["c"] = 2 THEN <<ctx.reg["e"]>> ELSE <<>>
    BY <1>2, <1>5 DEF bdos
  <2>2. QED  BY <1>2, <1>5, <2>1 DEF PrintInv, PrintsMessage
<1>6. QED  BY <1>4, <1>5

LEMMA RoundPrints ==
  ASSUME Kept \in Nat, Kept >= 65536, Sane(ctx), PrintInv, PrintRound
  PROVE  PrintInv'
<1> SUFFICES ASSUME ctx.pc = 7 PROVE PrintInv'
  BY DEF PrintInv, PrintRound
<1>1. /\ ctx' = ctx /\ ctx.reg["c"] = 9
      /\ (\E n \in Word : PrintedTo(n)) \/ GoneRound
  BY DEF PrintInv, PrintRound
<1>2. CASE ch = Dollar
  <2>1. phase' = "run" /\ out' = out
    BY <1>2 DEF PrintRound
  <2>2. PICK n \in Word : PrintedTo(n)
    BY <1>1, <1>2 DEF GoneRound
  <2>3. out = Message(get_pair(ctx, DE))
    BY <1>2, <2>2, MessageIs
  <2>4. Message(get_pair(ctx, DE))' = Message(get_pair(ctx, DE))
    BY <1>1 DEF Message
  <2>5. PrintsMessage'
    BY <1>1, <2>1, <2>3, <2>4 DEF PrintsMessage
  <2>6. QED  BY <2>1, <2>5 DEF PrintInv
<1>3. CASE ch # Dollar
  <2>1. phase' = "print"
    BY <1>3 DEF PrintRound
  <2>2. (\E n \in Word : PrintedTo(n)') \/ GoneRound'
    BY <1>1, <1>3, RoundGoesOn
  <2>3. QED  BY <1>1, <2>1, <2>2 DEF PrintInv, PrintsMessage
<1>4. QED  BY <1>2, <1>3

(* The same programs print what they ask for: with a history that          *)
(* remembers a whole address space, function 9 prints from DE to the first *)
(* '$' wherever it is, round the end of memory too, before it returns.     *)
THEOREM MessagesPrinted ==
  ASSUME CpmHost, Kept \in Nat, Kept >= 65536
  PROVE  CpmSpec /\ Disciplined => []PrintsMessage
<1>1. CpmInit => PrintInv
  <2>1. CpmInit => ctx.pc = 256
    BY DEF CpmInit, Init, CpmHost, offset
  <2>2. QED  BY <2>1 DEF PrintInv
<1>2. Undisturbed /\ CallInv /\ PrintInv /\ [CpmNext]_vars /\ [Allowed]_ctx => PrintInv'
  <2> SUFFICES ASSUME Undisturbed, CallInv, PrintInv, [CpmNext]_vars, [Allowed]_ctx
               PROVE  PrintInv'
    OBVIOUS
  <2>1. CASE Step
    BY <2>1, OutPrints
  <2>2. CASE PrintRound
    BY <2>2, RoundPrints DEF Undisturbed
  <2>3. CASE Finish
    BY <2>3 DEF Finish, PrintInv, PrintsMessage
  <2>4. CASE UNCHANGED vars
    BY <2>4 DEF vars, hostVars, PrintInv, PrintsMessage, PrintedTo, GoneRound, Message, Ahead
  <2>5. QED  BY <2>1, <2>2, <2>3, <2>4 DEF CpmNext
<1>3. PrintInv => PrintsMessage
  BY DEF PrintInv, PrintsMessage
<1>4. QED
  BY <1>1, <1>2, <1>3, CallStays, StaysUndisturbed, PTL DEF CpmSpec, Disciplined, Allowed

-----------------------------------------------------------------------------
(***************************************************************************)
(* Interrupts.  First noninterference: no instruction of the processor     *)
(* carries what is in cells it does not read to anything else.             *)
(***************************************************************************)

\* Two contexts the program cannot tell apart but by the cells of D: cycles,
\* requests and whether they are halted do not count.
Alike(c, d, D) ==
  /\ Sane(c) /\ Sane(d)
  /\ c.reg = d.reg /\ c.f = d.f /\ c.sp = d.sp /\ c.pc = d.pc
  /\ c.int_enable = d.int_enable /\ c.dev = d.dev
  /\ \A x \in Cell \ D : c.mem[x] = d.mem[x]

\* Alike but for fewer cells is alike but for more.
LEMMA AlikeMore ==
  ASSUME NEW D, NEW E, D \subseteq E, NEW c, NEW d, Alike(c, d, D)
  PROVE  Alike(c, d, E)
  BY DEF Alike

(* The same assignment to both.                                            *)
LEMMA AlikeField ==
  ASSUME NEW D, NEW c, NEW d, Alike(c, d, D)
  PROVE  /\ \A w \in Word : /\ Alike([c EXCEPT !.sp = w], [d EXCEPT !.sp = w], D)
                            /\ Alike([c EXCEPT !.pc = w], [d EXCEPT !.pc = w], D)
         /\ \A f : GoodFlags(f) => Alike([c EXCEPT !.f = f], [d EXCEPT !.f = f], D)
         /\ \A v \in Device : Alike([c EXCEPT !.dev = v], [d EXCEPT !.dev = v], D)
         /\ \A b \in BOOLEAN :
              Alike([c EXCEPT !.int_enable = b], [d EXCEPT !.int_enable = b], D)
         /\ Alike([c EXCEPT !.halted = TRUE], [d EXCEPT !.halted = TRUE], D)
<1>1. ASSUME NEW w \in Word
      PROVE  /\ Alike([c EXCEPT !.sp = w], [d EXCEPT !.sp = w], D)
             /\ Alike([c EXCEPT !.pc = w], [d EXCEPT !.pc = w], D)
  BY DEF Alike, Sane, Ctx
<1>2. ASSUME NEW f, GoodFlags(f)
      PROVE  Alike([c EXCEPT !.f = f], [d EXCEPT !.f = f], D)
  BY <1>2 DEF Alike, Sane, Ctx, GoodFlags
<1>3. ASSUME NEW v \in Device
      PROVE  Alike([c EXCEPT !.dev = v], [d EXCEPT !.dev = v], D)
  BY DEF Alike, Sane, Ctx
<1>4. ASSUME NEW b \in BOOLEAN
      PROVE  Alike([c EXCEPT !.int_enable = b], [d EXCEPT !.int_enable = b], D)
  BY DEF Alike, Sane, Ctx
<1>5. Alike([c EXCEPT !.halted = TRUE], [d EXCEPT !.halted = TRUE], D)
  BY DEF Alike, Sane, Ctx
<1>6. QED  BY <1>1, <1>2, <1>3, <1>4, <1>5

\* The same byte in the same register of both.
LEMMA AlikeReg ==
  ASSUME NEW D, NEW c, NEW d, Alike(c, d, D), NEW r \in RegName, NEW v \in Byte
  PROVE  Alike(set_reg(c, r, v), set_reg(d, r, v), D)
<1>1. Sane(set_reg(c, r, v)) /\ Sane(set_reg(d, r, v))
  BY SetReg DEF Alike, Follows
<1>2. QED  BY <1>1 DEF Alike, set_reg, Sane, Ctx

\* Both spend the same cycles.
LEMMA AlikeTick ==
  ASSUME NEW D, NEW c, NEW d, Alike(c, d, D), NEW n \in 4 .. 18
  PROVE  Alike(tick(c, n), tick(d, n), D)
<1>1. Sane(tick(c, n)) /\ Sane(tick(d, n))
  BY Tick DEF Alike
<1>2. QED  BY <1>1 DEF Alike, tick, Sane, Ctx

(* A byte written to both is the same in both from then on.                *)
LEMMA AlikeWrite ==
  ASSUME NEW D, NEW c, NEW d, Alike(c, d, D), NEW address \in Word, NEW v \in Byte
  PROVE  Alike(write_byte(c, address, v), write_byte(d, address, v), D \ {Store(address)})
<1>1. Sane(write_byte(c, address, v)) /\ Sane(write_byte(d, address, v))
  BY WriteByte DEF Alike, Follows
<1>2. CASE Store(address) = NoCell
  <2>1. NoCell \notin Cell
    BY MachineAssumption DEF MachineAssumption
  <2>2. write_byte(c, address, v) = [c EXCEPT !.mem = c.mem]
        /\ write_byte(d, address, v) = [d EXCEPT !.mem = d.mem]
    BY <1>2 DEF write_byte
  <2>3. QED  BY <1>1, <1>2, <2>1, <2>2 DEF Alike, Sane, Ctx
<1>3. CASE Store(address) # NoCell
  <2>1. write_byte(c, address, v) = [c EXCEPT !.mem = [c.mem EXCEPT ![Store(address)] = v]]
        /\ write_byte(d, address, v) = [d EXCEPT !.mem = [d.mem EXCEPT ![Store(address)] = v]]
    BY <1>3 DEF write_byte
  <2>2. c.mem \in [Cell -> Byte] /\ d.mem \in [Cell -> Byte]
    BY SaneFields DEF Alike
  <2>3. \A x \in Cell \ (D \ {Store(address)}) :
          [c.mem EXCEPT ![Store(address)] = v][x] = [d.mem EXCEPT ![Store(address)] = v][x]
    BY <2>2 DEF Alike
  <2>4. ASSUME NEW k, Sane(k), NEW m
        PROVE  LET z == [k EXCEPT !.mem = m]
               IN  /\ z.reg = k.reg /\ z.f = k.f /\ z.sp = k.sp /\ z.pc = k.pc
                   /\ z.int_enable = k.int_enable /\ z.dev = k.dev /\ z.mem = m
    BY <2>4 DEF Sane, Ctx
  <2> DEFINE mc == [c.mem EXCEPT ![Store(address)] = v]
             md == [d.mem EXCEPT ![Store(address)] = v]
  <2>5. \A x \in Cell \ (D \ {Store(address)}) : mc[x] = md[x]
    BY <2>3
  <2> HIDE DEF mc, md
  <2>6. /\ write_byte(c, address, v) = [c EXCEPT !.mem = mc]
        /\ write_byte(d, address, v) = [d EXCEPT !.mem = md]
    BY <2>1 DEF mc, md
  <2>7. Sane(c) /\ Sane(d)
    BY DEF Alike
  <2>8. QED  BY <1>1, <2>4, <2>5, <2>6, <2>7 DEF Alike
<1>4. QED  BY <1>2, <1>3

\* A write to both keeps them alike, wherever it goes.
LEMMA AlikeByte ==
  ASSUME NEW D, NEW c, NEW d, Alike(c, d, D), NEW address \in Word, NEW v \in Byte
  PROVE  Alike(write_byte(c, address, v), write_byte(d, address, v), D)
  BY AlikeWrite, AlikeMore, D \ {Store(address)} \subseteq D

\* What is not in D reads the same.
LEMMA AlikeRead ==
  ASSUME NEW D, NEW c, NEW d, Alike(c, d, D), NEW address \in Word, Load(address) \notin D
  PROVE  read_byte(c, address) = read_byte(d, address)
<1>1. Load(address) \in Cell \union {NoCell}
  BY MachineAssumption DEF MachineAssumption
<1>2. QED  BY <1>1 DEF Alike, read_byte

(* Pairs and words.                                                        *)
LEMMA AlikePair ==
  ASSUME NEW D, NEW c, NEW d, Alike(c, d, D), NEW p \in {BC, DE, HL}
  PROVE  /\ get_pair(c, p) = get_pair(d, p)
         /\ \A w \in Word : Alike(set_pair(c, p, w), set_pair(d, p, w), D)
<1>1. p[1] \in RegName /\ p[2] \in RegName
  BY DEF BC, DE, HL, RegName
<1>2. get_pair(c, p) = get_pair(d, p)
  BY DEF Alike, get_pair
<1>3. ASSUME NEW w \in Word PROVE Alike(set_pair(c, p, w), set_pair(d, p, w), D)
  <2> DEFINE c1 == set_reg(c, p[1], hi(w))
             d1 == set_reg(d, p[1], hi(w))
  <2>1. Alike(c1, d1, D)
    BY <1>1, Packing, AlikeReg
  <2>2. Alike(set_reg(c1, p[2], lo(w)), set_reg(d1, p[2], lo(w)), D)
    <3> HIDE DEF c1, d1
    <3>1. QED  BY <1>1, <2>1, Packing, AlikeReg
  <2>3. QED  BY <2>2 DEF set_pair
<1>4. QED  BY <1>2, <1>3

\* A word of which no byte is in D reads the same.
LEMMA AlikeReadWord ==
  ASSUME NEW D, NEW c, NEW d, Alike(c, d, D), NEW address \in Word,
         Load(address) \notin D, Load(Up(address, 1)) \notin D
  PROVE  read_word(c, address) = read_word(d, address)
<1>1. Up(address, 1) \in Word
  BY Packing, 1 \in 0 .. 2
<1>2. QED  BY <1>1, AlikeRead DEF read_word

\* A word written to both: the cells of both its bytes agree from then on.
LEMMA AlikeWord ==
  ASSUME NEW D, NEW c, NEW d, Alike(c, d, D), NEW address \in Word, NEW w \in Word
  PROVE  Alike(write_word(c, address, w), write_word(d, address, w),
               D \ {Store(address), Store(Up(address, 1))})
<1> DEFINE E == D \ {Store(address)}
           c1 == write_byte(c, address, lo(w))
           d1 == write_byte(d, address, lo(w))
<1>1. Up(address, 1) \in Word
  BY Packing, 1 \in 0 .. 2
<1>2. Alike(c1, d1, E)
  BY Packing, AlikeWrite
<1>3. Alike(write_byte(c1, Up(address, 1), hi(w)), write_byte(d1, Up(address, 1), hi(w)),
            E \ {Store(Up(address, 1))})
  <2> HIDE DEF c1, d1, E
  <2>1. QED  BY <1>1, <1>2, Packing, AlikeWrite
<1>4. E \ {Store(Up(address, 1))} = D \ {Store(address), Store(Up(address, 1))}
  OBVIOUS
<1>5. QED  BY <1>3, <1>4 DEF write_word

\* A word written to both keeps them alike.
LEMMA AlikeStored ==
  ASSUME NEW D, NEW c, NEW d, Alike(c, d, D), NEW address \in Word, NEW w \in Word
  PROVE  Alike(write_word(c, address, w), write_word(d, address, w), D)
<1> DEFINE E == D \ {Store(address), Store(Up(address, 1))}
<1>1. Alike(write_word(c, address, w), write_word(d, address, w), E)
  BY AlikeWord
<1>2. E \subseteq D
  OBVIOUS
<1> HIDE DEF E
<1>3. QED  BY <1>1, <1>2, AlikeMore

(* The instruction stream and the stack.                                   *)
LEMMA AlikeSkip ==
  ASSUME NEW D, NEW c, NEW d, Alike(c, d, D)
  PROVE  /\ \A n \in 0 .. 2 : Alike(skip(c, n), skip(d, n), D)
         /\ Alike(drop(c), drop(d), D)
<1>1. c.pc = d.pc /\ c.sp = d.sp /\ d.pc \in Word /\ d.sp \in Word
  BY SaneFields DEF Alike
<1>2. \A n \in 0 .. 2 : Up(d.pc, n) \in Word /\ Up(d.sp, n) \in Word
  BY <1>1, Packing
<1>3. QED
  BY <1>1, <1>2, AlikeField, 2 \in 0 .. 2 DEF skip, drop

\* Operand bytes and the top of the stack read the same, outside D.
LEMMA AlikeStream ==
  ASSUME NEW D, NEW c, NEW d, Alike(c, d, D)
  PROVE  /\ Load(d.pc) \notin D => byte_at_pc(c) = byte_at_pc(d)
         /\ Load(d.pc) \notin D /\ Load(Up(d.pc, 1)) \notin D => word_at_pc(c) = word_at_pc(d)
         /\ Load(d.sp) \notin D /\ Load(Up(d.sp, 1)) \notin D => top(c) = top(d)
<1>1. c.pc = d.pc /\ c.sp = d.sp /\ d.pc \in Word /\ d.sp \in Word
  BY SaneFields DEF Alike
<1>2. Load(d.pc) \notin D => read_byte(c, d.pc) = read_byte(d, d.pc)
  BY <1>1, AlikeRead
<1>3. ASSUME NEW x \in Word, Load(x) \notin D, Load(Up(x, 1)) \notin D
      PROVE  read_word(c, x) = read_word(d, x)
  BY <1>3, AlikeReadWord
<1>4. QED
  BY <1>1, <1>2, <1>3 DEF byte_at_pc, word_at_pc, top

\* The cells that a push writes.
Pushed2(s) == {Store(Down(s, 2)), Store(Up(Down(s, 2), 1))}

\* The same word pushed by both.
LEMMA AlikePush ==
  ASSUME NEW D, NEW c, NEW d, Alike(c, d, D), NEW w \in Word
  PROVE  Alike(push_word(c, w), push_word(d, w), D \ Pushed2(d.sp))
<1> DEFINE s  == Down(d.sp, 2)
           c1 == [c EXCEPT !.sp = s]
           d1 == [d EXCEPT !.sp = s]
<1>1. c.sp = d.sp /\ s \in Word
  BY SaneFields, Packing, 2 \in 0 .. 2 DEF Alike
<1>2. Alike(c1, d1, D) /\ c1.sp = s /\ d1.sp = s
  <2>1. Alike(c1, d1, D)
    BY <1>1, AlikeField
  <2>2. c1.sp = s /\ d1.sp = s
    BY DEF Alike, Sane, Ctx
  <2>3. QED  BY <2>1, <2>2
<1>3. push_word(c, w) = write_word(c1, s, w) /\ push_word(d, w) = write_word(d1, s, w)
  <2>1. push_word(c, w) = write_word(c1, c1.sp, w) /\ push_word(d, w) = write_word(d1, d1.sp, w)
    BY <1>1 DEF push_word
  <2> HIDE DEF c1, d1
  <2>2. QED  BY <1>2, <2>1
<1> HIDE DEF c1, d1
<1>4. Alike(write_word(c1, s, w), write_word(d1, s, w), D \ {Store(s), Store(Up(s, 1))})
  BY <1>1, <1>2, AlikeWord
<1>5. QED  BY <1>3, <1>4 DEF Pushed2

-----------------------------------------------------------------------------
\* An instruction of d finds one operand byte, two of them, the byte HL points
\* to, or the word on the stack outside D.
Byte1(d, D) == Load(d.pc) \notin D
Byte2(d, D) == Load(d.pc) \notin D /\ Load(Up(d.pc, 1)) \notin D
AtHL(d, D)  == Load(get_pair(d, HL)) \notin D
OnTop(d, D) == Load(d.sp) \notin D /\ Load(Up(d.sp, 1)) \notin D

\* Register or memory operands, read and written.
LEMMA AlikeOperand8 ==
  ASSUME NEW D, NEW c, NEW d, Alike(c, d, D), NEW r \in RegName \union {"m"}
  PROVE  /\ (r = "m" => AtHL(d, D)) => get_r8(c, r) = get_r8(d, r)
         /\ \A v \in Byte : Alike(set_r8(c, r, v), set_r8(d, r, v), D)
<1>1. get_pair(c, HL) = get_pair(d, HL) /\ get_pair(d, HL) \in Word
  <2>1. Sane(d)
    BY DEF Alike
  <2>2. QED  BY <2>1, AlikePair, RegPairs
<1>2. CASE r = "m"
  BY <1>1, <1>2, AlikeRead, AlikeByte DEF AtHL, get_r8, set_r8
<1>3. CASE r # "m"
  <2>1. r \in RegName /\ c.reg = d.reg
    BY <1>3 DEF Alike
  <2>2. QED  BY <1>3, <2>1, AlikeReg DEF get_r8, set_r8
<1>4. QED  BY <1>2, <1>3

\* Pairs and sp, read and written.
LEMMA AlikeOperand16 ==
  ASSUME NEW D, NEW c, NEW d, Alike(c, d, D), NEW op \in Byte
  PROVE  /\ get_r16(c, op) = get_r16(d, op)
         /\ \A w \in Word : Alike(set_r16(c, op, w), set_r16(d, op, w), D)
<1>1. Pair(op) \in {BC, DE, HL}
  BY Select
<1>2. get_r16(c, op) = get_r16(d, op)
  BY <1>1, AlikePair DEF get_r16, Alike
<1>3. ASSUME NEW w \in Word
      PROVE  Alike(set_r16(c, op, w), set_r16(d, op, w), D)
  BY <1>1, AlikePair, AlikeField DEF set_r16
<1>4. QED  BY <1>2, <1>3

\* The same result of the arithmetic in both.
LEMMA AlikeAf ==
  ASSUME NEW D, NEW c, NEW d, Alike(c, d, D), NEW r, GoodResult(r)
  PROVE  Alike(set_af(c, r), set_af(d, r), D)
<1> DEFINE c1 == set_reg(c, "a", r.a)
           d1 == set_reg(d, "a", r.a)
<1>1. Alike(c1, d1, D)
  BY AlikeReg DEF GoodResult, RegName
<1>2. Alike([c1 EXCEPT !.f = r.f], [d1 EXCEPT !.f = r.f], D)
  <2> HIDE DEF c1, d1
  <2>1. QED  BY <1>1, AlikeField DEF GoodResult
<1>3. QED  BY <1>2 DEF set_af

\* POP PSW of the same word.
LEMMA AlikePopPsw ==
  ASSUME NEW D, NEW c, NEW d, Alike(c, d, D), NEW w \in Word
  PROVE  Alike(FixFlags(set_psw(c, w)), FixFlags(set_psw(d, w)), D)
<1> DEFINE g  == (Bits(lo(w)) \union FixedOnes) \ FixedZeros
           c1 == set_reg(c, "a", hi(w))
           d1 == set_reg(d, "a", hi(w))
<1>1. Alike(c1, d1, D)
  BY Packing, AlikeReg DEF RegName
<1>2. GoodFlags(g)
  BY Repairs DEF Bits
<1>3. ASSUME NEW b, Sane(b)
      PROVE  FixFlags(set_psw(b, w)) = [set_reg(b, "a", hi(w)) EXCEPT !.f = g]
  <2> DEFINE e == set_reg(b, "a", hi(w))
  <2>1. "f" \in DOMAIN e
    BY <1>3 DEF set_reg, Sane, Ctx
  <2>2. set_psw(b, w) = [e EXCEPT !.f = Bits(lo(w))]
    BY DEF set_psw, set_af
  <2>3. FixFlags([e EXCEPT !.f = Bits(lo(w))]) = [e EXCEPT !.f = g]
    <3> HIDE DEF e
    <3>1. QED  BY <2>1 DEF FixFlags
  <2>4. QED  BY <2>2, <2>3
<1>4. Alike([c1 EXCEPT !.f = g], [d1 EXCEPT !.f = g], D)
  <2> HIDE DEF c1, d1, g
  <2>1. QED  BY <1>1, <1>2, AlikeField
<1>5. QED  BY <1>3, <1>4 DEF Alike

(* A tick, and operands skipped, at the end.                               *)
LEMMA AlikeEnds ==
  ASSUME NEW D, NEW c, NEW d, Alike(c, d, D), NEW n \in 4 .. 18
  PROVE  /\ Alike(tick(c, n), tick(d, n), D)
         /\ \A k \in 1 .. 2 : Alike(tick(skip(c, k), n), tick(skip(d, k), n), D)
<1>1. Alike(tick(c, n), tick(d, n), D)
  BY AlikeTick
<1>2. ASSUME NEW k \in 1 .. 2
      PROVE  Alike(tick(skip(c, k), n), tick(skip(d, k), n), D)
  <2>1. Alike(skip(c, k), skip(d, k), D)
    BY AlikeSkip, k \in 0 .. 2
  <2>2. QED  BY <2>1, AlikeTick
<1>3. QED  BY <1>1, <1>2

\* Moves between registers, pairs and memory.
LEMMA AlikeMoves ==
  ASSUME NEW D, NEW c, NEW d, Alike(c, d, D), NEW op \in Byte
  PROVE  /\ Byte1(d, D) => Alike(MVI(c, op), MVI(d, op), D)
         /\ (Src(op) = "m" => AtHL(d, D)) => Alike(MOV(c, op), MOV(d, op), D)
         /\ Byte2(d, D) => Alike(LXI(c, op), LXI(d, op), D)
         /\ Alike(INX(c, op), INX(d, op), D) /\ Alike(DCX(c, op), DCX(d, op), D)
<1>1. Sane(d)
  BY DEF Alike
<1>2. /\ Dst(op) \in RegName \union {"m"} /\ Src(op) \in RegName \union {"m"}
      /\ byte_at_pc(d) \in Byte /\ word_at_pc(d) \in Word /\ get_r16(d, op) \in Word
  BY <1>1, Select, Stream, Operand16
<1>3. get_r8(d, Src(op)) \in Byte
  BY <1>1, <1>2, Operand8
<1>4. /\ MemoryOr(Dst(op), 10, 7) \in 4 .. 18 /\ 10 \in 4 .. 18 /\ 5 \in 4 .. 18
      /\ (IF "m" \in {Dst(op), Src(op)} THEN 7 ELSE 5) \in 4 .. 18
      /\ 1 \in 1 .. 2 /\ 2 \in 1 .. 2
  BY DEF MemoryOr
<1>5. Byte1(d, D) => Alike(MVI(c, op), MVI(d, op), D)
  <2>1. Byte1(d, D) => byte_at_pc(c) = byte_at_pc(d)
    BY AlikeStream DEF Byte1
  <2>2. Alike(set_r8(c, Dst(op), byte_at_pc(d)), set_r8(d, Dst(op), byte_at_pc(d)), D)
    BY <1>2, AlikeOperand8
  <2>3. QED  BY <1>4, <2>1, <2>2, AlikeEnds DEF MVI
<1>6. (Src(op) = "m" => AtHL(d, D)) => Alike(MOV(c, op), MOV(d, op), D)
  <2>1. (Src(op) = "m" => AtHL(d, D)) => get_r8(c, Src(op)) = get_r8(d, Src(op))
    BY <1>2, AlikeOperand8
  <2>2. Alike(set_r8(c, Dst(op), get_r8(d, Src(op))),
              set_r8(d, Dst(op), get_r8(d, Src(op))), D)
    BY <1>2, <1>3, AlikeOperand8
  <2>3. QED  BY <1>4, <2>1, <2>2, AlikeEnds DEF MOV
<1>7. Byte2(d, D) => Alike(LXI(c, op), LXI(d, op), D)
  <2>1. Byte2(d, D) => word_at_pc(c) = word_at_pc(d)
    BY AlikeStream DEF Byte2
  <2>2. Alike(set_r16(c, op, word_at_pc(d)), set_r16(d, op, word_at_pc(d)), D)
    BY <1>2, AlikeOperand16
  <2>3. QED  BY <1>4, <2>1, <2>2, AlikeEnds DEF LXI
<1>8. Alike(INX(c, op), INX(d, op), D) /\ Alike(DCX(c, op), DCX(d, op), D)
  <2> DEFINE u == Up(get_r16(d, op), 1)
             w == Down(get_r16(d, op), 1)
  <2>1. u \in Word /\ w \in Word
    BY <1>2, Packing, 1 \in 0 .. 2
  <2>2. get_r16(c, op) = get_r16(d, op)
    BY AlikeOperand16
  <2>3. INX(c, op) = tick(set_r16(c, op, u), 5) /\ DCX(c, op) = tick(set_r16(c, op, w), 5)
    BY <2>2 DEF INX, DCX
  <2>4. INX(d, op) = tick(set_r16(d, op, u), 5) /\ DCX(d, op) = tick(set_r16(d, op, w), 5)
    BY DEF INX, DCX
  <2> HIDE DEF u, w
  <2>5. Alike(set_r16(c, op, u), set_r16(d, op, u), D)
        /\ Alike(set_r16(c, op, w), set_r16(d, op, w), D)
    BY <2>1, AlikeOperand16
  <2>6. QED  BY <1>4, <2>3, <2>4, <2>5, AlikeEnds
<1>9. QED  BY <1>5, <1>6, <1>7, <1>8

\* Loads and stores at an address of the instruction.
LEMMA AlikeLoads ==
  ASSUME NEW D, NEW c, NEW d, Alike(c, d, D), NEW op \in Byte
  PROVE  /\ Alike(STAX(c, op), STAX(d, op), D)
         /\ Load(get_pair(d, Pair(op))) \notin D => Alike(LDAX(c, op), LDAX(d, op), D)
         /\ Byte2(d, D) => Alike(STA(c), STA(d), D) /\ Alike(SHLD(c), SHLD(d), D)
         /\ Byte2(d, D) /\ Load(word_at_pc(d)) \notin D => Alike(LDA(c), LDA(d), D)
         /\ Byte2(d, D) /\ Load(word_at_pc(d)) \notin D /\ Load(Up(word_at_pc(d), 1)) \notin D
              => Alike(LHLD(c), LHLD(d), D)
<1> DEFINE p == get_pair(d, Pair(op))
           w == word_at_pc(d)
<1>1. Sane(d) /\ c.reg = d.reg
  BY DEF Alike
<1>2. /\ p \in Word /\ get_pair(d, HL) \in Word /\ w \in Word /\ d.reg["a"] \in Byte
      /\ read_byte(d, p) \in Byte /\ read_byte(d, w) \in Byte /\ read_word(d, w) \in Word
      /\ HL \in {BC, DE, HL} /\ "a" \in RegName
  <2>1. p \in Word /\ get_pair(d, HL) \in Word /\ w \in Word /\ d.reg["a"] \in Byte
    BY <1>1, Select, RegPairs, Stream, SaneFields DEF RegName
  <2> HIDE DEF p, w
  <2>2. read_byte(d, p) \in Byte /\ read_byte(d, w) \in Byte /\ read_word(d, w) \in Word
    BY <1>1, <2>1, ReadByte, WordAccess
  <2>3. QED  BY <2>1, <2>2 DEF RegName
<1>3. get_pair(c, Pair(op)) = p /\ get_pair(c, HL) = get_pair(d, HL)
      /\ (Byte2(d, D) => word_at_pc(c) = w)
  BY Select, AlikePair, AlikeStream DEF Byte2
<1>4. /\ 7 \in 4 .. 18 /\ 13 \in 4 .. 18 /\ 16 \in 4 .. 18 /\ 2 \in 1 .. 2
  OBVIOUS
<1>5. /\ STAX(d, op) = tick(write_byte(d, p, d.reg["a"]), 7)
      /\ LDAX(d, op) = tick(set_reg(d, "a", read_byte(d, p)), 7)
      /\ STA(d) = tick(skip(write_byte(d, w, d.reg["a"]), 2), 13)
      /\ LDA(d) = tick(skip(set_reg(d, "a", read_byte(d, w)), 2), 13)
      /\ SHLD(d) = tick(skip(write_word(d, w, get_pair(d, HL)), 2), 16)
      /\ LHLD(d) = tick(skip(set_pair(d, HL, read_word(d, w)), 2), 16)
  BY DEF STAX, LDAX, STA, LDA, SHLD, LHLD
<1>6. /\ STAX(c, op) = tick(write_byte(c, p, d.reg["a"]), 7)
      /\ LDAX(c, op) = tick(set_reg(c, "a", read_byte(c, p)), 7)
      /\ Byte2(d, D) =>
           /\ STA(c) = tick(skip(write_byte(c, w, d.reg["a"]), 2), 13)
           /\ LDA(c) = tick(skip(set_reg(c, "a", read_byte(c, w)), 2), 13)
           /\ SHLD(c) = tick(skip(write_word(c, w, get_pair(d, HL)), 2), 16)
           /\ LHLD(c) = tick(skip(set_pair(c, HL, read_word(c, w)), 2), 16)
  BY <1>1, <1>3 DEF STAX, LDAX, STA, LDA, SHLD, LHLD
<1> HIDE DEF p, w
<1>7. /\ Alike(write_byte(c, p, d.reg["a"]), write_byte(d, p, d.reg["a"]), D)
      /\ Alike(write_byte(c, w, d.reg["a"]), write_byte(d, w, d.reg["a"]), D)
      /\ Alike(write_word(c, w, get_pair(d, HL)), write_word(d, w, get_pair(d, HL)), D)
  BY <1>2, AlikeByte, AlikeStored
<1>8. /\ Alike(set_reg(c, "a", read_byte(d, p)), set_reg(d, "a", read_byte(d, p)), D)
      /\ Alike(set_reg(c, "a", read_byte(d, w)), set_reg(d, "a", read_byte(d, w)), D)
      /\ Alike(set_pair(c, HL, read_word(d, w)), set_pair(d, HL, read_word(d, w)), D)
  BY <1>2, AlikeReg, AlikePair
<1>9. /\ Load(p) \notin D => read_byte(c, p) = read_byte(d, p)
      /\ Load(w) \notin D => read_byte(c, w) = read_byte(d, w)
      /\ Load(w) \notin D /\ Load(Up(w, 1)) \notin D => read_word(c, w) = read_word(d, w)
  BY <1>2, AlikeRead, AlikeReadWord
<1>10. /\ Alike(STAX(c, op), STAX(d, op), D)
       /\ Load(p) \notin D => Alike(LDAX(c, op), LDAX(d, op), D)
  BY <1>4, <1>5, <1>6, <1>7, <1>8, <1>9, AlikeEnds
<1>11. Byte2(d, D) => Alike(STA(c), STA(d), D) /\ Alike(SHLD(c), SHLD(d), D)
  BY <1>4, <1>5, <1>6, <1>7, AlikeEnds
<1>12. /\ Byte2(d, D) /\ Load(w) \notin D => Alike(LDA(c), LDA(d), D)
       /\ Byte2(d, D) /\ Load(w) \notin D /\ Load(Up(w, 1)) \notin D => Alike(LHLD(c), LHLD(d), D)
  BY <1>4, <1>5, <1>6, <1>8, <1>9, AlikeEnds
<1>13. QED  BY <1>10, <1>11, <1>12 DEF p, w

\* The arithmetic.
LEMMA AlikeArithmetic ==
  ASSUME NEW D, NEW c, NEW d, Alike(c, d, D), NEW op \in Byte
  PROVE  /\ (Dst(op) = "m" => AtHL(d, D)) =>
              Alike(INR(c, op), INR(d, op), D) /\ Alike(DCR(c, op), DCR(d, op), D)
         /\ Alike(DAD(c, op), DAD(d, op), D) /\ Alike(Accumulate(c, op), Accumulate(d, op), D)
         /\ (Src(op) = "m" => AtHL(d, D)) => Alike(AluRegister(c, op), AluRegister(d, op), D)
         /\ Byte1(d, D) => Alike(AluImmediate(c, op), AluImmediate(d, op), D)
<1> DEFINE k == (op \div 8) % 8
<1>1. Sane(d) /\ c.reg = d.reg /\ c.f = d.f
  BY DEF Alike
<1>2. /\ Dst(op) \in RegName \union {"m"} /\ Src(op) \in RegName \union {"m"}
      /\ HL \in {BC, DE, HL} /\ get_pair(d, HL) \in Word /\ get_r16(d, op) \in Word
  BY <1>1, Select, RegPairs, Operand16
<1>3. /\ get_r8(d, Dst(op)) \in Byte /\ get_r8(d, Src(op)) \in Byte
      /\ d.reg["a"] \in Byte /\ GoodFlags(d.f) /\ byte_at_pc(d) \in Byte
  BY <1>1, <1>2, Operand8, SaneFields, Stream DEF RegName
<1>4. /\ MemoryOr(Dst(op), 10, 5) \in 4 .. 18 /\ MemoryOr(Src(op), 7, 4) \in 4 .. 18
      /\ 10 \in 4 .. 18 /\ 4 \in 4 .. 18 /\ 7 \in 4 .. 18 /\ 1 \in 1 .. 2
  BY DEF MemoryOr
<1>5. (Dst(op) = "m" => AtHL(d, D)) =>
        Alike(INR(c, op), INR(d, op), D) /\ Alike(DCR(c, op), DCR(d, op), D)
  <2> SUFFICES ASSUME Dst(op) = "m" => AtHL(d, D)
               PROVE  Alike(INR(c, op), INR(d, op), D) /\ Alike(DCR(c, op), DCR(d, op), D)
    OBVIOUS
  <2> DEFINE i == op_inr(d.f, get_r8(d, Dst(op)))
             j == op_dcr(d.f, get_r8(d, Dst(op)))
             n == MemoryOr(Dst(op), 10, 5)
  <2>1. i.v \in Byte /\ GoodFlags(i.f) /\ j.v \in Byte /\ GoodFlags(j.f)
    BY <1>3, IncrementGood
  <2>2. get_r8(c, Dst(op)) = get_r8(d, Dst(op))
    BY <1>2, AlikeOperand8
  <2>3. /\ INR(c, op) = tick([set_r8(c, Dst(op), i.v) EXCEPT !.f = i.f], n)
        /\ DCR(c, op) = tick([set_r8(c, Dst(op), j.v) EXCEPT !.f = j.f], n)
    BY <1>1, <2>2 DEF INR, DCR
  <2>4. /\ INR(d, op) = tick([set_r8(d, Dst(op), i.v) EXCEPT !.f = i.f], n)
        /\ DCR(d, op) = tick([set_r8(d, Dst(op), j.v) EXCEPT !.f = j.f], n)
    BY DEF INR, DCR
  <2> HIDE DEF i, j, n
  <2>5. Alike(set_r8(c, Dst(op), i.v), set_r8(d, Dst(op), i.v), D)
        /\ Alike(set_r8(c, Dst(op), j.v), set_r8(d, Dst(op), j.v), D)
    BY <1>2, <2>1, AlikeOperand8
  <2>6. Alike([set_r8(c, Dst(op), i.v) EXCEPT !.f = i.f],
              [set_r8(d, Dst(op), i.v) EXCEPT !.f = i.f], D)
    BY <2>1, <2>5, AlikeField
  <2>7. Alike([set_r8(c, Dst(op), j.v) EXCEPT !.f = j.f],
              [set_r8(d, Dst(op), j.v) EXCEPT !.f = j.f], D)
    BY <2>1, <2>5, AlikeField
  <2>8. n \in 4 .. 18
    BY <1>4 DEF n
  <2>9. QED  BY <2>3, <2>4, <2>6, <2>7, <2>8, AlikeTick
<1>6. Alike(DAD(c, op), DAD(d, op), D)
  <2> DEFINE r == op_dad(get_pair(d, HL), d.f, get_r16(d, op))
  <2>1. r.hl \in Word /\ GoodFlags(r.f)
    BY <1>2, <1>3, DadGood
  <2>2. get_pair(c, HL) = get_pair(d, HL) /\ get_r16(c, op) = get_r16(d, op)
    BY AlikePair, AlikeOperand16
  <2>3. /\ DAD(c, op) = tick([set_pair(c, HL, r.hl) EXCEPT !.f = r.f], 10)
        /\ DAD(d, op) = tick([set_pair(d, HL, r.hl) EXCEPT !.f = r.f], 10)
    BY <1>1, <2>2 DEF DAD
  <2> HIDE DEF r
  <2>4. Alike(set_pair(c, HL, r.hl), set_pair(d, HL, r.hl), D)
    BY <1>2, <2>1, AlikePair
  <2>5. Alike([set_pair(c, HL, r.hl) EXCEPT !.f = r.f],
              [set_pair(d, HL, r.hl) EXCEPT !.f = r.f], D)
    BY <2>1, <2>4, AlikeField
  <2>6. QED  BY <1>4, <2>3, <2>5, AlikeTick
<1>7. Alike(Accumulate(c, op), Accumulate(d, op), D)
  <2>1. Alike(set_af(c, accumulate(k, d.reg["a"], d.f)),
              set_af(d, accumulate(k, d.reg["a"], d.f)), D)
    BY <1>3, AccumulateGood, AlikeAf
  <2>2. QED  BY <1>1, <1>4, <2>1, AlikeEnds DEF Accumulate
<1>8. (Src(op) = "m" => AtHL(d, D)) => Alike(AluRegister(c, op), AluRegister(d, op), D)
  <2>1. (Src(op) = "m" => AtHL(d, D)) => get_r8(c, Src(op)) = get_r8(d, Src(op))
    BY <1>2, AlikeOperand8
  <2>2. Alike(set_af(c, alu(k, d.reg["a"], d.f, get_r8(d, Src(op)))),
              set_af(d, alu(k, d.reg["a"], d.f, get_r8(d, Src(op)))), D)
    BY <1>3, AluGood, AlikeAf
  <2>3. QED  BY <1>1, <1>4, <2>1, <2>2, AlikeEnds DEF AluRegister
<1>9. Byte1(d, D) => Alike(AluImmediate(c, op), AluImmediate(d, op), D)
  <2>1. Byte1(d, D) => byte_at_pc(c) = byte_at_pc(d)
    BY AlikeStream DEF Byte1
  <2>2. Alike(set_af(c, alu(k, d.reg["a"], d.f, byte_at_pc(d))),
              set_af(d, alu(k, d.reg["a"], d.f, byte_at_pc(d))), D)
    BY <1>3, AluGood, AlikeAf
  <2>3. QED  BY <1>1, <1>4, <2>1, <2>2, AlikeEnds DEF AluImmediate
<1>10. QED  BY <1>5, <1>6, <1>7, <1>8, <1>9

\* After a push the cells it wrote are alike too.
PushAlike(c, d, D, s) == Alike(c, d, D \ Pushed2(s)) /\ d.sp = Down(s, 2)

\* A push, alone or before a jump, makes the cells it writes agree.
LEMMA AlikePushing ==
  ASSUME NEW D, NEW c, NEW d, Alike(c, d, D), NEW w \in Word, NEW n \in 4 .. 18
  PROVE  /\ PushAlike(tick(push_word(c, w), n), tick(push_word(d, w), n), D, d.sp)
         /\ \A to \in Word :
              PushAlike(tick([push_word(c, w) EXCEPT !.pc = to], n),
                        tick([push_word(d, w) EXCEPT !.pc = to], n), D, d.sp)
<1> DEFINE E  == D \ Pushed2(d.sp)
           c1 == push_word(c, w)
           d1 == push_word(d, w)
<1>1. Alike(c1, d1, E)
  BY AlikePush
<1>2. d1.sp = Down(d.sp, 2)
  BY PushedFields DEF Alike
<1>3. ASSUME NEW a, NEW b, Alike(a, b, E), b.sp = Down(d.sp, 2)
      PROVE  PushAlike(tick(a, n), tick(b, n), D, d.sp)
  <2>1. Alike(tick(a, n), tick(b, n), E)
    BY <1>3, AlikeTick
  <2>2. tick(b, n).sp = b.sp
    BY <1>3, TickedFields DEF Alike, Sane
  <2>3. QED  BY <1>3, <2>1, <2>2 DEF PushAlike
<1>4. ASSUME NEW to \in Word
      PROVE  /\ Alike([c1 EXCEPT !.pc = to], [d1 EXCEPT !.pc = to], E)
             /\ [d1 EXCEPT !.pc = to].sp = Down(d.sp, 2)
  <2> HIDE DEF c1, d1, E
  <2>1. Alike([c1 EXCEPT !.pc = to], [d1 EXCEPT !.pc = to], E)
    BY <1>1, AlikeField
  <2>2. [d1 EXCEPT !.pc = to].sp = d1.sp
    BY <1>1 DEF Alike, Sane, Ctx
  <2>3. QED  BY <1>2, <2>1, <2>2
<1> HIDE DEF E
<1>5. QED  BY <1>1, <1>2, <1>3, <1>4

\* PUSH and POP.
LEMMA AlikeStack ==
  ASSUME NEW D, NEW c, NEW d, Alike(c, d, D), NEW op \in Byte
  PROVE  /\ OnTop(d, D) => Alike(POP(c, op), POP(d, op), D)
         /\ PushAlike(PUSH(c, op), PUSH(d, op), D, d.sp)
<1>1. Sane(c) /\ Sane(d) /\ c.reg = d.reg /\ c.f = d.f
  BY DEF Alike
<1>2. Pair(op) \in {BC, DE, HL} /\ top(d) \in Word
  BY <1>1, Select, Stream
<1>3. OnTop(d, D) => Alike(POP(c, op), POP(d, op), D)
  <2> SUFFICES ASSUME OnTop(d, D) PROVE Alike(POP(c, op), POP(d, op), D)
    OBVIOUS
  <2> DEFINE c1 == drop(c)
             d1 == drop(d)
             w  == top(d)
  <2>1. Alike(c1, d1, D)
    BY AlikeSkip
  <2>2. top(c) = w
    BY AlikeStream DEF OnTop
  <2>3. POP(c, op) = tick(IF Row(op) = 3 THEN FixFlags(set_psw(c1, w))
                          ELSE set_pair(c1, Pair(op), w), 10)
    BY <2>2 DEF POP
  <2>4. POP(d, op) = tick(IF Row(op) = 3 THEN FixFlags(set_psw(d1, w))
                          ELSE set_pair(d1, Pair(op), w), 10)
    BY DEF POP
  <2>5. w \in Word
    BY <1>2
  <2> HIDE DEF c1, d1, w
  <2>6. CASE Row(op) = 3
    <3>1. Alike(FixFlags(set_psw(c1, w)), FixFlags(set_psw(d1, w)), D)
      BY <2>1, <2>5, AlikePopPsw
    <3>2. QED  BY <2>3, <2>4, <2>6, <3>1, AlikeTick, 10 \in 4 .. 18
  <2>7. CASE Row(op) # 3
    <3>1. Alike(set_pair(c1, Pair(op), w), set_pair(d1, Pair(op), w), D)
      BY <1>2, <2>1, <2>5, AlikePair
    <3>2. QED  BY <2>3, <2>4, <2>7, <3>1, AlikeTick, 10 \in 4 .. 18
  <2>8. QED  BY <2>6, <2>7
<1>4. PushAlike(PUSH(c, op), PUSH(d, op), D, d.sp)
  <2> DEFINE w == IF Row(op) = 3 THEN get_psw(d) ELSE get_pair(d, Pair(op))
  <2>1. w \in Word
    BY <1>1, <1>2, Psw, RegPairs
  <2>2. get_psw(c) = get_psw(d) /\ get_pair(c, Pair(op)) = get_pair(d, Pair(op))
    BY <1>1, <1>2, AlikePair DEF get_psw
  <2>3. PUSH(c, op) = tick(push_word(c, w), 11) /\ PUSH(d, op) = tick(push_word(d, w), 11)
    BY <1>1, <2>2, NothingToFix DEF PUSH
  <2> HIDE DEF w
  <2>4. QED  BY <2>1, <2>3, AlikePushing, 11 \in 4 .. 18
<1>5. QED  BY <1>3, <1>4

\* After a push both are alike as before.
LEMMA PushAlikeAlike ==
  ASSUME NEW D, NEW c, NEW d, NEW s, PushAlike(c, d, D, s)
  PROVE  Alike(c, d, D)
<1> DEFINE E == D \ Pushed2(s)
<1>1. E \subseteq D /\ Alike(c, d, E)
  BY DEF PushAlike
<1> HIDE DEF E
<1>2. QED  BY <1>1, AlikeMore

\* CALL and RST.
LEMMA AlikeCalls ==
  ASSUME NEW D, NEW c, NEW d, Alike(c, d, D), NEW op \in Byte
  PROVE  /\ Byte2(d, D) => /\ PushAlike(tick(op_call(c), 17), tick(op_call(d), 17), D, d.sp)
                           /\ PushAlike(CALL(c), CALL(d), D, d.sp)
         /\ PushAlike(RST(c, op), RST(d, op), D, d.sp)
<1>1. Sane(d) /\ c.pc = d.pc /\ d.pc \in Word
  BY SaneFields DEF Alike
<1>2. Byte2(d, D) => PushAlike(tick(op_call(c), 17), tick(op_call(d), 17), D, d.sp)
  <2> SUFFICES ASSUME Byte2(d, D)
               PROVE  PushAlike(tick(op_call(c), 17), tick(op_call(d), 17), D, d.sp)
    OBVIOUS
  <2> DEFINE w  == Up(d.pc, 2)
             E  == D \ Pushed2(d.sp)
             c1 == push_word(c, w)
             d1 == push_word(d, w)
             to == word_at_pc(d1)
  <2>1. w \in Word
    BY <1>1, Packing, 2 \in 0 .. 2
  <2>2. Alike(c1, d1, E) /\ d1.pc = d.pc
    BY <1>1, <2>1, AlikePush, PushedFields
  <2>3. Load(d1.pc) \notin E /\ Load(Up(d1.pc, 1)) \notin E
    <3> HIDE DEF d1
    <3>1. QED  BY <2>2 DEF Byte2
  <2>4. word_at_pc(c1) = to /\ to \in Word
    <3> HIDE DEF c1, d1, E
    <3>1. QED  BY <2>2, <2>3, AlikeStream, Stream DEF Alike
  <2>5. op_call(c) = [c1 EXCEPT !.pc = to] /\ op_call(d) = [d1 EXCEPT !.pc = to]
    BY <1>1, <2>4 DEF op_call, op_jmp
  <2>6. PushAlike(tick([c1 EXCEPT !.pc = to], 17), tick([d1 EXCEPT !.pc = to], 17), D, d.sp)
    <3> HIDE DEF to, w
    <3>1. QED  BY <2>1, <2>4, AlikePushing, 17 \in 4 .. 18
  <2>7. QED  BY <2>5, <2>6
<1>3. PushAlike(RST(c, op), RST(d, op), D, d.sp)
  <2> DEFINE to == 8 * ((op \div 8) % 8)
  <2>1. to \in Word
    BY ByteBounds, WordBounds, Z3
  <2>2. RST(c, op) = tick([push_word(c, d.pc) EXCEPT !.pc = to], 11)
        /\ RST(d, op) = tick([push_word(d, d.pc) EXCEPT !.pc = to], 11)
    BY <1>1 DEF RST, op_rst
  <2> HIDE DEF to
  <2>3. QED  BY <1>1, <2>1, <2>2, AlikePushing, 11 \in 4 .. 18
<1>4. QED  BY <1>2, <1>3 DEF CALL

\* Jumps, returns and conditional calls.
LEMMA AlikeBranches ==
  ASSUME NEW D, NEW c, NEW d, Alike(c, d, D), NEW op \in Byte
  PROVE  /\ Condition(c, op) = Condition(d, op)
         /\ OnTop(d, D) => Alike(RetIf(c, op), RetIf(d, op), D) /\ Alike(RET(c), RET(d), D)
         /\ Byte2(d, D) => Alike(JmpIf(c, op), JmpIf(d, op), D) /\ Alike(JMP(c), JMP(d), D)
         /\ Byte2(d, D) => Alike(CallIf(c, op), CallIf(d, op), D)
         /\ Alike(PCHL(c), PCHL(d), D) /\ Alike(SPHL(c), SPHL(d), D)
<1>1. Sane(d) /\ HL \in {BC, DE, HL}
  BY DEF Alike
<1>2. /\ 5 \in 4 .. 18 /\ 10 \in 4 .. 18 /\ 11 \in 4 .. 18 /\ 17 \in 4 .. 18
      /\ 2 \in 1 .. 2
  OBVIOUS
<1>3. Condition(c, op) = Condition(d, op)
  BY DEF Alike, Condition
<1>4. OnTop(d, D) => Alike(op_ret(c), op_ret(d), D)
  <2> SUFFICES ASSUME OnTop(d, D) PROVE Alike(op_ret(c), op_ret(d), D)
    OBVIOUS
  <2> DEFINE c1 == drop(c)
             d1 == drop(d)
             w  == top(d)
  <2>1. Alike(c1, d1, D) /\ w \in Word /\ top(c) = w
    BY <1>1, AlikeSkip, AlikeStream, Stream DEF OnTop
  <2>2. op_ret(c) = [c1 EXCEPT !.pc = w] /\ op_ret(d) = [d1 EXCEPT !.pc = w]
    BY <2>1 DEF op_ret
  <2> HIDE DEF c1, d1, w
  <2>3. Alike([c1 EXCEPT !.pc = w], [d1 EXCEPT !.pc = w], D)
    BY <2>1, AlikeField
  <2>4. QED  BY <2>2, <2>3
<1>5. Byte2(d, D) => Alike(op_jmp(c), op_jmp(d), D)
  <2> SUFFICES ASSUME Byte2(d, D) PROVE Alike(op_jmp(c), op_jmp(d), D)
    OBVIOUS
  <2> DEFINE w == word_at_pc(d)
  <2>1. w \in Word /\ word_at_pc(c) = w
    BY <1>1, AlikeStream, Stream DEF Byte2
  <2>2. op_jmp(c) = [c EXCEPT !.pc = w] /\ op_jmp(d) = [d EXCEPT !.pc = w]
    BY <2>1 DEF op_jmp
  <2> HIDE DEF w
  <2>3. Alike([c EXCEPT !.pc = w], [d EXCEPT !.pc = w], D)
    BY <2>1, AlikeField
  <2>4. QED  BY <2>2, <2>3
<1>6. /\ Alike(tick(c, 5), tick(d, 5), D)
      /\ Alike(tick(skip(c, 2), 10), tick(skip(d, 2), 10), D)
      /\ Alike(tick(skip(c, 2), 11), tick(skip(d, 2), 11), D)
  BY <1>2, AlikeEnds
<1>7. OnTop(d, D) => Alike(RetIf(c, op), RetIf(d, op), D) /\ Alike(RET(c), RET(d), D)
  BY <1>2, <1>3, <1>4, <1>6, AlikeTick DEF RetIf, RET
<1>8. Byte2(d, D) => Alike(JmpIf(c, op), JmpIf(d, op), D) /\ Alike(JMP(c), JMP(d), D)
  BY <1>2, <1>3, <1>5, <1>6, AlikeTick DEF JmpIf, JMP
<1>9. Byte2(d, D) => Alike(CallIf(c, op), CallIf(d, op), D)
  <2>1. Byte2(d, D) => Alike(tick(op_call(c), 17), tick(op_call(d), 17), D)
    BY AlikeCalls, PushAlikeAlike
  <2>2. QED  BY <1>3, <1>6, <2>1 DEF CallIf
<1>10. Alike(PCHL(c), PCHL(d), D) /\ Alike(SPHL(c), SPHL(d), D)
  <2> DEFINE w == get_pair(d, HL)
  <2>1. w \in Word /\ get_pair(c, HL) = w
    BY <1>1, RegPairs, AlikePair
  <2>2. /\ PCHL(c) = tick([c EXCEPT !.pc = w], 5) /\ PCHL(d) = tick([d EXCEPT !.pc = w], 5)
        /\ SPHL(c) = tick([c EXCEPT !.sp = w], 5) /\ SPHL(d) = tick([d EXCEPT !.sp = w], 5)
    BY <2>1 DEF PCHL, SPHL
  <2> HIDE DEF w
  <2>3. Alike([c EXCEPT !.pc = w], [d EXCEPT !.pc = w], D)
        /\ Alike([c EXCEPT !.sp = w], [d EXCEPT !.sp = w], D)
    BY <2>1, AlikeField
  <2>4. QED  BY <1>2, <2>2, <2>3, AlikeTick
<1>11. QED  BY <1>3, <1>7, <1>8, <1>9, <1>10

\* Input and output, exchanges, interrupts on and off, HLT.
LEMMA AlikeOthers ==
  ASSUME NEW D, NEW c, NEW d, Alike(c, d, D)
  PROVE  /\ Alike(NOP(c), NOP(d), D) /\ Alike(XCHG(c), XCHG(d), D)
         /\ OnTop(d, D) => Alike(XTHL(c), XTHL(d), D)
         /\ Byte1(d, D) => Alike(IN_(c), IN_(d), D) /\ Alike(OUT(c), OUT(d), D)
         /\ Alike(HLT(c), HLT(d), D) /\ Alike(EI(c), EI(d), D) /\ Alike(DI(c), DI(d), D)
<1>1. /\ Sane(d) /\ c.reg = d.reg /\ c.sp = d.sp /\ c.dev = d.dev
      /\ HL \in {BC, DE, HL} /\ DE \in {BC, DE, HL}
  BY DEF Alike
<1>2. /\ 4 \in 4 .. 18 /\ 5 \in 4 .. 18 /\ 7 \in 4 .. 18 /\ 10 \in 4 .. 18
      /\ 18 \in 4 .. 18 /\ 1 \in 1 .. 2
  OBVIOUS
<1>3. /\ get_pair(d, HL) \in Word /\ get_pair(d, DE) \in Word /\ top(d) \in Word
      /\ d.sp \in Word /\ byte_at_pc(d) \in Byte /\ d.reg["a"] \in Byte
      /\ d.dev \in Device /\ "a" \in RegName
  BY <1>1, RegPairs, Stream, SaneFields DEF RegName
<1>4. get_pair(c, HL) = get_pair(d, HL) /\ get_pair(c, DE) = get_pair(d, DE)
  BY <1>1, AlikePair
<1>5. Alike(NOP(c), NOP(d), D)
  BY <1>2, AlikeTick DEF NOP
<1>6. Alike(XCHG(c), XCHG(d), D)
  <2> DEFINE c1 == set_pair(c, HL, get_pair(d, DE))
             d1 == set_pair(d, HL, get_pair(d, DE))
  <2>1. Alike(c1, d1, D)
    BY <1>1, <1>3, AlikePair
  <2>2. Alike(set_pair(c1, DE, get_pair(d, HL)), set_pair(d1, DE, get_pair(d, HL)), D)
    <3> HIDE DEF c1, d1
    <3>1. QED  BY <1>1, <1>3, <2>1, AlikePair
  <2>3. QED  BY <1>2, <1>4, <2>2, AlikeTick DEF XCHG, op_xchg
<1>7. OnTop(d, D) => Alike(XTHL(c), XTHL(d), D)
  <2> DEFINE c1 == write_word(c, d.sp, get_pair(d, HL))
             d1 == write_word(d, d.sp, get_pair(d, HL))
  <2>1. OnTop(d, D) => top(c) = top(d)
    BY AlikeStream DEF OnTop
  <2>2. Alike(c1, d1, D)
    BY <1>3, AlikeStored
  <2>3. Alike(set_pair(c1, HL, top(d)), set_pair(d1, HL, top(d)), D)
    <3> HIDE DEF c1, d1
    <3>1. QED  BY <1>1, <1>3, <2>2, AlikePair
  <2>4. QED  BY <1>1, <1>2, <1>4, <2>1, <2>3, AlikeTick DEF XTHL, op_xthl
<1>8. Byte1(d, D) => byte_at_pc(c) = byte_at_pc(d)
  BY AlikeStream DEF Byte1
<1>9. /\ IoIn(d.dev, byte_at_pc(d)) \in Byte
      /\ IoOut(d.dev, byte_at_pc(d), d.reg["a"]) \in Device
  BY <1>3, MachineAssumption DEF MachineAssumption
<1>10. Byte1(d, D) => Alike(IN_(c), IN_(d), D)
  <2> DEFINE v == IoIn(d.dev, byte_at_pc(d))
  <2>1. Byte1(d, D) => IN_(c) = tick(skip(set_reg(c, "a", v), 1), 10)
    BY <1>1, <1>8 DEF IN_
  <2>2. IN_(d) = tick(skip(set_reg(d, "a", v), 1), 10)
    BY DEF IN_
  <2>3. v \in Byte
    BY <1>9
  <2> HIDE DEF v
  <2>4. Alike(set_reg(c, "a", v), set_reg(d, "a", v), D)
    BY <1>3, <2>3, AlikeReg
  <2>5. QED  BY <1>2, <2>1, <2>2, <2>4, AlikeEnds
<1>11. Byte1(d, D) => Alike(OUT(c), OUT(d), D)
  <2> DEFINE v == IoOut(d.dev, byte_at_pc(d), d.reg["a"])
  <2>1. Byte1(d, D) => OUT(c) = tick(skip([c EXCEPT !.dev = v], 1), 10)
    BY <1>1, <1>8 DEF OUT
  <2>2. OUT(d) = tick(skip([d EXCEPT !.dev = v], 1), 10)
    BY DEF OUT
  <2>3. v \in Device
    BY <1>9
  <2> HIDE DEF v
  <2>4. Alike([c EXCEPT !.dev = v], [d EXCEPT !.dev = v], D)
    BY <2>3, AlikeField
  <2>5. QED  BY <1>2, <2>1, <2>2, <2>4, AlikeEnds
<1>12. Alike(HLT(c), HLT(d), D) /\ Alike(EI(c), EI(d), D) /\ Alike(DI(c), DI(d), D)
  <2>1. /\ Alike([c EXCEPT !.halted = TRUE], [d EXCEPT !.halted = TRUE], D)
        /\ Alike([c EXCEPT !.int_enable = TRUE], [d EXCEPT !.int_enable = TRUE], D)
        /\ Alike([c EXCEPT !.int_enable = FALSE], [d EXCEPT !.int_enable = FALSE], D)
    BY AlikeField
  <2>2. QED  BY <1>2, <2>1, AlikeTick DEF HLT, EI, DI
<1>13. QED  BY <1>5, <1>6, <1>7, <1>10, <1>11, <1>12

-----------------------------------------------------------------------------
(* What the instructions read, by their cases in i8080_exec_opcode.        *)
LEMMA Reading ==
  ASSUME NEW D, NEW d, Sane(d), NEW op \in Byte,
         \A a \in Sees(d, op) : Load(a) \notin D
  PROVE  /\ Length(op) >= 2 => Byte1(d, D)
         /\ Length(op) = 3 => Byte2(d, D)
         /\ op \in ReadsHL => AtHL(d, D)
         /\ op \in {10, 26} => Load(get_pair(d, Pair(op))) \notin D
         /\ op \in {42, 58} => Load(word_at_pc(d)) \notin D
         /\ op = 42 => Load(Up(word_at_pc(d), 1)) \notin D
         /\ op \in ReadsStack => OnTop(d, D)
<1>1. Length(op) \in 1 .. 3
  BY DEF Length
<1>2. Up(d.pc, 0) = d.pc
  BY SaneFields, WordBounds, Z3 DEF Up
<1>3. \A k \in 0 .. Length(op) - 2 : Up(d.pc, k) \in Sees(d, op)
  BY DEF Sees
<1>4. Length(op) >= 2 => Byte1(d, D)
  <2>1. Length(op) >= 2 => 0 \in 0 .. Length(op) - 2
    BY <1>1
  <2>2. QED  BY <1>2, <1>3, <2>1 DEF Byte1
<1>5. Length(op) = 3 => Byte2(d, D)
  <2>1. Length(op) = 3 => 0 \in 0 .. Length(op) - 2 /\ 1 \in 0 .. Length(op) - 2
    OBVIOUS
  <2>2. QED  BY <1>2, <1>3, <2>1 DEF Byte2
<1>6. op \in ReadsHL => AtHL(d, D)
  BY DEF Sees, AtHL
<1>7. op \in {10, 26} => Load(get_pair(d, Pair(op))) \notin D
  BY DEF Sees
<1>8. /\ op \in {42, 58} => Load(word_at_pc(d)) \notin D
      /\ op = 42 => Load(Up(word_at_pc(d), 1)) \notin D
  BY DEF Sees
<1>9. op \in ReadsStack => OnTop(d, D)
  BY DEF Sees, OnTop
<1>10. QED  BY <1>4, <1>5, <1>6, <1>7, <1>8, <1>9

\* The operands the cases read, by the sets that Sees is made of.
LEMMA Operands ==
  ASSUME NEW op \in Byte
  PROVE  /\ op < 64 /\ op % 8 \in {4, 5} /\ Dst(op) = "m" => op \in ReadsHL
         /\ op \in 64 .. 191 /\ op # 118 /\ Src(op) = "m" => op \in ReadsHL
         /\ op >= 192 /\ op % 8 = 0 => op \in ReadsStack
         /\ op >= 192 /\ op % 16 = 1 => op \in ReadsStack
         /\ op \in {201, 217, 227} => op \in ReadsStack
         /\ op \in {195, 203, 205, 221, 237, 253} => Length(op) = 3
<1>1. op \in Int /\ 0 <= op /\ op < 256
  BY ByteBounds
<1>2. Src(op) = "m" => op % 8 = 6
  BY SameNames
<1>3. Dst(op) = "m" => (op \div 8) % 8 = 6
  BY SameNames
<1>4. op < 64 /\ op % 8 \in {4, 5} /\ (op \div 8) % 8 = 6 => op \in {52, 53}
  BY <1>1, Z3
<1>5. op < 64 /\ op % 8 \in {4, 5} /\ Dst(op) = "m" => op \in ReadsHL
  BY <1>3, <1>4 DEF ReadsHL
<1>6. op \in 64 .. 191 /\ op # 118 /\ Src(op) = "m" => op \in ReadsHL
  BY <1>2 DEF ReadsHL
<1>7. /\ op >= 192 /\ op % 8 = 0 => op \in ReadsStack
      /\ op >= 192 /\ op % 16 = 1 => op \in ReadsStack
      /\ op \in {201, 217, 227} => op \in ReadsStack
  BY <1>1 DEF ReadsStack
<1>8. op \in {195, 203, 205, 221, 237, 253} => Length(op) = 3
  BY DEF Length, ThreeBytes
<1>9. QED  BY <1>5, <1>6, <1>7, <1>8

\* Opcodes 0x00 .. 0x3f.
LEMMA AlikeLow ==
  ASSUME NEW D, NEW c, NEW d, Alike(c, d, D), NEW op \in Byte, op < 64,
         \A a \in Sees(d, op) : Load(a) \notin D
  PROVE  Alike(i8080_exec_opcode(c, op), i8080_exec_opcode(d, op), D)
<1>1. op \in Int /\ 0 <= op /\ Sane(d)
  BY ByteBounds DEF Alike
<1>2. /\ op % 16 = 1 => Byte2(d, D)
      /\ op % 8 = 6 => Byte1(d, D)
      /\ op \in {34, 50, 42, 58} => Byte2(d, D)
      /\ op % 8 \in {4, 5} /\ Dst(op) = "m" => AtHL(d, D)
      /\ op \in {10, 26} => Load(get_pair(d, Pair(op))) \notin D
      /\ op \in {42, 58} => Load(word_at_pc(d)) \notin D
      /\ op = 42 => Load(Up(word_at_pc(d), 1)) \notin D
  <2>1. /\ op % 16 = 1 => Length(op) = 3
        /\ op % 8 = 6 => Length(op) = 2
        /\ op \in {34, 50, 42, 58} => Length(op) = 3
    BY Lengths
  <2>2. op % 8 \in {4, 5} /\ Dst(op) = "m" => op \in ReadsHL
    BY Operands
  <2>3. QED  BY <1>1, <2>1, <2>2, Reading
<1>3. /\ Byte1(d, D) => Alike(MVI(c, op), MVI(d, op), D)
      /\ Byte2(d, D) => Alike(LXI(c, op), LXI(d, op), D)
      /\ Alike(INX(c, op), INX(d, op), D) /\ Alike(DCX(c, op), DCX(d, op), D)
  BY AlikeMoves
<1>4. /\ Alike(STAX(c, op), STAX(d, op), D)
      /\ Load(get_pair(d, Pair(op))) \notin D => Alike(LDAX(c, op), LDAX(d, op), D)
      /\ Byte2(d, D) => Alike(STA(c), STA(d), D) /\ Alike(SHLD(c), SHLD(d), D)
      /\ Byte2(d, D) /\ Load(word_at_pc(d)) \notin D => Alike(LDA(c), LDA(d), D)
      /\ Byte2(d, D) /\ Load(word_at_pc(d)) \notin D /\ Load(Up(word_at_pc(d), 1)) \notin D
           => Alike(LHLD(c), LHLD(d), D)
  BY AlikeLoads
<1>5. /\ (Dst(op) = "m" => AtHL(d, D)) =>
           Alike(INR(c, op), INR(d, op), D) /\ Alike(DCR(c, op), DCR(d, op), D)
      /\ Alike(DAD(c, op), DAD(d, op), D) /\ Alike(Accumulate(c, op), Accumulate(d, op), D)
      /\ Alike(NOP(c), NOP(d), D)
  BY AlikeArithmetic, AlikeOthers
<1>6. QED
  BY <1>1, <1>2, <1>3, <1>4, <1>5, Covered DEF i8080_exec_opcode

\* Opcodes 0x40 .. 0xbf.
LEMMA AlikeMiddle ==
  ASSUME NEW D, NEW c, NEW d, Alike(c, d, D), NEW op \in Byte, op \in 64 .. 191,
         \A a \in Sees(d, op) : Load(a) \notin D
  PROVE  Alike(i8080_exec_opcode(c, op), i8080_exec_opcode(d, op), D)
<1>1. op \in Int /\ Sane(d)
  BY ByteBounds DEF Alike
<1>2. op # 118 /\ Src(op) = "m" => AtHL(d, D)
  BY <1>1, Operands, Reading
<1>3. /\ (Src(op) = "m" => AtHL(d, D)) => Alike(MOV(c, op), MOV(d, op), D)
      /\ (Src(op) = "m" => AtHL(d, D)) => Alike(AluRegister(c, op), AluRegister(d, op), D)
      /\ Alike(HLT(c), HLT(d), D)
  BY AlikeMoves, AlikeArithmetic, AlikeOthers
<1>4. QED
  BY <1>1, <1>2, <1>3 DEF i8080_exec_opcode

\* Opcodes 0xc0 .. 0xff.
LEMMA AlikeHigh ==
  ASSUME NEW D, NEW c, NEW d, Alike(c, d, D), NEW op \in Byte, op >= 192,
         \A a \in Sees(d, op) : Load(a) \notin D
  PROVE  Alike(i8080_exec_opcode(c, op), i8080_exec_opcode(d, op), D)
<1>1. op \in Int /\ op < 256 /\ Sane(d)
  BY ByteBounds DEF Alike
<1>2. /\ op % 8 \in {2, 4} => Byte2(d, D)
      /\ op \in {195, 203, 205, 221, 237, 253} => Byte2(d, D)
      /\ op % 8 = 6 \/ op \in {211, 219} => Byte1(d, D)
      /\ op % 8 = 0 \/ op % 16 = 1 \/ op \in {201, 217, 227} => OnTop(d, D)
  BY <1>1, Lengths, Operands, Reading
<1>3. /\ OnTop(d, D) => Alike(POP(c, op), POP(d, op), D)
      /\ Alike(PUSH(c, op), PUSH(d, op), D)
      /\ Byte2(d, D) => Alike(CALL(c), CALL(d), D)
      /\ Alike(RST(c, op), RST(d, op), D)
  BY AlikeStack, AlikeCalls, PushAlikeAlike
<1>4. /\ OnTop(d, D) => Alike(RetIf(c, op), RetIf(d, op), D) /\ Alike(RET(c), RET(d), D)
      /\ Byte2(d, D) => Alike(JmpIf(c, op), JmpIf(d, op), D) /\ Alike(JMP(c), JMP(d), D)
      /\ Byte2(d, D) => Alike(CallIf(c, op), CallIf(d, op), D)
      /\ Alike(PCHL(c), PCHL(d), D) /\ Alike(SPHL(c), SPHL(d), D)
  BY AlikeBranches
<1>5. /\ Alike(XCHG(c), XCHG(d), D)
      /\ OnTop(d, D) => Alike(XTHL(c), XTHL(d), D)
      /\ Byte1(d, D) => Alike(IN_(c), IN_(d), D) /\ Alike(OUT(c), OUT(d), D)
      /\ Alike(EI(c), EI(d), D) /\ Alike(DI(c), DI(d), D)
      /\ Byte1(d, D) => Alike(AluImmediate(c, op), AluImmediate(d, op), D)
  BY AlikeOthers, AlikeArithmetic
<1>6. QED
  BY <1>1, <1>2, <1>3, <1>4, <1>5, Covered DEF i8080_exec_opcode

(* No opcode, reading nothing of D, tells two contexts apart that are      *)
(* alike but for D.                                                        *)
LEMMA AlikeExecutes ==
  ASSUME NEW D, NEW c, NEW d, Alike(c, d, D), NEW op \in Byte,
         \A a \in Sees(d, op) : Load(a) \notin D
  PROVE  Alike(i8080_exec_opcode(c, op), i8080_exec_opcode(d, op), D)
<1>1. op < 64 \/ op \in 64 .. 191 \/ op >= 192
  BY ByteBounds
<1>2. QED
  BY <1>1, AlikeLow, AlikeMiddle, AlikeHigh

(* And an opcode that pushes makes the cells it pushes to alike.           *)
LEMMA PushingExecutes ==
  ASSUME NEW D, NEW c, NEW d, Alike(c, d, D), NEW op \in Byte, op \in Pushing,
         \A a \in Sees(d, op) : Load(a) \notin D
  PROVE  LET e == i8080_exec_opcode(d, op)
         IN  e.sp = d.sp \/ PushAlike(i8080_exec_opcode(c, op), e, D, d.sp)
<1>1. op \in Int /\ 192 <= op /\ op < 256 /\ Sane(d)
  BY ByteBounds DEF Alike, Pushing
<1>2. op % 16 = 5 \/ op % 8 \in {4, 7} \/ op \in {205, 221, 237, 253}
  BY DEF Pushing
<1>3. /\ op % 8 = 4 => Byte2(d, D)
      /\ op \in {205, 221, 237, 253} => Byte2(d, D)
  BY <1>1, Lengths, Operands, Reading
<1>4. /\ PushAlike(PUSH(c, op), PUSH(d, op), D, d.sp)
      /\ Byte2(d, D) => PushAlike(CALL(c), CALL(d), D, d.sp)
      /\ PushAlike(RST(c, op), RST(d, op), D, d.sp)
  BY AlikeStack, AlikeCalls
<1>5. Byte2(d, D) => \/ CallIf(d, op).sp = d.sp
                     \/ PushAlike(CallIf(c, op), CallIf(d, op), D, d.sp)
  <2>1. tick(skip(d, 2), 11).sp = d.sp
    BY <1>1 DEF tick, skip, Sane, Ctx
  <2>2. Condition(c, op) = Condition(d, op)
    BY DEF Alike, Condition
  <2>3. Byte2(d, D) => PushAlike(tick(op_call(c), 17), tick(op_call(d), 17), D, d.sp)
    BY AlikeCalls
  <2>4. QED  BY <2>1, <2>2, <2>3 DEF CallIf
<1>6. QED
  BY <1>1, <1>2, <1>3, <1>4, <1>5 DEF i8080_exec_opcode

-----------------------------------------------------------------------------
(* The instructions of a handler.  What ruins the status leaves everything *)
(* but the accumulator and the flags.                                      *)
SparesRest(d, c) ==
  /\ \A r \in RegName \ {"a"} : d.reg[r] = c.reg[r]
  /\ d.sp = c.sp /\ d.pc = c.pc /\ d.mem = c.mem /\ d.dev = c.dev
  /\ d.int_enable = c.int_enable

\* The helpers that write the accumulator and the flags only.
LEMMA Spares ==
  ASSUME NEW c, c \in Ctx, NEW n
  PROVE  /\ SparesRest(tick(c, n), c)
         /\ \A v : SparesRest(tick(set_reg(c, "a", v), n), c)
         /\ \A v, f : SparesRest(tick([set_reg(c, "a", v) EXCEPT !.f = f], n), c)
<1>1. SparesRest(tick(c, n), c)
  BY DEF SparesRest, tick, Ctx
<1>2. ASSUME NEW v PROVE SparesRest(tick(set_reg(c, "a", v), n), c)
  BY DEF SparesRest, tick, set_reg, Ctx
<1>3. ASSUME NEW v, NEW f PROVE SparesRest(tick([set_reg(c, "a", v) EXCEPT !.f = f], n), c)
  BY DEF SparesRest, tick, set_reg, Ctx
<1>4. QED  BY <1>1, <1>2, <1>3

\* The opcodes of AccumulatorOnly by the cases of the switch.
LEMMA SpoilerCases ==
  ASSUME NEW op \in AccumulatorOnly
  PROVE  /\ op \in Byte /\ op < 192
         /\ \/ op < 64 /\ op % 8 = 0
            \/ op < 64 /\ op % 8 = 7
            \/ op \in {10, 26, 60, 61}
            \/ op \in 120 .. 127
            \/ op \in 128 .. 191
         /\ op \in {60, 61} \union 120 .. 127 => Dst(op) = "a"
         /\ op # 118 /\ Length(op) = 1
<1>1. op \in Byte /\ op < 192
  BY ByteBounds DEF AccumulatorOnly
<1>2. \/ op < 64 /\ op % 8 = 0
      \/ op < 64 /\ op % 8 = 7
      \/ op \in {10, 26, 60, 61}
      \/ op \in 120 .. 127
      \/ op \in 128 .. 191
  BY DEF AccumulatorOnly
<1>3. op \in {60, 61} \union 120 .. 127 => (op \div 8) % 8 = 7
  BY Z3
<1>4. op \in {60, 61} \union 120 .. 127 => Dst(op) = "a"
  BY <1>3 DEF Dst, R8
<1>5. op # 118
  BY <1>2
<1>6. Length(op) = 1
  BY <1>1, <1>2, Lengths
<1>7. QED  BY <1>1, <1>2, <1>4, <1>5, <1>6

\* A body of a handler spares everything else.
LEMMA SpoilStep ==
  ASSUME NEW c, Sane(c), NEW op \in AccumulatorOnly
  PROVE  SparesRest(i8080_exec_opcode(c, op), c)
<1>1. c \in Ctx
  BY DEF Sane
<1>2. op \in Int
  BY SpoilerCases, ByteBounds
<1>3. /\ SparesRest(NOP(c), c) /\ SparesRest(Accumulate(c, op), c)
      /\ SparesRest(AluRegister(c, op), c) /\ SparesRest(LDAX(c, op), c)
  BY <1>1, Spares DEF NOP, Accumulate, AluRegister, LDAX, set_af
<1>4. Dst(op) = "a" => /\ SparesRest(INR(c, op), c) /\ SparesRest(DCR(c, op), c)
                       /\ SparesRest(MOV(c, op), c)
  BY <1>1, Spares DEF INR, DCR, MOV, set_r8
<1>5. QED
  BY <1>2, <1>3, <1>4, SpoilerCases DEF i8080_exec_opcode

(* A push changes the two cells it writes and the stack pointer.           *)
LEMMA PushElsewhere ==
  ASSUME NEW c, Sane(c), NEW w \in Word
  PROVE  LET d == push_word(c, w)
         IN  /\ \A x \in Cell \ Pushed2(c.sp) : d.mem[x] = c.mem[x]
             /\ d.dev = c.dev /\ d.int_enable = c.int_enable
<1> DEFINE s == Down(c.sp, 2)
           b == [c EXCEPT !.sp = s]
           e == write_byte(b, s, lo(w))
           d == write_byte(e, Up(s, 1), hi(w))
<1>1. s \in Word /\ Up(s, 1) \in Word
  BY SaneFields, Packing, 1 \in 0 .. 2, 2 \in 0 .. 2
<1>2. /\ Sane(b) /\ b.mem = c.mem /\ b.dev = c.dev /\ b.int_enable = c.int_enable
      /\ b.sp = s
  BY <1>1 DEF Sane, Ctx
<1>3. push_word(c, w) = d
  <2>1. push_word(c, w) = write_word(b, b.sp, w)
    BY DEF push_word
  <2> HIDE DEF b
  <2>2. QED  BY <1>2, <2>1 DEF write_word
<1>4. ASSUME NEW a, Sane(a), NEW address \in Word, NEW v \in Byte
      PROVE  LET z == write_byte(a, address, v)
             IN  /\ \A x \in Cell : x # Store(address) => z.mem[x] = a.mem[x]
                 /\ z.dev = a.dev /\ z.int_enable = a.int_enable /\ Sane(z)
  <2>1. Sane(write_byte(a, address, v))
    BY <1>4, WriteByte DEF Follows
  <2>2. a.mem \in [Cell -> Byte]
    BY <1>4, SaneFields
  <2>3. QED  BY <1>4, <2>1, <2>2 DEF write_byte, Sane, Ctx
<1> HIDE DEF b
<1>5. /\ \A x \in Cell : x # Store(s) => e.mem[x] = b.mem[x]
      /\ e.dev = b.dev /\ e.int_enable = b.int_enable /\ Sane(e)
  BY <1>1, <1>2, <1>4, Packing
<1> HIDE DEF e
<1>6. Pushed2(c.sp) = {Store(s), Store(Up(s, 1))}
  BY DEF Pushed2
<1> HIDE DEF s
<1>7. /\ \A x \in Cell : x # Store(Up(s, 1)) => d.mem[x] = e.mem[x]
      /\ d.dev = e.dev /\ d.int_enable = e.int_enable
  <2>1. hi(w) \in Byte /\ Sane(e)
    BY <1>5, Packing
  <2>2. QED  BY <1>1, <1>4, <2>1
<1> HIDE DEF d
<1>8. \A x \in Cell \ Pushed2(c.sp) : d.mem[x] = c.mem[x]
  BY <1>2, <1>5, <1>6, <1>7
<1>9. d.dev = c.dev /\ d.int_enable = c.int_enable
  BY <1>2, <1>5, <1>7
<1>10. QED  BY <1>3, <1>8, <1>9

\* What d has of c once the word w is pushed, the program counter aside.
Pushes(d, c, w) ==
  /\ d.reg = c.reg /\ d.f = c.f /\ d.sp = Down(c.sp, 2)
  /\ d.dev = c.dev /\ d.int_enable = c.int_enable
  /\ \A x \in Cell \ Pushed2(c.sp) : d.mem[x] = c.mem[x]
  /\ PushInRAM(c) => top(d) = w

\* A push, alone or before a jump, as the handlers and restarts make it.
LEMMA PushesWord ==
  ASSUME NEW c, Sane(c), NEW w \in Word, NEW n
  PROVE  /\ Pushes(tick(push_word(c, w), n), c, w)
         /\ tick(push_word(c, w), n).pc = c.pc
         /\ \A to : /\ Pushes(tick([push_word(c, w) EXCEPT !.pc = to], n), c, w)
                    /\ tick([push_word(c, w) EXCEPT !.pc = to], n).pc = to
<1> DEFINE b == push_word(c, w)
<1>1. Pushes(b, c, w) /\ b.pc = c.pc
  BY PushedFields, PushElsewhere, Pushed DEF Pushes
<1>2. b \in Ctx
  BY Push DEF Follows, Sane
<1> HIDE DEF b
<1>3. ASSUME NEW d, d.reg = b.reg, d.f = b.f, d.sp = b.sp, d.dev = b.dev, d.mem = b.mem,
             d.int_enable = b.int_enable
      PROVE  Pushes(d, c, w)
  <2>1. top(d) = top(b)
    BY <1>3 DEF top, read_word, read_byte
  <2>2. QED  BY <1>1, <1>3, <2>1 DEF Pushes
<1>4. Pushes(tick(b, n), c, w) /\ tick(b, n).pc = c.pc
  <2> DEFINE d == tick(b, n)
  <2>1. /\ d.reg = b.reg /\ d.f = b.f /\ d.sp = b.sp /\ d.dev = b.dev /\ d.mem = b.mem
        /\ d.int_enable = b.int_enable /\ d.pc = b.pc
    BY <1>2 DEF tick, Ctx
  <2> HIDE DEF d
  <2>2. Pushes(d, c, w) /\ d.pc = c.pc
    BY <1>1, <1>3, <2>1
  <2>3. QED  BY <2>2 DEF d
<1>5. ASSUME NEW to
      PROVE  /\ Pushes(tick([b EXCEPT !.pc = to], n), c, w)
             /\ tick([b EXCEPT !.pc = to], n).pc = to
  <2> DEFINE d == tick([b EXCEPT !.pc = to], n)
  <2>1. /\ d.reg = b.reg /\ d.f = b.f /\ d.sp = b.sp /\ d.dev = b.dev /\ d.mem = b.mem
        /\ d.int_enable = b.int_enable /\ d.pc = to
    BY <1>2 DEF tick, Ctx
  <2> HIDE DEF d
  <2>2. Pushes(d, c, w)
    BY <1>3, <2>1
  <2>3. QED  BY <2>1, <2>2 DEF d
<1>6. QED  BY <1>1, <1>2, <1>4, <1>5 DEF b

(* A fetched opcode: only the program counter has moved.                   *)
LEMMA Fetched ==
  ASSUME NEW c, Sane(c)
  PROVE  LET b == skip(c, 1)
         IN  /\ Sane(b) /\ b.reg = c.reg /\ b.f = c.f /\ b.sp = c.sp
             /\ b.pc = Up(c.pc, 1) /\ b.mem = c.mem /\ b.dev = c.dev
             /\ b.int_enable = c.int_enable /\ top(b) = top(c)
<1> DEFINE b == skip(c, 1)
<1>1. /\ Sane(b) /\ b.reg = c.reg /\ b.f = c.f /\ b.sp = c.sp
      /\ b.pc = Up(c.pc, 1) /\ b.mem = c.mem /\ b.dev = c.dev
      /\ b.int_enable = c.int_enable
  BY Stream, 1 \in 0 .. 2 DEF Follows, skip, Sane, Ctx
<1> HIDE DEF b
<1>2. top(b) = top(c)
  BY <1>1 DEF top, read_word, read_byte
<1>3. QED  BY <1>1, <1>2 DEF b

(* PUSH PSW at the start of a handler, and the restart that leads to it.   *)
LEMMA PushPswStep ==
  ASSUME NEW c, Sane(c)
  PROVE  LET d == i8080_exec_opcode(skip(c, 1), \hf5)
         IN  Pushes(d, c, get_psw(c)) /\ d.pc = Up(c.pc, 1)
<1> DEFINE b == skip(c, 1)
           w == get_psw(b)
           d == tick(push_word(b, w), 11)
<1>1. /\ Sane(b) /\ b.reg = c.reg /\ b.f = c.f /\ b.sp = c.sp
      /\ b.pc = Up(c.pc, 1) /\ b.mem = c.mem /\ b.dev = c.dev
      /\ b.int_enable = c.int_enable
  BY Fetched
<1> HIDE DEF b
<1>2. w \in Word /\ w = get_psw(c)
  BY <1>1, Psw DEF get_psw
<1>3. i8080_exec_opcode(b, \hf5) = d
  <2>1. Row(\hf5) = 3
    BY DEF Row
  <2>2. PUSH(b, \hf5) = d
    BY <1>1, <2>1, NothingToFix DEF PUSH
  <2>3. QED  BY <2>2 DEF i8080_exec_opcode
<1>4. Pushes(d, b, w) /\ d.pc = b.pc
  BY <1>1, <1>2, PushesWord
<1>5. PushInRAM(b) <=> PushInRAM(c)
  BY <1>1 DEF PushInRAM
<1> HIDE DEF d, w
<1>6. Pushes(d, c, get_psw(c)) /\ d.pc = Up(c.pc, 1)
  BY <1>1, <1>2, <1>4, <1>5 DEF Pushes
<1>7. QED  BY <1>3, <1>6 DEF b

\* The restart that leads to a handler.
LEMMA RstStep ==
  ASSUME NEW c, Sane(c), NEW v \in 0 .. 7
  PROVE  LET d == i8080_exec_opcode(c, \hc7 + 8 * v)
         IN  Pushes(d, c, c.pc) /\ d.pc = 8 * v
<1> DEFINE op == \hc7 + 8 * v
<1>1. op % 8 = 7 /\ op >= 192 /\ op < 256 /\ op \in Int /\ 8 * ((op \div 8) % 8) = 8 * v
  BY Z3
<1>2. op \notin {195, 203, 211, 219, 227, 235, 243, 251, 201, 217, 233, 249,
                 205, 221, 237, 253} /\ op % 16 # 1 /\ op % 16 # 5
  BY <1>1, Z3
<1> HIDE DEF op
<1>3. i8080_exec_opcode(c, op) = RST(c, op)
  BY <1>1, <1>2 DEF i8080_exec_opcode
<1>4. RST(c, op) = tick([push_word(c, c.pc) EXCEPT !.pc = 8 * v], 11)
  BY <1>1 DEF RST, op_rst
<1>5. c.pc \in Word
  BY SaneFields
<1>6. QED  BY <1>3, <1>4, <1>5, PushesWord DEF op

\* What d has of c but for registers, flags, stack pointer and interrupt
\* enable, one instruction further.
StepsOn(d, c) == d.pc = Up(c.pc, 1) /\ d.mem = c.mem /\ d.dev = c.dev

\* POP PSW brings back the status of k that was pushed.
LEMMA PopPswStep ==
  ASSUME NEW c, Sane(c), NEW k, Sane(k), top(c) = get_psw(k),
         \A r \in RegName \ {"a"} : c.reg[r] = k.reg[r]
  PROVE  LET d == i8080_exec_opcode(skip(c, 1), \hf1)
         IN  /\ StepsOn(d, c) /\ d.int_enable = c.int_enable
             /\ d.reg = k.reg /\ d.f = k.f /\ d.sp = Up(c.sp, 2)
<1> DEFINE b == skip(c, 1)
           w == top(b)
           e == drop(b)
           g == FixFlags(set_psw(e, w))
<1>1. /\ Sane(b) /\ b.reg = c.reg /\ b.sp = c.sp /\ b.pc = Up(c.pc, 1) /\ b.mem = c.mem
      /\ b.dev = c.dev /\ b.int_enable = c.int_enable /\ top(b) = top(c)
  BY Fetched
<1> HIDE DEF b
<1>2. i8080_exec_opcode(b, \hf1) = tick(g, 10)
  <2>1. Row(\hf1) = 3
    BY DEF Row
  <2>2. POP(b, \hf1) = tick(g, 10)
    BY <2>1 DEF POP
  <2>3. QED  BY <2>2 DEF i8080_exec_opcode
<1>3. /\ Sane(e) /\ e \in Ctx /\ e.reg = c.reg /\ e.sp = Up(c.sp, 2) /\ e.pc = Up(c.pc, 1)
      /\ e.mem = c.mem /\ e.dev = c.dev /\ e.int_enable = c.int_enable
  BY <1>1, Stream DEF Follows, drop, Sane, Ctx
<1>4. w = get_psw(k)
  BY <1>1
<1> HIDE DEF e, w
<1>5. /\ k.reg \in [RegName -> Byte] /\ k.reg["a"] \in Byte /\ "a" \in RegName
      /\ k.f \in SUBSET (0 .. 7) /\ GoodFlags(k.f)
  BY DEF Sane, Ctx, RegName
<1>6. hi(w) = k.reg["a"] /\ lo(w) = ByteOf(k.f)
  BY <1>4, <1>5, ByteOfIsByte, PackUnpack DEF get_psw
<1>7. Bits(lo(w)) = k.f
  BY <1>5, <1>6, BitsOfByte
<1>8. /\ g \in Ctx /\ g.reg = [e.reg EXCEPT !["a"] = hi(w)] /\ g.sp = e.sp /\ g.pc = e.pc
      /\ g.f = (Bits(lo(w)) \union FixedOnes) \ FixedZeros
      /\ g.mem = e.mem /\ g.dev = e.dev /\ g.int_enable = e.int_enable
  <2>1. g \in Ctx
    BY <1>3, <1>4, Psw, PopPsw DEF Follows, Sane
  <2>2. /\ g.reg = [e.reg EXCEPT !["a"] = hi(w)] /\ g.sp = e.sp /\ g.pc = e.pc
        /\ g.f = (Bits(lo(w)) \union FixedOnes) \ FixedZeros
        /\ g.mem = e.mem /\ g.dev = e.dev /\ g.int_enable = e.int_enable
    BY <1>3 DEF FixFlags, set_psw, set_af, set_reg, Ctx
  <2>3. QED  BY <2>1, <2>2
<1>9. (k.f \union FixedOnes) \ FixedZeros = k.f
  BY <1>5 DEF GoodFlags
<1>10. [e.reg EXCEPT !["a"] = hi(w)] = k.reg
  BY <1>3, <1>5, <1>6 DEF Ctx
<1> HIDE DEF g
<1>11. LET d == tick(g, 10)
       IN  /\ d.reg = g.reg /\ d.f = g.f /\ d.sp = g.sp /\ d.pc = g.pc /\ d.mem = g.mem
           /\ d.dev = g.dev /\ d.int_enable = g.int_enable
  BY <1>8 DEF tick, Ctx
<1>12. QED
  BY <1>2, <1>3, <1>7, <1>8, <1>9, <1>10, <1>11 DEF StepsOn, b

\* EI.
LEMMA EiStep ==
  ASSUME NEW c, Sane(c)
  PROVE  LET d == i8080_exec_opcode(skip(c, 1), \hfb)
         IN  /\ StepsOn(d, c) /\ d.int_enable
             /\ d.reg = c.reg /\ d.f = c.f /\ d.sp = c.sp
<1> DEFINE b == skip(c, 1)
<1>1. /\ Sane(b) /\ b.reg = c.reg /\ b.f = c.f /\ b.sp = c.sp /\ b.pc = Up(c.pc, 1)
      /\ b.mem = c.mem /\ b.dev = c.dev
  BY Fetched
<1> HIDE DEF b
<1>2. LET d == EI(b)
      IN  /\ d.int_enable /\ d.reg = b.reg /\ d.f = b.f /\ d.sp = b.sp /\ d.pc = b.pc
          /\ d.mem = b.mem /\ d.dev = b.dev
  BY <1>1 DEF EI, tick, Sane, Ctx
<1>3. i8080_exec_opcode(b, \hfb) = EI(b)
  BY ControlOpcodes
<1>4. QED  BY <1>1, <1>2, <1>3 DEF StepsOn, b

\* RET.
LEMMA RetLeaves ==
  ASSUME NEW c, Sane(c)
  PROVE  LET d == i8080_exec_opcode(skip(c, 1), \hc9)
         IN  /\ d.reg = c.reg /\ d.f = c.f /\ d.sp = Up(c.sp, 2) /\ d.pc = top(c)
             /\ d.mem = c.mem /\ d.dev = c.dev /\ d.int_enable = c.int_enable
<1> DEFINE b == skip(c, 1)
<1>1. /\ b \in Ctx /\ b.mem = c.mem /\ b.dev = c.dev /\ b.int_enable = c.int_enable
  BY Fetched DEF Sane
<1>2. i8080_exec_opcode(b, \hc9) = RET(b)
  BY DEF i8080_exec_opcode
<1>3. /\ RET(b).reg = c.reg /\ RET(b).f = c.f /\ RET(b).sp = Up(c.sp, 2)
      /\ RET(b).pc = top(c)
  BY RetStep
<1> HIDE DEF b
<1>4. RET(b).mem = b.mem /\ RET(b).dev = b.dev /\ RET(b).int_enable = b.int_enable
  BY <1>1 DEF RET, op_ret, drop, tick, Ctx
<1>5. QED  BY <1>1, <1>2, <1>3, <1>4 DEF b

-----------------------------------------------------------------------------
(* The stack of a program that leaves room: the words of the handlers are  *)
(* RAM, below its stack pointer, and do not overlap.                       *)
LEMMA RoomFor ==
  ASSUME Sane(shadow), Room, shadow.int_enable, NEW j \in 1 .. MaxLevel + 1
  PROVE  LET s == shadow.sp - 2 * j
         IN  /\ s \in StackRAM /\ s + 1 \in StackRAM /\ s \in Word /\ s + 1 \in Word
             /\ s + 2 \in Word
             /\ Load(s) \in Below(shadow.sp) /\ Load(s + 1) \in Below(shadow.sp)
<1> DEFINE s == shadow.sp - 2 * j
<1>1. /\ MaxLevel \in Nat /\ StackLow \in Int /\ StackHigh \in Int
      /\ 0 <= StackLow /\ StackHigh < 65536
  BY InterruptAssumption, WordBounds DEF InterruptAssumption
<1>2. shadow.sp \in Int /\ 0 <= shadow.sp /\ shadow.sp < 65536
  BY SaneFields, WordBounds
<1>3. StackLow <= shadow.sp - 2 * MaxLevel - 2 /\ shadow.sp - 1 <= StackHigh
  BY DEF Room
<1>4. j \in Int /\ 1 <= j /\ j <= MaxLevel + 1
  BY <1>1
<1>5. /\ s \in Int /\ StackLow <= s /\ s + 1 <= StackHigh /\ s + 2 <= shadow.sp
  BY <1>1, <1>2, <1>3, <1>4
<1> HIDE DEF s
<1>6. s \in StackRAM /\ s + 1 \in StackRAM
  BY <1>1, <1>5 DEF StackRAM
<1>7. s \in Word /\ s + 1 \in Word /\ s + 2 \in Word
  BY <1>1, <1>2, <1>5, WordBounds
<1>8. s < shadow.sp /\ s + 1 < shadow.sp
  BY <1>2, <1>5
<1>9. Load(s) \in Below(shadow.sp) /\ Load(s + 1) \in Below(shadow.sp)
  BY <1>6, <1>8 DEF Below
<1>10. QED  BY <1>6, <1>7, <1>9 DEF s

\* An address of the stack area has a cell of its own.
LEMMA StackCells ==
  ASSUME NEW x \in StackRAM
  PROVE  /\ Load(x) \in Cell /\ Store(x) = Load(x) /\ x \in Word
         /\ \A y \in StackRAM : Load(x) = Load(y) => x = y
<1>1. x \in Word
  BY InterruptAssumption, WordBounds DEF InterruptAssumption, StackRAM
<1>2. Load(x) # NoCell /\ Store(x) = Load(x)
  BY InterruptAssumption DEF InterruptAssumption, RAM
<1>3. Load(x) \in Cell
  BY <1>1, <1>2, MachineAssumption DEF MachineAssumption
<1>4. \A y \in StackRAM : Load(x) = Load(y) => x = y
  BY InterruptAssumption DEF InterruptAssumption
<1>5. QED  BY <1>1, <1>2, <1>3, <1>4

\* A push into the stack area lands there.
LEMMA PushRoom ==
  ASSUME NEW c, Sane(c), NEW s \in StackRAM, s + 1 \in StackRAM, c.sp = s + 2
  PROVE  /\ Down(c.sp, 2) = s /\ PushInRAM(c)
         /\ Pushed2(c.sp) = {Load(s), Load(s + 1)}
<1>1. s \in Word /\ s + 1 \in Word /\ c.sp \in Word
  BY StackCells, SaneFields
<1>2. Down(c.sp, 2) = s
  BY <1>1, WordBounds, Z3 DEF Down
<1>3. Up(s, 1) = s + 1
  BY <1>1, WordBounds, Z3 DEF Up
<1>4. Load(s) # Load(s + 1)
  <2>1. s # s + 1
    BY <1>1, WordBounds
  <2>2. QED  BY <2>1, StackCells
<1>5. RAM(s) /\ RAM(s + 1)
  BY InterruptAssumption DEF InterruptAssumption
<1>6. Store(s) = Load(s) /\ Store(s + 1) = Load(s + 1)
  BY StackCells
<1>7. QED
  BY <1>2, <1>3, <1>4, <1>5, <1>6 DEF PushInRAM, Pushed2

\* It leaves the words above it alone.
LEMMA WordKept ==
  ASSUME NEW c, NEW d, NEW s \in StackRAM, s + 1 \in StackRAM,
         \A x \in Cell \ {Load(s), Load(s + 1)} : d.mem[x] = c.mem[x],
         NEW t \in StackRAM, t + 1 \in StackRAM, t >= s + 2
  PROVE  read_word(d, t) = read_word(c, t)
<1>1. s \in Int /\ t \in Word /\ t + 1 \in Word
  BY StackCells, WordBounds
<1>2. Up(t, 1) = t + 1
  BY <1>1, WordBounds, Z3 DEF Up
<1>3. t # s /\ t # s + 1 /\ t + 1 # s /\ t + 1 # s + 1
  BY <1>1, WordBounds
<1>4. /\ Load(t) \in Cell \ {Load(s), Load(s + 1)}
      /\ Load(t + 1) \in Cell \ {Load(s), Load(s + 1)}
  BY <1>3, StackCells
<1>5. QED
  BY <1>2, <1>4 DEF read_word, read_byte

(* The bytes of the handlers stay, and are what is fetched there.          *)
LEMMA HandlersStay ==
  ASSUME Sane(ctx), [Next]_ctx, NEW v \in Vectors, HandlerAt(ctx.mem, v)
  PROVE  HandlerAt(ctx.mem, v)'
<1>1. SameRom(ctx', ctx)
  BY EveryStep
<1>2. \A k \in 0 .. Size - 1 : ctx'.mem[Load(8 * v + k)] = ctx.mem[Load(8 * v + k)]
  BY <1>1, InterruptAssumption DEF InterruptAssumption, SameRom
<1>3. Size \in 4 .. 8
  BY InterruptAssumption DEF InterruptAssumption
<1>4. /\ 0 \in 0 .. Size - 1 /\ Size - 3 \in 0 .. Size - 1 /\ Size - 2 \in 0 .. Size - 1
      /\ Size - 1 \in 0 .. Size - 1 /\ \A k \in 1 .. Size - 4 : k \in 0 .. Size - 1
  BY <1>3
<1>5. QED  BY <1>2, <1>4 DEF HandlerAt

\* What is fetched inside a handler.
LEMMA HandlerByte ==
  ASSUME Sane(ctx), NEW v \in Vectors, HandlerAt(ctx.mem, v),
         NEW k \in 0 .. Size - 1, ctx.pc = 8 * v + k
  PROVE  LET op == byte_at_pc(ctx)
         IN  /\ k = 0 => op = \hf5
             /\ k \in 1 .. Size - 4 => op \in AccumulatorOnly
             /\ k = Size - 3 => op = \hf1
             /\ k = Size - 2 => op = \hfb
             /\ k = Size - 1 => op = \hc9
             /\ Up(ctx.pc, 1) = 8 * v + (k + 1)
<1>1. v \in 0 .. 7 /\ Size \in 4 .. 8 /\ Load(8 * v + k) \in ReadOnly
  BY InterruptAssumption DEF InterruptAssumption
<1>2. Load(8 * v + k) # NoCell
  BY <1>1, MachineAssumption DEF MachineAssumption, ReadOnly
<1>3. byte_at_pc(ctx) = ctx.mem[Load(8 * v + k)]
  BY <1>2 DEF byte_at_pc, read_byte
<1>4. Up(ctx.pc, 1) = 8 * v + (k + 1)
  <2>1. k \in Int /\ 0 <= k /\ k < 8 /\ v \in Int /\ 0 <= v /\ v < 8
    BY <1>1
  <2>2. QED  BY <2>1, Z3 DEF Up
<1>5. QED  BY <1>3, <1>4 DEF HandlerAt

-----------------------------------------------------------------------------
(* The inductive invariant.  No handler active: nothing but the traces     *)
(* below the stack pointer tells the two processors apart.                 *)
Outside == Alike(ctx, shadow, Below(shadow.sp))

\* A handler active: the shadow waits where it can be interrupted, and what
\* handlers may not change they have not.
Handling ==
  /\ shadow.int_enable /\ ctx.dev = shadow.dev
  /\ \A r \in RegName \ {"a"} : ctx.reg[r] = shadow.reg[r]
  /\ \A x \in Cell \ Below(shadow.sp) : ctx.mem[x] = shadow.mem[x]

\* The return addresses: the first to the main program, the others to a RET.
Frames ==
  /\ read_word(ctx, shadow.sp - 2 * 1) = shadow.pc
  /\ \A j \in 2 .. level :
       \E v \in Vectors : read_word(ctx, shadow.sp - 2 * j) = 8 * v + (Size - 1)

\* The status is in the processor, or on the stack.
Clean ==
  /\ ctx.reg = shadow.reg /\ ctx.f = shadow.f
  /\ ctx.sp = shadow.sp - 2 * level
Saved ==
  /\ top(ctx) = get_psw(shadow)
  /\ ctx.sp = shadow.sp - 2 * (level + 1)

\* Where the active handler is, and what holds there.
AtByte(k) == \E v \in Vectors : ctx.pc = 8 * v + k
Entered  == AtByte(0) /\ Clean /\ ~ctx.int_enable
Spoiling == (\E k \in 1 .. Size - 3 : AtByte(k)) /\ Saved /\ ~ctx.int_enable
StatusBack == AtByte(Size - 2) /\ Clean /\ ~ctx.int_enable
Leaving  == AtByte(Size - 1) /\ Clean /\ ctx.int_enable
Inside   == Entered \/ Spoiling \/ StatusBack \/ Leaving

InterruptInv ==
  /\ Sane(shadow) /\ level \in 0 .. MaxLevel
  /\ \A v \in Vectors : HandlerAt(ctx.mem, v)
  /\ level = 0 => Outside
  /\ level > 0 => Handling /\ Frames /\ Inside

\* The same memory holds the same words.
LEMMA SameWords ==
  ASSUME NEW c, NEW d, d.mem = c.mem
  PROVE  \A a : read_word(d, a) = read_word(c, a)
  BY DEF read_word, read_byte

\* The range of level, in integers.
LEMMA Levels ==
  ASSUME level \in 0 .. MaxLevel
  PROVE  /\ MaxLevel \in Nat /\ level \in Nat /\ level <= MaxLevel
         /\ level + 1 \in 1 .. MaxLevel + 1
         /\ level > 0 => level \in 1 .. MaxLevel + 1
         /\ Size \in 4 .. 8
<1>1. MaxLevel \in Nat /\ Size \in 4 .. 8
  BY InterruptAssumption DEF InterruptAssumption
<1>2. QED  BY <1>1

(* The j-th word pushed on the stack of the shadow.                        *)
LEMMA PushLevel ==
  ASSUME Sane(shadow), Room, shadow.int_enable, NEW j \in 1 .. MaxLevel + 1,
         NEW c, Sane(c), c.sp = shadow.sp - 2 * (j - 1),
         NEW d, NEW w, Pushes(d, c, w)
  PROVE  /\ d.sp = shadow.sp - 2 * j /\ top(d) = w
         /\ read_word(d, shadow.sp - 2 * j) = w
         /\ \A x \in Cell \ Below(shadow.sp) : d.mem[x] = c.mem[x]
         /\ \A i \in 1 .. j - 1 :
              read_word(d, shadow.sp - 2 * i) = read_word(c, shadow.sp - 2 * i)
<1> DEFINE s == shadow.sp - 2 * j
<1>1. /\ s \in StackRAM /\ s + 1 \in StackRAM
      /\ Load(s) \in Below(shadow.sp) /\ Load(s + 1) \in Below(shadow.sp)
  BY RoomFor
<1>2. MaxLevel \in Nat /\ j \in Int /\ 1 <= j /\ j <= MaxLevel + 1 /\ shadow.sp \in Int
  BY SaneFields, WordBounds, Levels, InterruptAssumption DEF InterruptAssumption
<1>3. c.sp = s + 2
  BY <1>2
<1>4. ASSUME NEW i \in 1 .. j - 1
      PROVE  /\ shadow.sp - 2 * i \in StackRAM /\ shadow.sp - 2 * i + 1 \in StackRAM
             /\ shadow.sp - 2 * i >= s + 2
  <2>1. i \in 1 .. MaxLevel + 1
    BY <1>2
  <2>2. shadow.sp - 2 * i \in StackRAM /\ shadow.sp - 2 * i + 1 \in StackRAM
    BY <2>1, RoomFor
  <2>3. shadow.sp - 2 * i >= s + 2
    BY <1>2
  <2>4. QED  BY <2>2, <2>3
<1> HIDE DEF s
<1>5. /\ Down(c.sp, 2) = s /\ PushInRAM(c)
      /\ Pushed2(c.sp) = {Load(s), Load(s + 1)}
  BY <1>1, <1>3, PushRoom
<1>6. /\ d.sp = s /\ top(d) = w
      /\ \A x \in Cell \ {Load(s), Load(s + 1)} : d.mem[x] = c.mem[x]
  BY <1>5 DEF Pushes
<1>7. read_word(d, s) = w
  BY <1>6 DEF top
<1>8. \A x \in Cell \ Below(shadow.sp) : d.mem[x] = c.mem[x]
  BY <1>1, <1>6
<1>9. ASSUME NEW i \in 1 .. j - 1
      PROVE  read_word(d, shadow.sp - 2 * i) = read_word(c, shadow.sp - 2 * i)
  <2> DEFINE t == shadow.sp - 2 * i
  <2>1. t \in StackRAM /\ t + 1 \in StackRAM /\ t >= s + 2
    BY <1>4
  <2> HIDE DEF t
  <2>2. read_word(d, t) = read_word(c, t)
    BY <1>1, <1>6, <2>1, WordKept
  <2>3. QED  BY <2>2 DEF t
<1>10. QED  BY <1>6, <1>7, <1>8, <1>9 DEF s

\* A pop takes the stack pointer one level up.
LEMMA PopLevel ==
  ASSUME Sane(shadow), Room, shadow.int_enable, NEW j \in 1 .. MaxLevel + 1
  PROVE  Up(shadow.sp - 2 * j, 2) = shadow.sp - 2 * (j - 1)
<1> DEFINE s == shadow.sp - 2 * j
<1>1. s \in Word /\ s + 2 \in Word
  BY RoomFor
<1>2. shadow.sp \in Int /\ j \in Int
  BY SaneFields, WordBounds, InterruptAssumption DEF InterruptAssumption
<1>3. s + 2 = shadow.sp - 2 * (j - 1)
  BY <1>2
<1> HIDE DEF s
<1>4. Up(s, 2) = s + 2
  BY <1>1, WordBounds, Z3 DEF Up
<1>5. QED  BY <1>3, <1>4 DEF s

(* Memory and the shadow unchanged, so are the return addresses.           *)
LEMMA FramesStay ==
  ASSUME Frames, ctx'.mem = ctx.mem, shadow' = shadow, level' \in Nat, level \in Nat,
         level' <= level
  PROVE  Frames'
<1>1. \A a : read_word(ctx', a) = read_word(ctx, a)
  BY SameWords
<1>2. \A j \in 2 .. level' : j \in 2 .. level
  OBVIOUS
<1>3. QED  BY <1>1, <1>2 DEF Frames

(* A request, or nothing, changes neither.                                 *)
LEMMA QuietStep ==
  ASSUME InterruptInv, Sane(ctx'), UNCHANGED <<shadow, level>>,
         ctx'.reg = ctx.reg, ctx'.f = ctx.f, ctx'.sp = ctx.sp, ctx'.pc = ctx.pc,
         ctx'.int_enable = ctx.int_enable, ctx'.dev = ctx.dev, ctx'.mem = ctx.mem
  PROVE  InterruptInv'
<1>1. /\ Sane(shadow)' /\ (level \in 0 .. MaxLevel)'
      /\ (\A v \in Vectors : HandlerAt(ctx.mem, v))'
  BY DEF InterruptInv
<1>2. level = 0 => Outside'
  BY DEF InterruptInv, Outside, Alike
<1>3. ASSUME level > 0 PROVE Handling' /\ Frames' /\ Inside'
  <2>1. Handling /\ Frames /\ Inside
    BY <1>3 DEF InterruptInv
  <2>2. level \in Nat
    BY Levels DEF InterruptInv
  <2>3. Handling'
    BY <2>1 DEF Handling
  <2>4. Frames'
    BY <2>1, <2>2, FramesStay
  <2>5. top(ctx') = top(ctx)
    BY SameWords DEF top
  <2>6. /\ Clean' <=> Clean
        /\ Saved' <=> Saved
        /\ \A k : AtByte(k)' <=> AtByte(k)
    BY <2>5 DEF Clean, Saved, AtByte
  <2>7. Inside'
    BY <2>1, <2>6 DEF Inside, Entered, Spoiling, StatusBack, Leaving
  <2>8. QED  BY <2>3, <2>4, <2>7
<1>4. QED  BY <1>1, <1>2, <1>3 DEF InterruptInv

(* The main program runs: it cannot tell the difference, and what it       *)
(* pushes hides the traces it pushes over.                                 *)
LEMMA MainStep ==
  ASSUME InterruptInv, Sane(ctx), Main, [Next]_ctx, Unread,
         shadow'.sp < shadow.sp => byte_at_pc(shadow) \in Pushing
  PROVE  InterruptInv'
<1> DEFINE D == Below(shadow.sp)
           b == skip(ctx, 1)
           e == skip(shadow, 1)
           op == byte_at_pc(shadow)
<1>1. /\ level = 0 /\ level' = 0 /\ Alike(ctx, shadow, D)
      /\ ctx' = i8080_exec_opcode(b, byte_at_pc(ctx))
      /\ shadow' = i8080_exec_opcode(e, op)
  BY DEF Main, FetchExecute, InterruptInv, Outside
<1>2. op \in Byte /\ shadow.sp \in Word /\ shadow.pc \in Word
  BY SaneFields, Stream DEF InterruptInv
<1>3. byte_at_pc(ctx) = op
  <2>1. Load(shadow.pc) \notin D
    BY DEF Unread
  <2>2. ctx.pc = shadow.pc
    BY <1>1 DEF Alike
  <2> HIDE DEF D
  <2>3. QED  BY <1>1, <1>2, <2>1, <2>2, AlikeRead DEF byte_at_pc
<1>4. Alike(b, e, D) /\ e.sp = shadow.sp
  <2>1. e.sp = shadow.sp
    BY Fetched DEF InterruptInv
  <2> HIDE DEF D
  <2>2. Alike(b, e, D)
    BY <1>1, AlikeSkip, 1 \in 0 .. 2
  <2>3. QED  BY <2>1, <2>2
<1>5. \A a \in Sees(e, op) : Load(a) \notin D
  BY DEF Unread
<1>6. Alike(ctx', shadow', D)
  <2> HIDE DEF b, e, op, D
  <2>1. QED  BY <1>1, <1>2, <1>3, <1>4, <1>5, AlikeExecutes
<1>7. Sane(shadow') /\ shadow'.sp \in Word
  BY <1>6, SaneFields DEF Alike
<1>8. ASSUME shadow'.sp >= shadow.sp PROVE Alike(ctx', shadow', Below(shadow'.sp))
  <2>1. D \subseteq Below(shadow'.sp)
    BY <1>2, <1>7, <1>8, StackCells, WordBounds DEF Below
  <2> HIDE DEF D
  <2>2. Alike(ctx', shadow', Below(shadow'.sp))
    BY <1>6, <2>1, AlikeMore
  <2>3. QED  BY <2>2
<1>9. ASSUME shadow'.sp < shadow.sp PROVE Alike(ctx', shadow', Below(shadow'.sp))
  <2>1. op \in Pushing
    BY <1>9
  <2>2. shadow'.sp = e.sp \/ PushAlike(ctx', shadow', D, e.sp)
    <3> HIDE DEF b, e, op, D
    <3>1. QED  BY <1>1, <1>2, <1>3, <1>4, <1>5, <2>1, PushingExecutes
  <2>3. PushAlike(ctx', shadow', D, shadow.sp)
    BY <1>2, <1>4, <1>7, <1>9, <2>2, WordBounds
  <2>4. Alike(ctx', shadow', D \ Pushed2(shadow.sp)) /\ shadow'.sp = Down(shadow.sp, 2)
    BY <2>3 DEF PushAlike
  <2>5. /\ shadow.sp \in Int /\ 0 <= shadow.sp /\ shadow.sp < 65536
        /\ Down(shadow.sp, 2) < shadow.sp
    BY <1>2, <1>9, <2>4, WordBounds
  <2>6. /\ Down(shadow.sp, 2) = shadow.sp - 2
        /\ Up(Down(shadow.sp, 2), 1) = shadow.sp - 1
    BY <2>5, Z3 DEF Up, Down
  <2>7. D \ Pushed2(shadow.sp) \subseteq Below(shadow.sp - 2)
    <3> SUFFICES ASSUME NEW y \in StackRAM, y < shadow.sp,
                        Load(y) \notin Pushed2(shadow.sp)
                 PROVE  Load(y) \in Below(shadow.sp - 2)
      BY DEF Below
    <3>1. Store(y) = Load(y) /\ y \in Int
      BY StackCells, WordBounds
    <3>2. y # shadow.sp - 2 /\ y # shadow.sp - 1
      BY <2>6, <3>1 DEF Pushed2
    <3>3. y < shadow.sp - 2
      BY <2>5, <3>1, <3>2
    <3>4. QED  BY <3>3 DEF Below
  <2>8. Alike(ctx', shadow', Below(shadow'.sp))
    <3> HIDE DEF D
    <3>1. QED  BY <2>4, <2>6, <2>7, AlikeMore
  <2>9. QED  BY <2>8
<1>10. Outside'
  <2>1. shadow'.sp \in Int /\ shadow.sp \in Int
    BY <1>2, <1>7, WordBounds
  <2>2. Alike(ctx', shadow', Below(shadow'.sp))
    BY <1>8, <1>9, <2>1
  <2>3. QED  BY <2>2 DEF Outside, Below
<1>11. (\A v \in Vectors : HandlerAt(ctx.mem, v))'
  BY HandlersStay DEF InterruptInv
<1>12. (level \in 0 .. MaxLevel)' /\ ~(level' > 0)
  BY <1>1 DEF InterruptInv
<1>13. QED  BY <1>7, <1>10, <1>11, <1>12 DEF InterruptInv

(* An interrupt: where it comes, the processor has the status of the       *)
(* shadow; the restart pushes the address to return to on the next level.  *)
LEMMA Interruptible ==
  ASSUME InterruptInv, Sane(ctx), ctx.int_enable
  PROVE  /\ Clean /\ Handling
         /\ level = 0 => ctx.pc = shadow.pc
         /\ level > 0 => Frames /\ AtByte(Size - 1)
<1>1. level \in Nat
  BY Levels DEF InterruptInv
<1>2. CASE level = 0
  <2>1. shadow.sp \in Word
    BY SaneFields DEF InterruptInv
  <2>2. shadow.sp = shadow.sp - 2 * level
    BY <1>2, <2>1, WordBounds
  <2>3. Alike(ctx, shadow, Below(shadow.sp))
    BY <1>2 DEF InterruptInv, Outside
  <2>4. shadow.int_enable
    BY <2>3 DEF Alike
  <2>5. Handling
    BY <2>3, <2>4 DEF Alike, Handling
  <2>6. Clean /\ ctx.pc = shadow.pc
    BY <2>2, <2>3 DEF Alike, Clean
  <2>7. ~(level > 0)
    BY <1>2
  <2>8. QED  BY <2>5, <2>6, <2>7
<1>3. CASE level > 0
  BY <1>3 DEF InterruptInv, Inside, Entered, Spoiling, StatusBack, Leaving
<1>4. QED  BY <1>1, <1>2, <1>3

\* Enter: the restart pushes the return address of the next level.
LEMMA EnterStep ==
  ASSUME InterruptInv, Sane(ctx), Asked, Room, Enter, [Next]_ctx
  PROVE  InterruptInv'
<1> DEFINE c == [ctx EXCEPT !.int_enable = FALSE, !.int_requested = FALSE,
                            !.halted = FALSE]
<1>1. /\ level < MaxLevel /\ level' = level + 1 /\ shadow' = shadow
      /\ ctx.int_requested /\ ctx.int_enable
      /\ ctx' = i8080_exec_opcode(c, c.int_opcode)
  BY DEF Enter, Acknowledge
<1>2. /\ Sane(c) /\ c.int_opcode = ctx.int_opcode /\ ~c.int_enable
      /\ c.reg = ctx.reg /\ c.f = ctx.f /\ c.sp = ctx.sp /\ c.pc = ctx.pc
      /\ c.mem = ctx.mem /\ c.dev = ctx.dev
  BY DEF Sane, Ctx
<1>3. PICK v \in Vectors : ctx.int_opcode = \hc7 + 8 * v
  BY <1>1, InterruptAssumption DEF Asked, InterruptAssumption
<1>4. v \in 0 .. 7
  BY InterruptAssumption DEF InterruptAssumption
<1> HIDE DEF c
<1>5. Pushes(ctx', c, ctx.pc) /\ ctx'.pc = 8 * v
  BY <1>1, <1>2, <1>3, <1>4, RstStep
<1>6. /\ Clean /\ Handling
      /\ level = 0 => ctx.pc = shadow.pc
      /\ level > 0 => Frames /\ AtByte(Size - 1)
  BY <1>1, Interruptible
<1>7. Sane(shadow) /\ level \in 0 .. MaxLevel
  BY DEF InterruptInv
<1>8. level \in Nat /\ level' \in 1 .. MaxLevel /\ level' \in 1 .. MaxLevel + 1
  BY <1>1, <1>7, Levels
<1>9. shadow.int_enable
  BY <1>6 DEF Handling
<1>10. c.sp = shadow.sp - 2 * (level' - 1)
  <2>1. level' - 1 = level
    BY <1>1, <1>8
  <2>2. QED  BY <1>2, <1>6, <2>1 DEF Clean
<1>11. /\ ctx'.sp = shadow.sp - 2 * level'
       /\ read_word(ctx', shadow.sp - 2 * level') = ctx.pc
       /\ \A x \in Cell \ Below(shadow.sp) : ctx'.mem[x] = c.mem[x]
       /\ \A i \in 1 .. level' - 1 :
            read_word(ctx', shadow.sp - 2 * i) = read_word(c, shadow.sp - 2 * i)
  <2>1. PICK j \in 1 .. MaxLevel + 1 : j = level'
    BY <1>8
  <2>2. c.sp = shadow.sp - 2 * (j - 1)
    BY <1>10, <2>1
  <2>3. /\ ctx'.sp = shadow.sp - 2 * j
        /\ read_word(ctx', shadow.sp - 2 * j) = ctx.pc
        /\ \A x \in Cell \ Below(shadow.sp) : ctx'.mem[x] = c.mem[x]
        /\ \A i \in 1 .. j - 1 :
             read_word(ctx', shadow.sp - 2 * i) = read_word(c, shadow.sp - 2 * i)
    BY <1>2, <1>5, <1>7, <1>9, <2>2, PushLevel
  <2>4. QED  BY <2>1, <2>3
<1>12. \A i \in 1 .. level :
         read_word(ctx', shadow.sp - 2 * i) = read_word(ctx, shadow.sp - 2 * i)
  <2>1. \A a : read_word(c, a) = read_word(ctx, a)
    BY <1>2, SameWords
  <2>2. level' - 1 = level
    BY <1>1, <1>8
  <2>3. QED  BY <1>11, <2>1, <2>2
<1>13. ctx'.reg = ctx.reg /\ ctx'.f = ctx.f /\ ctx'.dev = ctx.dev /\ ~ctx'.int_enable
  BY <1>2, <1>5 DEF Pushes
<1>14. Handling'
  BY <1>1, <1>2, <1>6, <1>11, <1>13 DEF Handling
<1>15. Frames'
  <2>1. read_word(ctx', shadow.sp - 2 * 1) = shadow.pc
    <3>1. CASE level = 0
      BY <1>1, <1>6, <1>11, <3>1
    <3>2. CASE level > 0
      <4>1. 1 \in 1 .. level
        BY <1>8, <3>2
      <4>2. QED  BY <1>6, <1>12, <3>2, <4>1 DEF Frames
    <3>3. QED  BY <1>8, <3>1, <3>2
  <2>2. ASSUME NEW j \in 2 .. level'
        PROVE  \E u \in Vectors : read_word(ctx', shadow.sp - 2 * j) = 8 * u + (Size - 1)
    <3>1. level > 0 /\ (j = level' \/ j \in 2 .. level) /\ j \in 1 .. level'
      BY <1>1, <1>8
    <3>2. CASE j = level'
      BY <1>6, <1>11, <3>1, <3>2 DEF AtByte
    <3>3. CASE j \in 2 .. level
      <4>1. j \in 1 .. level
        BY <3>3
      <4>2. QED  BY <1>6, <1>12, <3>1, <3>3, <4>1 DEF Frames
    <3>4. QED  BY <3>1, <3>2, <3>3
  <2>3. QED  BY <1>1, <2>1, <2>2 DEF Frames
<1>16. Inside'
  <2>1. AtByte(0)'
    <3>1. 8 * v = 8 * v + 0
      BY <1>4
    <3>2. QED  BY <1>5, <3>1 DEF AtByte
  <2>2. Clean'
    BY <1>1, <1>6, <1>11, <1>13 DEF Clean
  <2>3. QED  BY <1>13, <2>1, <2>2 DEF Inside, Entered
<1>17. (\A u \in Vectors : HandlerAt(ctx.mem, u))'
  BY HandlersStay DEF InterruptInv
<1>18. Sane(shadow)' /\ level' \in 0 .. MaxLevel /\ level' # 0
  BY <1>1, <1>7, <1>8
<1>19. QED  BY <1>14, <1>15, <1>16, <1>17, <1>18 DEF InterruptInv

(* A handler runs: what is fetched at its bytes, and what they do.         *)
LEMMA HandlerFetch ==
  ASSUME InterruptInv, Sane(ctx), Handler, [Next]_ctx
  PROVE  /\ level \in 1 .. MaxLevel /\ level > 0 /\ shadow' = shadow
         /\ level \in 1 .. MaxLevel + 1 /\ level + 1 \in 1 .. MaxLevel + 1
         /\ Sane(shadow) /\ Handling /\ Frames /\ Inside /\ shadow.int_enable
         /\ ctx' = i8080_exec_opcode(skip(ctx, 1), byte_at_pc(ctx))
         /\ level' = IF byte_at_pc(ctx) = \hc9 THEN level - 1 ELSE level
         /\ (\A v \in Vectors : HandlerAt(ctx.mem, v))'
         /\ Size \in 4 .. 8
<1>1. level > 0 /\ level \in 0 .. MaxLevel /\ Sane(shadow) /\ Handling /\ Frames /\ Inside
  BY DEF InterruptInv, Handler
<1>2. /\ level \in 1 .. MaxLevel /\ level \in 1 .. MaxLevel + 1
      /\ level + 1 \in 1 .. MaxLevel + 1 /\ Size \in 4 .. 8
  BY <1>1, Levels
<1>3. shadow.int_enable
  BY <1>1 DEF Handling
<1>4. (\A v \in Vectors : HandlerAt(ctx.mem, v))'
  BY HandlersStay DEF InterruptInv
<1>5. /\ shadow' = shadow
      /\ ctx' = i8080_exec_opcode(skip(ctx, 1), byte_at_pc(ctx))
      /\ level' = IF byte_at_pc(ctx) = \hc9 THEN level - 1 ELSE level
  BY DEF Handler, FetchExecute, opcode
<1>6. QED  BY <1>1, <1>2, <1>3, <1>4, <1>5

\* What is fetched at byte k of the active handler.
LEMMA AtHandler ==
  ASSUME InterruptInv, Sane(ctx), NEW k \in 0 .. Size - 1, AtByte(k)
  PROVE  LET op == byte_at_pc(ctx)
         IN  /\ k = 0 => op = \hf5
             /\ k \in 1 .. Size - 4 => op \in AccumulatorOnly
             /\ k = Size - 3 => op = \hf1
             /\ k = Size - 2 => op = \hfb
             /\ k = Size - 1 => op = \hc9
             /\ \E v \in Vectors : Up(ctx.pc, 1) = 8 * v + (k + 1)
<1>1. PICK v \in Vectors : ctx.pc = 8 * v + k
  BY DEF AtByte
<1>2. HandlerAt(ctx.mem, v)
  BY DEF InterruptInv
<1>3. QED  BY <1>1, <1>2, HandlerByte

\* The steps of a handler that neither push nor return.
LEMMA StaysInside ==
  ASSUME InterruptInv, Sane(ctx), Handler, [Next]_ctx, level' = level,
         ctx'.mem = ctx.mem, ctx'.dev = ctx.dev,
         \A r \in RegName \ {"a"} : ctx'.reg[r] = ctx.reg[r], Inside'
  PROVE  InterruptInv'
<1>1. /\ level \in 1 .. MaxLevel /\ level > 0 /\ shadow' = shadow
      /\ Sane(shadow) /\ Handling /\ Frames
      /\ (\A v \in Vectors : HandlerAt(ctx.mem, v))'
  BY HandlerFetch
<1>2. Handling'
  BY <1>1 DEF Handling
<1>3. level \in Nat /\ level' \in Nat /\ level' <= level /\ level' # 0
      /\ level' \in 0 .. MaxLevel
  BY <1>1
<1>4. Frames'
  BY <1>1, <1>3, FramesStay
<1>5. Sane(shadow)'
  BY <1>1
<1>6. QED  BY <1>1, <1>2, <1>3, <1>4, <1>5 DEF InterruptInv

\* PUSH PSW: from the first byte of a handler to its body.
LEMMA PushesStatus ==
  ASSUME InterruptInv, Sane(ctx), Room, Handler, [Next]_ctx, Entered
  PROVE  InterruptInv'
<1>1. /\ level \in 1 .. MaxLevel /\ level > 0 /\ shadow' = shadow
      /\ level + 1 \in 1 .. MaxLevel + 1 /\ Size \in 4 .. 8
      /\ Sane(shadow) /\ Handling /\ Frames /\ shadow.int_enable
      /\ ctx' = i8080_exec_opcode(skip(ctx, 1), byte_at_pc(ctx))
      /\ level' = IF byte_at_pc(ctx) = \hc9 THEN level - 1 ELSE level
      /\ (\A v \in Vectors : HandlerAt(ctx.mem, v))'
  BY HandlerFetch
<1>2. AtByte(0) /\ Clean /\ ~ctx.int_enable
  BY DEF Entered
<1>3. 0 \in 0 .. Size - 1
  BY <1>1
<1>4. byte_at_pc(ctx) = \hf5 /\ \E v \in Vectors : Up(ctx.pc, 1) = 8 * v + (0 + 1)
  BY <1>2, <1>3, AtHandler
<1>5. Pushes(ctx', ctx, get_psw(ctx)) /\ ctx'.pc = Up(ctx.pc, 1)
  BY <1>1, <1>4, PushPswStep
<1>6. level' = level
  BY <1>1, <1>4
<1>7. PICK j \in 1 .. MaxLevel + 1 : j = level + 1
  BY <1>1
<1>8. j - 1 = level
  BY <1>1, <1>7
<1>9. ctx.sp = shadow.sp - 2 * (j - 1)
  BY <1>2, <1>8 DEF Clean
<1>10. /\ ctx'.sp = shadow.sp - 2 * j /\ top(ctx') = get_psw(ctx)
       /\ \A x \in Cell \ Below(shadow.sp) : ctx'.mem[x] = ctx.mem[x]
       /\ \A i \in 1 .. j - 1 :
            read_word(ctx', shadow.sp - 2 * i) = read_word(ctx, shadow.sp - 2 * i)
  BY <1>1, <1>5, <1>9, PushLevel
<1>11. get_psw(ctx) = get_psw(shadow)
  BY <1>2 DEF Clean, get_psw
<1>12. ctx'.reg = ctx.reg /\ ctx'.dev = ctx.dev /\ ctx'.int_enable = ctx.int_enable
  BY <1>5 DEF Pushes
<1>13. Handling'
  BY <1>1, <1>10, <1>12 DEF Handling
<1>14. Frames'
  <2>1. 1 \in 1 .. j - 1 /\ \A i \in 2 .. level : i \in 1 .. j - 1
    BY <1>1, <1>8
  <2>2. QED  BY <1>1, <1>6, <1>10, <2>1 DEF Frames
<1>15. Inside'
  <2>1. Saved'
    BY <1>1, <1>6, <1>7, <1>10, <1>11 DEF Saved
  <2>2. AtByte(0 + 1)'
    BY <1>4, <1>5 DEF AtByte
  <2>3. 0 + 1 \in 1 .. Size - 3
    BY <1>1
  <2>4. ~ctx'.int_enable
    BY <1>2, <1>12
  <2>5. Spoiling'
    BY <1>1, <2>1, <2>2, <2>3, <2>4 DEF Spoiling
  <2>6. QED  BY <2>5 DEF Inside
<1>16. Sane(shadow)' /\ level' \in 0 .. MaxLevel /\ level' # 0
  BY <1>1, <1>6
<1>17. QED  BY <1>1, <1>13, <1>14, <1>15, <1>16 DEF InterruptInv

\* The body: the status stays on the stack.
LEMMA RuinsStatus ==
  ASSUME InterruptInv, Sane(ctx), Handler, [Next]_ctx,
         Saved, ~ctx.int_enable, NEW k \in 1 .. Size - 4, AtByte(k)
  PROVE  InterruptInv'
<1> DEFINE b == skip(ctx, 1)
           op == byte_at_pc(ctx)
<1>1. /\ Size \in 4 .. 8 /\ shadow' = shadow
      /\ ctx' = i8080_exec_opcode(b, op)
      /\ level' = IF op = \hc9 THEN level - 1 ELSE level
  BY HandlerFetch
<1>2. k \in 0 .. Size - 1 /\ k + 1 \in 1 .. Size - 3
  BY <1>1
<1>3. op \in AccumulatorOnly /\ \E v \in Vectors : Up(ctx.pc, 1) = 8 * v + (k + 1)
  BY <1>2, AtHandler
<1>4. level' = level
  <2> HIDE DEF op
  <2>1. op \in Byte /\ op < 192
    BY <1>3, SpoilerCases
  <2>2. op # \hc9
    BY <2>1, ByteBounds
  <2>3. QED  BY <1>1, <2>2
<1>5. /\ Sane(b) /\ b.reg = ctx.reg /\ b.sp = ctx.sp
      /\ b.pc = Up(ctx.pc, 1) /\ b.mem = ctx.mem /\ b.dev = ctx.dev
      /\ b.int_enable = ctx.int_enable
  BY Fetched
<1>6. SparesRest(ctx', b)
  <2> HIDE DEF b, op
  <2>1. QED  BY <1>1, <1>3, <1>5, SpoilStep
<1> HIDE DEF b, op
<1>7. /\ \A r \in RegName \ {"a"} : ctx'.reg[r] = ctx.reg[r]
      /\ ctx'.sp = ctx.sp /\ ctx'.pc = Up(ctx.pc, 1) /\ ctx'.mem = ctx.mem
      /\ ctx'.dev = ctx.dev /\ ctx'.int_enable = ctx.int_enable
  BY <1>5, <1>6 DEF SparesRest
<1>8. Inside'
  <2>1. top(ctx') = top(ctx)
    BY <1>7, SameWords DEF top
  <2>2. Saved'
    BY <1>1, <1>4, <1>7, <2>1 DEF Saved
  <2>3. AtByte(k + 1)'
    BY <1>3, <1>7 DEF AtByte
  <2>4. Spoiling'
    BY <1>1, <1>2, <1>7, <2>2, <2>3 DEF Spoiling
  <2>5. QED  BY <2>4 DEF Inside
<1>9. QED  BY <1>4, <1>7, <1>8, StaysInside

\* POP PSW: the status is back in the processor.
LEMMA RestoresStatus ==
  ASSUME InterruptInv, Sane(ctx), Room, Handler, [Next]_ctx,
         Saved, ~ctx.int_enable, AtByte(Size - 3)
  PROVE  InterruptInv'
<1>1. /\ Size \in 4 .. 8 /\ shadow' = shadow /\ level \in 1 .. MaxLevel
      /\ level + 1 \in 1 .. MaxLevel + 1
      /\ Sane(shadow) /\ Handling /\ shadow.int_enable
      /\ ctx' = i8080_exec_opcode(skip(ctx, 1), byte_at_pc(ctx))
      /\ level' = IF byte_at_pc(ctx) = \hc9 THEN level - 1 ELSE level
  BY HandlerFetch
<1>2. Size - 3 \in 0 .. Size - 1 /\ (Size - 3) + 1 = Size - 2 /\ (level + 1) - 1 = level
  BY <1>1
<1>3. byte_at_pc(ctx) = \hf1 /\ \E v \in Vectors : Up(ctx.pc, 1) = 8 * v + (Size - 2)
  BY <1>2, AtHandler
<1>4. level' = level
  BY <1>1, <1>3
<1>5. /\ top(ctx) = get_psw(shadow) /\ ctx.sp = shadow.sp - 2 * (level + 1)
      /\ \A r \in RegName \ {"a"} : ctx.reg[r] = shadow.reg[r]
  BY <1>1 DEF Saved, Handling
<1>6. /\ StepsOn(ctx', ctx) /\ ctx'.int_enable = ctx.int_enable
      /\ ctx'.reg = shadow.reg /\ ctx'.f = shadow.f /\ ctx'.sp = Up(ctx.sp, 2)
  BY <1>1, <1>3, <1>5, PopPswStep
<1>7. ctx'.pc = Up(ctx.pc, 1) /\ ctx'.mem = ctx.mem /\ ctx'.dev = ctx.dev
  BY <1>6 DEF StepsOn
<1>8. ctx'.sp = shadow.sp - 2 * level
  BY <1>1, <1>2, <1>5, <1>6, PopLevel
<1>9. Inside'
  <2>1. Clean'
    BY <1>1, <1>4, <1>6, <1>8 DEF Clean
  <2>2. AtByte(Size - 2)'
    BY <1>3, <1>7 DEF AtByte
  <2>3. ~ctx'.int_enable
    BY <1>6
  <2>4. QED  BY <2>1, <2>2, <2>3 DEF StatusBack, Inside
<1>10. \A r \in RegName \ {"a"} : ctx'.reg[r] = ctx.reg[r]
  BY <1>5, <1>6
<1>11. QED  BY <1>4, <1>7, <1>9, <1>10, StaysInside

\* EI: from here the next handler may come.
LEMMA EnablesAgain ==
  ASSUME InterruptInv, Sane(ctx), Handler, [Next]_ctx, StatusBack
  PROVE  InterruptInv'
<1>1. /\ Size \in 4 .. 8 /\ shadow' = shadow
      /\ ctx' = i8080_exec_opcode(skip(ctx, 1), byte_at_pc(ctx))
      /\ level' = IF byte_at_pc(ctx) = \hc9 THEN level - 1 ELSE level
  BY HandlerFetch
<1>2. Size - 2 \in 0 .. Size - 1 /\ (Size - 2) + 1 = Size - 1
  BY <1>1
<1>3. AtByte(Size - 2) /\ Clean
  BY DEF StatusBack
<1>4. byte_at_pc(ctx) = \hfb /\ \E v \in Vectors : Up(ctx.pc, 1) = 8 * v + (Size - 1)
  BY <1>2, <1>3, AtHandler
<1>5. level' = level
  BY <1>1, <1>4
<1>6. /\ StepsOn(ctx', ctx) /\ ctx'.int_enable
      /\ ctx'.reg = ctx.reg /\ ctx'.f = ctx.f /\ ctx'.sp = ctx.sp
  BY <1>1, <1>4, EiStep
<1>7. ctx'.pc = Up(ctx.pc, 1) /\ ctx'.mem = ctx.mem /\ ctx'.dev = ctx.dev
  BY <1>6 DEF StepsOn
<1>8. Inside'
  <2>1. Clean'
    BY <1>1, <1>3, <1>5, <1>6 DEF Clean
  <2>2. AtByte(Size - 1)'
    BY <1>4, <1>7 DEF AtByte
  <2>3. QED  BY <1>6, <2>1, <2>2 DEF Leaving, Inside
<1>9. QED  BY <1>5, <1>6, <1>7, <1>8, StaysInside

(* RET: to the RET of the handler below, or to the main program, which     *)
(* finds everything as it left it.                                         *)
LEMMA LeavesHandler ==
  ASSUME InterruptInv, Sane(ctx), Sane(ctx'), Room, Handler, [Next]_ctx, Leaving
  PROVE  InterruptInv'
<1>1. /\ Size \in 4 .. 8 /\ shadow' = shadow /\ level \in 1 .. MaxLevel
      /\ level \in 1 .. MaxLevel + 1
      /\ Sane(shadow) /\ Handling /\ Frames /\ shadow.int_enable
      /\ ctx' = i8080_exec_opcode(skip(ctx, 1), byte_at_pc(ctx))
      /\ level' = IF byte_at_pc(ctx) = \hc9 THEN level - 1 ELSE level
      /\ (\A v \in Vectors : HandlerAt(ctx.mem, v))'
  BY HandlerFetch
<1>2. Size - 1 \in 0 .. Size - 1
  BY <1>1
<1>3. AtByte(Size - 1) /\ Clean /\ ctx.int_enable
  BY DEF Leaving
<1>4. byte_at_pc(ctx) = \hc9
  BY <1>2, <1>3, AtHandler
<1>5. level' = level - 1
  BY <1>1, <1>4
<1>6. /\ ctx'.reg = ctx.reg /\ ctx'.f = ctx.f /\ ctx'.sp = Up(ctx.sp, 2)
      /\ ctx'.pc = top(ctx) /\ ctx'.mem = ctx.mem /\ ctx'.dev = ctx.dev
      /\ ctx'.int_enable = ctx.int_enable
  BY <1>1, <1>4, RetLeaves
<1>7. /\ ctx'.reg = shadow.reg /\ ctx'.f = shadow.f
      /\ ctx'.sp = shadow.sp - 2 * (level - 1)
  <2>1. ctx.sp = shadow.sp - 2 * level /\ ctx.reg = shadow.reg /\ ctx.f = shadow.f
    BY <1>3 DEF Clean
  <2>2. Up(shadow.sp - 2 * level, 2) = shadow.sp - 2 * (level - 1)
    BY <1>1, PopLevel
  <2>3. QED  BY <1>6, <2>1, <2>2
<1>8. ctx'.pc = read_word(ctx, shadow.sp - 2 * level)
  BY <1>3, <1>6 DEF Clean, top
<1>9. Handling'
  BY <1>1, <1>6 DEF Handling
<1>10. level' = 0 => Outside'
  <2> SUFFICES ASSUME level' = 0 PROVE Outside'
    OBVIOUS
  <2>1. level = 1
    BY <1>1, <1>5
  <2>2. ctx'.pc = shadow.pc
    BY <1>1, <1>8, <2>1 DEF Frames
  <2>3. ctx'.sp = shadow.sp
    <3>1. shadow.sp \in Word
      BY <1>1, SaneFields
    <3>2. QED  BY <1>7, <2>1, <3>1, WordBounds
  <2>4. ctx'.int_enable = shadow.int_enable
    <3>1. shadow.int_enable \in BOOLEAN /\ ctx'.int_enable \in BOOLEAN
      BY <1>1 DEF Sane, Ctx
    <3>2. shadow.int_enable /\ ctx'.int_enable
      BY <1>1, <1>3, <1>6
    <3>3. QED  BY <3>1, <3>2
  <2>5. ctx'.dev = shadow.dev
        /\ \A x \in Cell \ Below(shadow.sp) : ctx'.mem[x] = shadow.mem[x]
    BY <1>1, <1>9 DEF Handling
  <2>6. Alike(ctx', shadow, Below(shadow.sp))
    BY <1>1, <1>7, <2>2, <2>3, <2>4, <2>5 DEF Alike
  <2>7. QED  BY <1>1, <2>6 DEF Outside
<1>11. level' > 0 => Frames' /\ Inside'
  <2> SUFFICES ASSUME level' > 0 PROVE Frames' /\ Inside'
    OBVIOUS
  <2>1. /\ level \in Nat /\ level' \in Nat /\ level' <= level /\ level \in 2 .. level
    BY <1>1, <1>5
  <2>2. Frames'
    BY <1>1, <1>6, <2>1, FramesStay
  <2>3. AtByte(Size - 1)'
    BY <1>1, <1>8, <2>1 DEF Frames, AtByte
  <2>4. Clean'
    BY <1>1, <1>5, <1>7 DEF Clean
  <2>5. Leaving'
    BY <1>3, <1>6, <2>3, <2>4 DEF Leaving
  <2>6. QED  BY <2>2, <2>5 DEF Inside
<1>12. Sane(shadow)' /\ level' \in 0 .. MaxLevel
  <2>1. Sane(shadow)'
    BY <1>1
  <2>2. MaxLevel \in Nat
    BY InterruptAssumption DEF InterruptAssumption
  <2>3. QED  BY <1>1, <1>5, <2>1, <2>2
<1>13. QED  BY <1>1, <1>9, <1>10, <1>11, <1>12 DEF InterruptInv

\* Every step of a handler.
LEMMA HandlerStep ==
  ASSUME InterruptInv, Sane(ctx), Sane(ctx'), Room, Handler, [Next]_ctx
  PROVE  InterruptInv'
<1>1. Inside /\ Size \in 4 .. 8
  BY HandlerFetch
<1>2. CASE Entered
  BY <1>2, PushesStatus
<1>3. CASE Spoiling
  <2>1. PICK k \in 1 .. Size - 3 : AtByte(k)
    BY <1>3 DEF Spoiling
  <2>2. Saved /\ ~ctx.int_enable
    BY <1>3 DEF Spoiling
  <2>3. k \in 1 .. Size - 4 \/ k = Size - 3
    BY <1>1
  <2>4. QED  BY <2>1, <2>2, <2>3, RuinsStatus, RestoresStatus
<1>4. CASE StatusBack
  BY <1>4, EnablesAgain
<1>5. CASE Leaving
  BY <1>5, LeavesHandler
<1>6. QED  BY <1>1, <1>2, <1>3, <1>4, <1>5 DEF Inside

-----------------------------------------------------------------------------
(* Every step.                                                             *)
LEMMA InterruptedIsMachine ==
  /\ InterruptedInit => Init
  /\ [InterruptedNext]_ivars => [Next]_ctx
<1>1. InterruptedNext => [Next]_ctx
  BY DEF InterruptedNext, Main, Handler, Enter, Request, Next, i8080_step
<1>2. UNCHANGED ivars => UNCHANGED ctx
  BY DEF ivars
<1>3. QED  BY <1>1, <1>2 DEF InterruptedInit

\* The interrupted processor is a run of I8080.
LEMMA InterruptedRuns == InterruptedSpec => [](Sane(ctx) /\ Asked)
<1>1. InterruptedSpec => Spec
  BY InterruptedIsMachine, PTL DEF InterruptedSpec, Spec
<1>2. QED  BY <1>1, StaysSane, StaysAsked, PTL

\* At the start no handler is active.
LEMMA InterruptedStarts ==
  ASSUME InterruptedInit
  PROVE  InterruptInv
<1>1. Sane(ctx) /\ shadow = ctx /\ level = 0
  BY Starts DEF InterruptedInit
<1>2. Outside
  BY <1>1 DEF Outside, Alike
<1>3. \A v \in Vectors : HandlerAt(ctx.mem, v)
  BY InterruptAssumption DEF InterruptedInit, Init, InterruptAssumption
<1>4. level \in 0 .. MaxLevel /\ ~(level > 0)
  BY <1>1, InterruptAssumption DEF InterruptAssumption
<1>5. QED  BY <1>1, <1>2, <1>3, <1>4 DEF InterruptInv

\* Every step, under the hypotheses, keeps the invariant.
LEMMA InterruptedStep ==
  ASSUME InterruptInv, Sane(ctx), Sane(ctx'), Asked, Room,
         [InterruptedNext]_ivars, [ProperStep]_ivars
  PROVE  InterruptInv'
<1>1. [Next]_ctx
  BY InterruptedIsMachine
<1>2. CASE UNCHANGED ivars
  BY <1>2, QuietStep DEF ivars
<1>3. CASE Main
  <2>1. CASE ProperStep
    BY <1>1, <1>3, <2>1, MainStep DEF ProperStep
  <2>2. QED  BY <1>2, <2>1
<1>4. CASE Handler
  BY <1>1, <1>4, HandlerStep
<1>5. CASE Enter
  BY <1>1, <1>5, EnterStep
<1>6. CASE Request
  <2>1. PICK op \in IntOpcodes : i8080_interrupt(op)
    BY <1>6 DEF Request
  <2>2. /\ ctx'.reg = ctx.reg /\ ctx'.f = ctx.f /\ ctx'.sp = ctx.sp /\ ctx'.pc = ctx.pc
        /\ ctx'.int_enable = ctx.int_enable /\ ctx'.dev = ctx.dev /\ ctx'.mem = ctx.mem
    BY <2>1 DEF i8080_interrupt, Sane, Ctx
  <2>3. UNCHANGED <<shadow, level>>
    BY <1>6 DEF Request
  <2>4. QED  BY <2>2, <2>3, QuietStep
<1>7. QED  BY <1>2, <1>3, <1>4, <1>5, <1>6 DEF InterruptedNext

\* The invariant holds throughout.
LEMMA StaysTransparent ==
  InterruptedSpec /\ Proper /\ []Room => [](InterruptInv /\ Sane(ctx) /\ Room)
<1>1. InterruptedInit => InterruptInv
  BY InterruptedStarts
<1>2. /\ InterruptInv /\ Sane(ctx) /\ Sane(ctx)' /\ Asked /\ Room
      /\ [InterruptedNext]_ivars /\ [ProperStep]_ivars
      => InterruptInv'
  BY InterruptedStep
<1>3. QED
  BY <1>1, <1>2, InterruptedRuns, PTL DEF InterruptedSpec, Proper

(* For every program, handlers that end as they should and every number of *)
(* interrupts nested in one another: the program is not aware of them,     *)
(* provided that it uses nothing of the stack below its stack pointer,     *)
(* lowers that by pushing only, and keeps room below it.                   *)
THEOREM Transparent ==
  InterruptedSpec /\ Proper /\ []Room => []InterruptsAreTransparent
<1>1. InterruptInv => InterruptsAreTransparent
  BY DEF InterruptInv, Outside, Alike, InterruptsAreTransparent
<1>2. QED  BY <1>1, StaysTransparent, PTL

(* And under the same hypotheses no handler overwrites, at any time, what  *)
(* the program has on its stack.                                           *)
THEOREM StackKept ==
  InterruptedSpec /\ Proper /\ []Room => []StackIsKept
<1>1. InterruptInv => StackIsKept
  <2> SUFFICES ASSUME InterruptInv, NEW x \in StackRAM, x >= shadow.sp
               PROVE  ctx.mem[Load(x)] = shadow.mem[Load(x)]
    BY DEF StackIsKept
  <2>1. Load(x) \in Cell /\ \A y \in StackRAM : Load(x) = Load(y) => x = y
    BY StackCells
  <2>2. x \in Int /\ shadow.sp \in Int
    <3>1. x \in Word /\ shadow.sp \in Word
      BY StackCells, SaneFields DEF InterruptInv
    <3>2. QED  BY <3>1, WordBounds
  <2>3. Load(x) \notin Below(shadow.sp)
    BY <2>1, <2>2 DEF Below
  <2>4. \A z \in Cell \ Below(shadow.sp) : ctx.mem[z] = shadow.mem[z]
    <3>1. level \in Nat
      BY Levels DEF InterruptInv
    <3>2. CASE level = 0
      BY <3>2 DEF InterruptInv, Outside, Alike
    <3>3. CASE level > 0
      BY <3>3 DEF InterruptInv, Handling
    <3>4. QED  BY <3>1, <3>2, <3>3
  <2>5. QED  BY <2>1, <2>3, <2>4
<1>2. QED  BY <1>1, StaysTransparent, PTL
=============================================================================
