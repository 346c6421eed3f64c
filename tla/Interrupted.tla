---------------------------- MODULE Interrupted -----------------------------
(***************************************************************************)
(* Interrupts at every point of a program, told apart from a run of the    *)
(* same program without them.  shadow is a second processor that only      *)
(* takes the main program's steps; level counts the handlers entered and   *)
(* not yet returned from.  A handler saves the status, ruins it, and ends  *)
(* in POP PSW; EI; RET, so that the next request may come before RET.  The *)
(* main program is any program: Proper and Room say what it must not do.   *)
(***************************************************************************)
EXTENDS I8080

CONSTANTS
  Vectors,                \* the machine asks for RST v, for v in Vectors
  Size,                   \* the bytes of a handler
  StackLow, StackHigh,    \* the RAM set aside for the stack
  MaxLevel                \* the bound: handlers nested in one another

VARIABLES shadow, level
ivars == <<ctx, shadow, level>>

StackRAM == StackLow .. StackHigh

\* NOP, the instructions of one byte that change the accumulator and the
\* flags, and nothing else.
AccumulatorOnly ==
  {op \in 0 .. 63 : op % 8 \in {0, 7}} \union {\h0a, \h1a, \h3c, \h3d}
    \union (\h78 .. \hbf)

\* PUSH PSW, what ruins the status, POP PSW, EI, RET.
HandlerAt(m, v) ==
  LET at(k) == m[Load(8 * v + k)]
  IN  /\ at(0) = \hf5
      /\ \A k \in 1 .. Size - 4 : at(k) \in AccumulatorOnly
      /\ at(Size - 3) = \hf1 /\ at(Size - 2) = \hfb /\ at(Size - 1) = \hc9

\* The handlers are in ROM, the stack is in RAM; a restart gets to a handler.
ASSUME InterruptAssumption ==
  /\ Vectors \subseteq 0 .. 7 /\ Size \in 4 .. 8 /\ MaxLevel \in Nat
  /\ StackLow \in Word /\ StackHigh \in Word
  /\ \A x \in StackRAM : RAM(x)
  /\ \A x \in StackRAM, y \in StackRAM : Load(x) = Load(y) => x = y
  /\ \A v \in Vectors, k \in 0 .. Size - 1 : Load(8 * v + k) \in ReadOnly
  /\ \A m \in BootMem, v \in Vectors : HandlerAt(m, v)
  /\ IntOpcodes \subseteq {\hc7 + 8 * v : v \in Vectors}

InterruptedInit == Init /\ shadow = ctx /\ level = 0

\* The main program runs: the shadow takes the same instruction.
Main ==
  /\ level = 0
  /\ FetchExecute
  /\ shadow' = i8080_exec_opcode(skip(shadow, 1), byte_at_pc(shadow))
  /\ UNCHANGED level

\* A handler runs; its RET leaves it.
Handler ==
  /\ level > 0
  /\ FetchExecute
  /\ level' = IF opcode = \hc9 THEN level - 1 ELSE level
  /\ UNCHANGED shadow

Enter ==
  /\ level < MaxLevel
  /\ Acknowledge
  /\ level' = level + 1
  /\ UNCHANGED shadow

Request ==
  /\ level < MaxLevel
  /\ \E op \in IntOpcodes : i8080_interrupt(op)
  /\ UNCHANGED <<shadow, level>>

InterruptedNext == Main \/ Handler \/ Enter \/ Request
InterruptedSpec == InterruptedInit /\ [][InterruptedNext]_ivars

-----------------------------------------------------------------------------
(* The main program cannot tell whether it was interrupted: whenever no    *)
(* handler is active its registers, flags, sp, pc and interrupt enable are *)
(* those of the run without interrupts.  It takes the masking at the       *)
(* acknowledgement, the return address RST pushes, the byte order of the   *)
(* stack and the packing of the status to agree, at every nesting.         *)
InterruptsAreTransparent ==
  level = 0 =>
    /\ ctx.reg = shadow.reg /\ ctx.f = shadow.f
    /\ ctx.sp = shadow.sp /\ ctx.pc = shadow.pc
    /\ ctx.int_enable = shadow.int_enable

(* What the main program keeps on the stack, at its sp and above, no       *)
(* handler overwrites, not even for the time it runs.                      *)
StackIsKept ==
  \A x \in StackRAM : x >= shadow.sp => ctx.mem[Load(x)] = shadow.mem[Load(x)]

-----------------------------------------------------------------------------
\* The instructions that read the byte HL points to, and those that read the
\* word on the stack.
ReadsHL ==
  {\h34, \h35} \union {op \in 64 .. 191 : op % 8 = 6 /\ op # \h76}
ReadsStack ==
  {op \in 192 .. 255 : op % 16 = 1 \/ op % 8 = 0} \union {\hc9, \hd9, \he3}

\* The addresses whose bytes an instruction uses, its opcode fetched.
Sees(c, op) ==
  LET w == word_at_pc(c)
  IN  {Up(c.pc, k) : k \in 0 .. Length(op) - 2}
        \union (IF op \in ReadsHL THEN {get_pair(c, HL)} ELSE {})
        \union (IF op \in {\h0a, \h1a} THEN {get_pair(c, Pair(op))} ELSE {})
        \union (IF op \in {\h2a, \h3a} THEN {w} ELSE {})
        \union (IF op = \h2a THEN {Up(w, 1)} ELSE {})
        \union (IF op \in ReadsStack THEN {c.sp, Up(c.sp, 1)} ELSE {})

\* PUSH, RST, CALL and conditional calls.
Pushing ==
  {op \in 192 .. 255 : op % 16 = 5 \/ op % 8 \in {4, 7}}
    \union {\hcd, \hdd, \hed, \hfd}

\* The cells of the stack below s, where interrupts leave their traces.
Below(s) == {Load(x) : x \in {y \in StackRAM : y < s}}

\* The run without interrupts uses nothing of the stack below its sp, and
\* lowers sp by pushing only; and where it enables interrupts it leaves the
\* room that they need.
Unread ==
  \A a \in {shadow.pc} \union Sees(skip(shadow, 1), byte_at_pc(shadow)) :
    Load(a) \notin Below(shadow.sp)
ProperStep ==
  Main => /\ Unread
          /\ shadow'.sp < shadow.sp => byte_at_pc(shadow) \in Pushing
Proper == [][ProperStep]_ivars
Room ==
  shadow.int_enable =>
    StackLow <= shadow.sp - 2 * MaxLevel - 2 /\ shadow.sp - 1 <= StackHigh
=============================================================================
