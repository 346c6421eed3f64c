---------------------------- MODULE CpmEmulator -----------------------------
(***************************************************************************)
(* i8080-emulator.c: a test program written for CP/M on the processor of   *)
(* I8080, until it halts.  Page zero is filled with HLT, and the entry of  *)
(* the operating system at 5 is replaced by OUT 1; RET: the emulator       *)
(* prints when it sees the OUT, reading the registers of the processor.    *)
(* phase tells where main is: in i8080_step ("run"), in the printing loop  *)
(* of emulator_io_outb ("print"), past the loop ("done").                  *)
(***************************************************************************)
EXTENDS I8080

CONSTANTS
  Files,      \* the test programs, sequences of bytes
  Modelled,   \* the bound: the memory addresses whose content is modelled;
              \* all others hold the 0 of calloc for ever
  Kept        \* the bound: how many characters of a call out remembers

VARIABLES
  phase,
  ch, de,    \* of emulator_io_outb
  opcount,   \* of main
  out,       \* history: what the last call of the operating system printed
  caller     \* history: the context whose CALL led to address 5

hostVars == <<phase, ch, de, opcount, out, caller>>
vars == <<ctx, hostVars>>

offset == 256       \* 0x100, where main loads the file
memory_size == 65535
Dollar == 36

\* The cell emulator_read_byte and emulator_write_byte reach.
memory_cell(address) ==
  IF memory_size > address /\ address \in Modelled THEN address ELSE NoCell

\* emulator_load_file: calloc, then the file.
Loaded(file) ==
  [x \in Modelled |->
     IF x \in offset .. offset + Len(file) - 1 THEN file[x - offset + 1] ELSE 0]

\* Fault: RET is patched in one address too far.
Patched_late(m) ==
  [x \in Modelled |->
     CASE x = 5 -> \hd3 [] x = 6 -> \h01 [] x = 8 -> \hc9
       [] x < 256 /\ x \notin {5, 6, 8} -> \h76
       [] x >= 256 -> m[x]]

\* main: HLTs for when the test finishes, the patch over the BDOS entry.
Patched(m) ==
  [x \in Modelled |->
     CASE x = 5 -> \hd3 [] x = 6 -> \h01 [] x = 7 -> \hc9
       [] x < 256 /\ x \notin {5, 6, 7} -> \h76
       [] x >= 256 -> m[x]]

memories == {Patched(Loaded(file)) : file \in Files}

\* What main makes of the machine of I8080: the memory above, one start, and
\* no interrupts.
CpmHost ==
  /\ \A address \in Word :
       Load(address) = memory_cell(address) /\ Store(address) = memory_cell(address)
  /\ 5 .. 7 \subseteq Modelled
  /\ BootMem = memories /\ BootPC = {offset}
  /\ IntOpcodes = {}

CpmInit ==
  /\ Init
  /\ phase = "run" /\ ch = 0 /\ de = 0 /\ opcount = 0
  /\ out = <<>> /\ caller = ctx

\* emulator_io_inb, and the effect of emulator_io_outb on the processor: none.
io_inb(d, port) == 0
io_outb(d, port, v) == d

\* Fault: the address stops at the last one and does not wrap.
next_saturates(address) == IF address = 65535 THEN address ELSE address + 1

\* de++ in uint16_t.
next(address) == Up(address, 1)

\* putchar, as far as out remembers it.
printed(s, c) == IF Len(s) < Kept THEN Append(s, c) ELSE s

\* emulator_io_outb at port 1: C is the function of the operating system.
bdos ==
  /\ IF ctx.reg["c"] = 9
     THEN /\ phase' = "print"
          /\ ch' = read_byte(ctx, get_pair(ctx, DE))
          /\ de' = next(get_pair(ctx, DE))
     ELSE UNCHANGED <<phase, ch, de>>
  /\ out' = IF ctx.reg["c"] = 2 THEN <<ctx.reg["e"]>> ELSE <<>>

\* The next step is an OUT to port 1, or a CALL of the operating system.
Outs  == byte_at_pc(ctx) = \hd3 /\ read_byte(ctx, Up(ctx.pc, 1)) = 1
Calls == byte_at_pc(ctx) = \hcd /\ word_at_pc(skip(ctx, 1)) = 5

\* The loop of main.  The callback runs inside the OUT; as it changes nothing
\* of the processor, the instruction is taken whole before the printing.
Step ==
  /\ phase = "run"
  /\ ~ctx.halted
  /\ i8080_step
  /\ opcount' = opcount + 1
  /\ IF Outs THEN bdos ELSE UNCHANGED <<phase, ch, de, out>>
  /\ caller' = IF Calls THEN ctx ELSE caller

\* Fault: the terminator is printed as well.
PrintRound_dollar ==
  /\ phase = "print"
  /\ out' = printed(out, ch)
  /\ IF ch = Dollar
     THEN phase' = "run" /\ UNCHANGED <<ch, de>>
     ELSE ch' = read_byte(ctx, de) /\ de' = next(de) /\ UNCHANGED phase
  /\ UNCHANGED <<ctx, opcount, caller>>

\* The test of the printing loop and one round of it.
PrintRound ==
  /\ phase = "print"
  /\ IF ch = Dollar
     THEN phase' = "run" /\ UNCHANGED <<ch, de, out>>
     ELSE /\ out' = printed(out, ch)
          /\ ch' = read_byte(ctx, de) /\ de' = next(de)
          /\ UNCHANGED phase
  /\ UNCHANGED <<ctx, opcount, caller>>

\* The processor has halted: main prints its counts and ends.
Finish ==
  /\ phase = "run"
  /\ ctx.halted
  /\ phase' = "done"
  /\ UNCHANGED <<ctx, ch, de, opcount, out, caller>>

CpmNext == Step \/ PrintRound \/ Finish

\* A single thread with nothing to wait for.
CpmSpec == CpmInit /\ [][CpmNext]_vars /\ WF_vars(CpmNext)

-----------------------------------------------------------------------------
\* A program that leaves the patched bytes alone, and gets to them by a CALL.
Disciplined ==
  [][/\ \A x \in 5 .. 7 : read_byte(ctx', x) = read_byte(ctx, x)
     /\ ctx'.pc \in 5 .. 7 =>
          (ctx.pc = 5 /\ ctx'.pc = 7) \/ (Calls /\ ctx'.pc = 5)]_ctx

(* Where the stack is memory, a CALL 5 comes back to the instruction after *)
(* it, with every register, the flags and sp as they were: the patched OUT *)
(* and RET find the return address under whatever was printed meanwhile.   *)
CallsReturn ==
  [][ctx.pc = 7 /\ ctx' # ctx /\ PushInRAM(caller) =>
       /\ ctx'.pc = Up(caller.pc, 3) /\ ctx'.sp = caller.sp
       /\ ctx'.reg = caller.reg /\ ctx'.f = caller.f]_vars

\* The bytes from an address up to the first '$', the address wrapping.
Message(address) ==
  LET at(n) == read_byte(ctx, Up(address, n))
      size  == CHOOSE n \in Word : at(n) = Dollar /\ \A k \in 0 .. n - 1 : at(k) # Dollar
  IN  [k \in 1 .. size |-> at(k - 1)]

(* Function 9 has printed the bytes from DE to the first '$' exactly, over *)
(* the end of the address space too, function 2 the character in E, any    *)
(* other function nothing, by the time the call is about to return.        *)
PrintsMessage ==
  phase = "run" /\ ctx.pc = 7 =>
    out = CASE ctx.reg["c"] = 2 -> <<ctx.reg["e"]>>
            [] ctx.reg["c"] = 9 -> Message(get_pair(ctx, DE))
            [] ctx.reg["c"] \notin {2, 9} -> <<>>

(* A program that ends by a jump, a restart or a return to page zero, or   *)
(* whose call is lost because the stack has no memory, ends the run; only  *)
(* printing a message in a memory that holds no '$' anywhere never ends.   *)
RunEnds ==
  \/ <>(phase = "done")
  \/ <>[](phase = "print" /\ \A x \in Cell : ctx.mem[x] # Dollar)
=============================================================================
