------------------------------ MODULE MCOpcodes -----------------------------
(***************************************************************************)
(* Every opcode in a few contexts, on the memory map of space-invaders.c   *)
(* with blocks of 32 bytes.  A prologue in ROM loads sp, the accumulator   *)
(* with the flags, and HL; then comes the opcode with two operand bytes,   *)
(* then HLT, which also fills the rest of ROM and RAM.                     *)
(***************************************************************************)
EXTENDS Generators

CONSTANTS Statuses, Operands   \* the program status words, the operands

Bus == INSTANCE SiMachine WITH
  Block <- 32, MemorySize <- 98, Values <- Byte, Amounts <- Byte,
  memory <- ctx.mem, shift0 <- 0, shift1 <- 0, shift_offset <- 0,
  older <- 0, newer <- 0, amount <- 0

NoWhere == -1
MCCell == 0 .. 97
MCLoad(address)  == Bus!ReadCell(address)
MCStore(address) == IF Bus!Writable(address) THEN address ELSE NoWhere

\* A latch of one bit on the ports below 64; the others read 255.
MCDevice == {0, 1}
MCIoIn(d, port) == IF port < 64 THEN d ELSE 255
MCIoOut(d, port, v) == IF port < 64 THEN v % 2 ELSE d

\* LXI SP, 32; POP PSW; POP H; opcode; operand low; operand high.
\* The stack at 32 holds the status, then HL: the address of cell 38.
Program(op, psw, w) ==
  LET code == <<\h31, 32, 0, \hf1, \he1, op, lo(w), hi(w)>>
      data == <<lo(psw), hi(psw), 38, 0, 6, 0, 129, 33, 40, 255>>
  IN  [x \in MCCell |->
         IF x < 8 THEN code[x + 1]
         ELSE IF x \in 32 .. 41 THEN data[x - 31]
         ELSE IF x < 64 THEN \h76 ELSE 0]

\* LXI SP, 32; POP PSW; POP H; JMP to cell 33, where the accumulator lies as
\* the opcode of a call and HL as its operand: the stack is at its operand now.
Overlapped(call, to, w) ==
  LET code == <<\h31, 32, 0, \hf1, \he1, \hc3, to, 0>>
      data == <<0, call, lo(w), hi(w)>>
  IN  [x \in MCCell |->
         IF x < 8 THEN code[x + 1]
         ELSE IF x \in 32 .. 35 THEN data[x - 31]
         ELSE IF x < 64 THEN \h76 ELSE 0]

\* Cell 33 has its own address and one in the mirror.
MCBootMem ==
  { Program(op, psw, w) : op \in Byte, psw \in Statuses, w \in Operands }
    \union { Overlapped(call, to, w) : call \in {\hcd, \hc4}, to \in {33, 65}, w \in Operands }
=============================================================================
