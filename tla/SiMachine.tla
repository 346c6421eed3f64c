------------------------------ MODULE SiMachine -----------------------------
(***************************************************************************)
(* The machine space-invaders.c puts behind the callbacks of the           *)
(* processor: the address decoder of read_byte, the one of write_byte,     *)
(* which is not the same, and the shift register behind the ports.         *)
(***************************************************************************)
EXTENDS Words

CONSTANTS
  Block,       \* 0x2000 in the code: the size of the ROM, the RAM, the mirror
  MemorySize,  \* memory_size, 0xffff in the code
  Values,      \* the bytes the game writes to memory and to port 4
  Amounts      \* the bytes it writes to port 2

ASSUME MemoryMapAssumption ==
  /\ Block \in Nat \ {0}
  /\ MemorySize \in Nat /\ MemorySize > 3 * Block
  /\ Values \subseteq Byte /\ Amounts \subseteq Byte

\* The addresses of the processor: the last of them has no memory behind it.
Address == 0 .. MemorySize

VARIABLES
  memory,
  shift0, shift1, shift_offset,   \* of struct spaceinvaders
  older, newer, amount   \* history: the last two bytes written to port 4,
                         \* the last byte written to port 2

shiftVars == <<shift0, shift1, shift_offset, older, newer, amount>>
vars == <<memory, shiftVars>>

\* Fault: the mirror has no offset.
ReadCell_no_mirror(address) ==
  IF MemorySize > address /\ address <= 3 * Block THEN address ELSE -1

\* Where read_byte looks, -1 for nowhere, and what it returns.
ReadCell(address) ==
  IF MemorySize > address /\ address <= 3 * Block
  THEN IF address < 2 * Block THEN address ELSE address - Block
  ELSE -1
read_byte(m, address) == IF ReadCell(address) = -1 THEN 0 ELSE m[ReadCell(address)]

\* Fault of the second decoder: the ROM can be written.
Writable_rom(address) == MemorySize > address /\ address <= 2 * Block

\* Where write_byte writes.
Writable(address) ==
  /\ MemorySize > address
  /\ address >= Block /\ address <= 2 * Block

\* Port 3 of io_inb: eight bits of the register, from shift_offset on.
shifted == ((256 * shift1 + shift0) \div Weight[9 - shift_offset]) % 256

\* calloc, and the file: each cell of the ROM holds a byte of its own.
Init ==
  /\ memory = [x \in 0 .. MemorySize - 1 |-> IF x < Block THEN (x + 1) % 256 ELSE 0]
  /\ shift0 = 0 /\ shift1 = 0 /\ shift_offset = 0
  /\ older = 0 /\ newer = 0 /\ amount = 0

write_byte(address, value) ==
  /\ memory' = IF Writable(address) THEN [memory EXCEPT ![address] = value] ELSE memory
  /\ UNCHANGED shiftVars

\* Fault of port 4: the new byte is stored before the old one is moved.
OutData_swapped(value) ==
  /\ shift1' = value
  /\ shift0' = value
  /\ older' = newer /\ newer' = value
  /\ UNCHANGED <<memory, shift_offset, amount>>

\* io_outb: port 4 shifts a byte in, port 2 chooses the bits to read.
OutData(value) ==
  /\ shift0' = shift1
  /\ shift1' = value
  /\ older' = newer /\ newer' = value
  /\ UNCHANGED <<memory, shift_offset, amount>>

OutOffset(value) ==
  /\ shift_offset' = value % 8
  /\ amount' = value
  /\ UNCHANGED <<memory, shift0, shift1, older, newer>>

Next ==
  \/ \E address \in Address, value \in Values : write_byte(address, value)
  \/ \E value \in Values : OutData(value)
  \/ \E value \in Amounts : OutOffset(value)

Spec == Init /\ [][Next]_vars

-----------------------------------------------------------------------------
TypeOK ==
  /\ memory \in [0 .. MemorySize - 1 -> Byte]
  /\ {shift0, shift1, older, newer, amount} \subseteq Byte
  /\ shift_offset \in 0 .. 7

(* The game cannot overwrite its program, by no address of the decoder.    *)
RomKept == \A x \in 0 .. Block - 1 : read_byte(memory, x) = (x + 1) % 256

(* What the game reads from port 3 is the byte written last to port 4, its *)
(* top bits shifted out by the amount written to port 2 and the top bits   *)
(* of the byte before shifted in, in whatever order the three came.        *)
ShifterShifts ==
  shifted = (((256 * newer + older) * Weight[1 + (amount % 8)]) \div 256) % 256

(* A byte written in RAM is what its address and its mirror then read, and *)
(* no read of another address can tell.                                    *)
WritesLand ==
  [][\A address \in Block .. 2 * Block - 1, value \in Values :
       write_byte(address, value) =>
         /\ read_byte(memory', address) = value
         /\ read_byte(memory', address + Block) = value
         /\ \/ memory' = memory
            \/ \A x \in Address \ {address, address + Block} :
                 read_byte(memory', x) = read_byte(memory, x)]_vars
=============================================================================
