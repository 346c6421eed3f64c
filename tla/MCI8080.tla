------------------------------ MODULE MCI8080 -------------------------------
(***************************************************************************)
(* The processor with a small machine: programs at 0, the handler EI; RET  *)
(* at the RST 1 vector, four bytes of stack below 0, where sp starts.      *)
(* Other addresses read NOP, as the machines of this repository read them. *)
(***************************************************************************)
EXTENDS I8080

CONSTANT Alphabet   \* the bytes programs are made of

ProgramCells == 0 .. 5
HandlerCells == 8 .. 9
StackCells   == 65532 .. 65535
MCCell == ProgramCells \union HandlerCells \union StackCells

MCLoad(address)  == IF address \in MCCell THEN address ELSE NoCell
MCStore(address) == MCLoad(address)

\* A latch of one bit on every port.
MCDevice == {0, 1}
MCIoIn(d, port) == d
MCIoOut(d, port, v) == v % 2

\* A program of three bytes of the alphabet, then NOPs.
MemoryWith(p) ==
  [x \in MCCell |->
     IF x \in ProgramCells THEN IF x < 3 THEN p[x] ELSE 0
     ELSE IF x = 8 THEN \hfb ELSE IF x = 9 THEN \hc9 ELSE 0]

\* Every such program, running on into the handler.
Straight == { MemoryWith(p) : p \in [0 .. 2 -> Alphabet] }

\* The bound: pc stays in the program and the handler, and sp where two
\* pushes or two pops from 0 can take it.
Bounded(c) == c.pc \in 0 .. 10 /\ c.sp \in StackCells \union 0 .. 4

BoundedNext == Next /\ Bounded(ctx')
BoundedSpec == Init /\ [][BoundedNext]_ctx
=============================================================================
