---------------------------- MODULE MCInterrupts ----------------------------
(***************************************************************************)
(* Small programs for Interrupted, with two handlers that interrupt each   *)
(* other.                                                                  *)
(***************************************************************************)
EXTENDS Interrupted

CONSTANTS Alphabet,   \* the opcodes programs are made of
          Spoilers    \* the opcodes handlers ruin the status with

\* LXI SP, 56; EI; three opcodes; JMP 31, a loop of one instruction.
MainCells    == 24 .. 33
HandlerCells == 8 .. 12 \union 16 .. 20
MCStackCells == StackLow .. StackHigh
MCCell == MainCells \union HandlerCells \union MCStackCells

MCLoad(address)  == IF address \in MCCell THEN address ELSE NoCell
MCStore(address) == IF address \in MCStackCells THEN address ELSE NoCell

MCDevice == {0}
MCIoIn(d, port) == 0
MCIoOut(d, port, v) == d

MCBootMem ==
  { LET main       == <<\h31, 56, 0, \hfb, p[1], p[2], p[3], \hc3, 31, 0>>
        handler(q) == <<\hf5, q, \hf1, \hfb, \hc9>>
    IN  [x \in MCCell |->
           IF x \in MainCells THEN main[x - 23]
           ELSE IF x \in 8 .. 12 THEN handler(q1)[x - 7]
           ELSE IF x \in 16 .. 20 THEN handler(q2)[x - 15] ELSE 0]
    : p \in [1 .. 3 -> Alphabet], q1 \in Spoilers, q2 \in Spoilers }
=============================================================================
