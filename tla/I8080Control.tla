---------------------------- MODULE I8080Control ----------------------------
(***************************************************************************)
(* What the processor promises the machine built around it, with the       *)
(* registers and the memory left out: when it runs, when it sleeps, when   *)
(* it takes an interrupt, and how far each step moves the cycle counter by *)
(* which the machine tells the time.  I8080 implements this specification. *)
(***************************************************************************)
EXTENDS Integers

CONSTANTS
  CycleMod,     \* number of values of the cycle counter, 2^64 in the code
  IntOpcodes,   \* the opcodes the machine passes to i8080_interrupt
  HostOpcodes   \* the opcodes the machine passes to i8080_exec_opcode

ASSUME ControlAssumption ==
  /\ CycleMod \in Nat \ {0}
  /\ IntOpcodes \subseteq 0 .. 255
  /\ HostOpcodes \subseteq 0 .. 255

VARIABLES halted, int_enable, int_requested, int_opcode, cycles
vars == <<halted, int_enable, int_requested, int_opcode, cycles>>

NOP == 0
HLT == 118
DI  == 243
EI  == 251

\* The cheapest instruction takes 4 cycles and the dearest, XTHL, 18.
Costs == 4 .. 18

Init ==
  /\ halted = FALSE
  /\ int_enable = FALSE
  /\ int_requested = FALSE
  /\ int_opcode = NOP
  /\ cycles = 0

\* A request INTE allows: the next step takes it.
Accepting == int_requested /\ int_enable

\* No step changes anything until a request comes.
Asleep == halted /\ ~Accepting

\* Executing op from the control state <<h, e>>.
Effect(op, h, e) ==
  /\ halted' = (h \/ op = HLT)
  /\ int_enable' = (op = EI \/ (op # DI /\ e))
  /\ \E k \in Costs : cycles' = (cycles + k) % CycleMod

\* i8080_interrupt: the single request slot takes the new opcode.
Request(op) ==
  /\ int_requested' = TRUE
  /\ int_opcode' = op
  /\ UNCHANGED <<halted, int_enable, cycles>>

\* Fault of the acknowledgement: further requests stay allowed.
Acknowledge_unmasked ==
  /\ Accepting
  /\ int_requested' = FALSE
  /\ Effect(int_opcode, FALSE, TRUE)
  /\ UNCHANGED int_opcode

\* i8080_step with a request allowed: the processor wakes, masks further
\* requests and executes the requested opcode.
Acknowledge ==
  /\ Accepting
  /\ int_requested' = FALSE
  /\ Effect(int_opcode, FALSE, FALSE)
  /\ UNCHANGED int_opcode

\* Faults: a halted processor fetches; nothing is fetched while a request is
\* pending, allowed or not; requests are not looked at before the fetch.
Execute_halted(op) ==
  /\ ~Accepting
  /\ Effect(op, FALSE, int_enable)
  /\ UNCHANGED <<int_requested, int_opcode>>
Execute_blocked(op) ==
  /\ ~halted
  /\ ~int_requested
  /\ Effect(op, FALSE, int_enable)
  /\ UNCHANGED <<int_requested, int_opcode>>

Execute_first(op) ==
  /\ ~halted
  /\ Effect(op, FALSE, int_enable)
  /\ UNCHANGED <<int_requested, int_opcode>>

\* i8080_step otherwise, with some opcode fetched from memory.
Execute(op) ==
  /\ ~halted
  /\ ~Accepting
  /\ Effect(op, FALSE, int_enable)
  /\ UNCHANGED <<int_requested, int_opcode>>

\* i8080_exec_opcode called by the machine: no request is looked at and a
\* halted processor stays halted.
Inject(op) ==
  /\ Effect(op, halted, int_enable)
  /\ UNCHANGED <<int_requested, int_opcode>>

Step == Acknowledge \/ \E op \in 0 .. 255 : Execute(op)

Next ==
  \/ \E op \in IntOpcodes : Request(op)
  \/ Step
  \/ \E op \in HostOpcodes : Inject(op)

Spec == Init /\ [][Next]_vars

-----------------------------------------------------------------------------
TypeOK ==
  /\ halted \in BOOLEAN
  /\ int_enable \in BOOLEAN
  /\ int_requested \in BOOLEAN
  /\ int_opcode \in 0 .. 255
  /\ cycles \in 0 .. CycleMod - 1

(* The only way out of HLT is the step that accepts a request, and that    *)
(* step consumes the request: nothing else that sets or clears a flag of   *)
(* the processor (DI, EI, a request, a masked step) wakes it.              *)
WakesOnlyByAcknowledge ==
  [][halted /\ ~halted' => Accepting /\ ~int_requested']_vars

(* A request is never dropped while interrupts are masked, and whatever    *)
(* takes it masks the next one, unless the opcode it runs is EI.           *)
RequestTakenOnce ==
  [][int_requested /\ ~int_requested' =>
       int_enable /\ (int_enable' => int_opcode = EI)]_vars

(* Asleep, the processor does not move the cycle counter.  A machine that  *)
(* tells the time by the counter alone never sees time pass from then on.  *)
ClockStopsAsleep ==
  [][Asleep => cycles' = cycles \/ \E op \in HostOpcodes : Inject(op)]_vars
=============================================================================
