------------------------- MODULE I8080ControlProofs -------------------------
(***************************************************************************)
(* The promises of I8080Control, for every set of opcodes the machine      *)
(* requests and injects and every width of the cycle counter.  I8080Proofs *)
(* shows that i8080.c implements I8080Control, so it keeps them too.       *)
(***************************************************************************)
EXTENDS I8080Control, TLAPS

LEMMA EffectTyped ==
  ASSUME NEW op, NEW h \in BOOLEAN, NEW e \in BOOLEAN, cycles \in 0 .. CycleMod - 1,
         Effect(op, h, e)
  PROVE  /\ halted' \in BOOLEAN /\ int_enable' \in BOOLEAN
         /\ cycles' \in 0 .. CycleMod - 1
<1>1. PICK k \in Costs : cycles' = (cycles + k) % CycleMod
  BY DEF Effect
<1>2. (cycles + k) % CycleMod \in 0 .. CycleMod - 1
  <2>1. cycles + k \in Int /\ CycleMod \in Nat \ {0}
    BY ControlAssumption DEF ControlAssumption, Costs
  <2>2. QED  BY <2>1, Z3
<1>3. QED  BY <1>1, <1>2 DEF Effect

(* The control state keeps its types.                                      *)
THEOREM Types == Spec => []TypeOK
<1>1. Init => TypeOK
  <2>1. 0 \in 0 .. CycleMod - 1 /\ NOP \in 0 .. 255
    BY ControlAssumption DEF ControlAssumption, NOP
  <2>2. QED  BY <2>1 DEF Init, TypeOK
<1>2. TypeOK /\ [Next]_vars => TypeOK'
  <2> SUFFICES ASSUME TypeOK, [Next]_vars PROVE TypeOK'
    OBVIOUS
  <2>1. ASSUME NEW op \in IntOpcodes, Request(op) PROVE TypeOK'
    BY <2>1, ControlAssumption DEF Request, TypeOK, ControlAssumption
  <2>2. CASE Acknowledge
    BY <2>2, EffectTyped DEF Acknowledge, TypeOK
  <2>3. ASSUME NEW op \in 0 .. 255, Execute(op) PROVE TypeOK'
    BY <2>3, EffectTyped DEF Execute, TypeOK
  <2>4. ASSUME NEW op \in HostOpcodes, Inject(op) PROVE TypeOK'
    BY <2>4, EffectTyped DEF Inject, TypeOK
  <2>5. CASE UNCHANGED vars
    BY <2>5 DEF vars, TypeOK
  <2>6. QED  BY <2>1, <2>2, <2>3, <2>4, <2>5 DEF Next, Step
<1>3. QED  BY <1>1, <1>2, PTL DEF Spec

(* i8080_step wakes a halted processor by taking a request and in no other *)
(* way.                                                                    *)
THEOREM Waking == Spec => WakesOnlyByAcknowledge
<1>1. [Next]_vars => [halted /\ ~halted' => Accepting /\ ~int_requested']_vars
  <2> SUFFICES ASSUME Next, halted, ~halted' PROVE Accepting /\ ~int_requested'
    BY DEF vars
  <2>1. ASSUME NEW op \in IntOpcodes, Request(op) PROVE FALSE
    BY <2>1 DEF Request
  <2>2. CASE Acknowledge
    BY <2>2 DEF Acknowledge
  <2>3. ASSUME NEW op \in 0 .. 255, Execute(op) PROVE FALSE
    BY <2>3 DEF Execute
  <2>4. ASSUME NEW op \in HostOpcodes, Inject(op) PROVE FALSE
    BY <2>4 DEF Inject, Effect
  <2>5. QED  BY <2>1, <2>2, <2>3, <2>4 DEF Next, Step
<1>2. QED  BY <1>1, PTL DEF Spec, WakesOnlyByAcknowledge

(* A pending request is dropped only by the step that executes it, with    *)
(* INTE set before and, unless that opcode is EI, clear after.             *)
THEOREM Requests == Spec => RequestTakenOnce
<1>1. [Next]_vars => [int_requested /\ ~int_requested' =>
                        int_enable /\ (int_enable' => int_opcode = EI)]_vars
  <2> SUFFICES ASSUME Next, int_requested, ~int_requested'
               PROVE  int_enable /\ (int_enable' => int_opcode = EI)
    BY DEF vars
  <2>1. CASE Acknowledge
    BY <2>1 DEF Acknowledge, Accepting, Effect
  <2>2. ASSUME NEW op \in IntOpcodes, Request(op) PROVE FALSE
    BY <2>2 DEF Request
  <2>3. ASSUME NEW op \in 0 .. 255, Execute(op) PROVE FALSE
    BY <2>3 DEF Execute
  <2>4. ASSUME NEW op \in HostOpcodes, Inject(op) PROVE FALSE
    BY <2>4 DEF Inject
  <2>5. QED  BY <2>1, <2>2, <2>3, <2>4 DEF Next, Step
<1>2. QED  BY <1>1, PTL DEF Spec, RequestTakenOnce

(* Halted with no request it may take, the processor leaves the cycle      *)
(* counter where it is, whatever the machine does short of injecting.      *)
THEOREM Sleeping == Spec => ClockStopsAsleep
<1>1. [Next]_vars => [Asleep => cycles' = cycles \/ \E op \in HostOpcodes : Inject(op)]_vars
  BY DEF Next, Step, Request, Acknowledge, Execute, Asleep
<1>2. QED  BY <1>1, PTL DEF Spec, ClockStopsAsleep
=============================================================================
