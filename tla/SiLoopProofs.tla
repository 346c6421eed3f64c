---------------------------- MODULE SiLoopProofs ----------------------------
(***************************************************************************)
(* What holds of the main loop of space-invaders.c for every clock speed,  *)
(* interrupt interval, integer width and program.  The properties checked  *)
(* in SiLoop are not inductive one by one: the account of the cycles needs *)
(* the counter not to wrap, and that needs the counter to be low.  And     *)
(* what holds of the keyboard, whose handlers the loop calls, for every    *)
(* set of keys.                                                            *)
(***************************************************************************)
EXTENDS SiLoop, SiKeyboard, TLAPS

\* When a loop begins, prev_time is when the one before it began.
ClockKept == phase = "tick" => prev_time = curr_time

\* The same of need, which the loop of handle_cpu compares i with, as
\* KeepsToClock says of what the time is worth.
NoOverrun == phase \in {"run", "late", "request"} => i < need + 18
RanNeed   == Ran => i >= need /\ i < need + 18

\* A request is pending just as long as no step began that could take it.
PendingMasked == int_requested <=> masked

LoopInv ==
  /\ TypeOK /\ CounterStaysLow /\ CyclesAccounted /\ NoOverrun /\ Alternate
  /\ ClockKept /\ NoTimeMadeUp /\ RanNeed /\ PendingMasked

(* A counter below its modulus does not wrap.                              *)
LEMMA ModSmall ==
  ASSUME NEW m \in Nat \ {0}, NEW x \in Nat, x < m
  PROVE  x % m = x
  BY Z3

(* A negative difference of two unsigned integers wraps once.              *)
LEMMA ModNegative ==
  ASSUME NEW m \in Nat \ {0}, NEW x \in Int, x < 0, x + m >= 0
  PROVE  x % m = x + m
  BY Z3

(* The cycles to run are a natural number, whatever the product wrapped to.*)
LEMMA NeedNat ==
  ASSUME TypeOK
  PROVE  need \in Nat
<1>1. delta_time * SI_CLOCK_SPEED \in Nat
  BY LoopAssumption DEF TypeOK, LoopAssumption
<1>2. (delta_time * SI_CLOCK_SPEED) % ProductMod \in Nat
  BY <1>1, LoopAssumption, Z3 DEF LoopAssumption
<1>3. QED
  BY <1>2, LoopAssumption, Z3 DEF LoopAssumption, need

(* get_deltatime32 measures the time between two tick counts, one          *)
(* millisecond low when the count has wrapped and exactly otherwise.       *)
LEMMA DeltaTime ==
  ASSUME NEW prev \in 0 .. TickMod - 1, NEW curr \in 0 .. TickMod - 1
  PROVE  /\ get_deltatime32(prev, curr) \in 0 .. TickMod - 1
         /\ get_deltatime32(prev, curr)
              = IF prev > curr THEN ((curr - prev) % TickMod) - 1
                ELSE (curr - prev) % TickMod
<1>1. CASE prev > curr
  <2>1. (curr - prev) % TickMod = curr - prev + TickMod
    BY <1>1, ModNegative, LoopAssumption DEF LoopAssumption
  <2>2. get_deltatime32(prev, curr) = TickMod - 1 - prev + curr
    BY <1>1 DEF get_deltatime32
  <2>3. QED
    BY <2>1, <2>2, <1>1, LoopAssumption DEF LoopAssumption
<1>2. CASE ~(prev > curr)
  <2>1. (curr - prev) % TickMod = curr - prev
    BY <1>2, ModSmall, LoopAssumption DEF LoopAssumption
  <2>2. get_deltatime32(prev, curr) = curr - prev
    BY <1>2 DEF get_deltatime32
  <2>3. QED
    BY <2>1, <2>2, <1>2, LoopAssumption DEF LoopAssumption
<1>3. QED  BY <1>1, <1>2

(* An instruction moves the 64-bit counter by its cost and i by the same;  *)
(* a sleeping processor moves neither.                                     *)
LEMMA StepMoves ==
  ASSUME LoopInv, RunStep
  PROVE  \E k \in 0 .. 18 : /\ cycles' = cycles + k /\ i' = i + k
                            /\ k \in 4 .. 18 \/ (CPU!Asleep /\ UNCHANGED cpuVars)
<1>1. cycles \in 0 .. SI_CYCLES_PER_INT - 1
  BY LoopAssumption DEF LoopInv, TypeOK, CPU!TypeOK, CounterStaysLow, RunStep, LoopAssumption
<1>2. \E k \in 0 .. 18 : /\ cycles' = (cycles + k) % CycleMod
                         /\ k \in 4 .. 18 \/ (CPU!Asleep /\ UNCHANGED cpuVars)
  <2>1. CASE CPU!Acknowledge
    BY <2>1 DEF CPU!Acknowledge, CPU!Effect, CPU!Costs
  <2>2. CASE \E op \in Program : CPU!Execute(op)
    BY <2>2 DEF CPU!Execute, CPU!Effect, CPU!Costs
  <2>3. CASE CPU!Asleep /\ UNCHANGED cpuVars
    <3>1. cycles' = (cycles + 0) % CycleMod
      BY <2>3, <1>1, ModSmall, LoopAssumption DEF cpuVars, LoopAssumption
    <3>2. 0 \in 0 .. 18
      OBVIOUS
    <3>3. \E k \in 0 .. 18 : cycles' = (cycles + k) % CycleMod
      BY <3>1, <3>2
    <3>4. QED  BY <2>3, <3>3
  <2>4. QED  BY <2>1, <2>2, <2>3 DEF RunStep
<1>3. PICK k \in 0 .. 18 : /\ cycles' = (cycles + k) % CycleMod
                           /\ k \in 4 .. 18 \/ (CPU!Asleep /\ UNCHANGED cpuVars)
  BY <1>2
<1>4. cycles' = cycles + k
  <2>1. CycleMod \in Nat \ {0} /\ cycles + k \in Nat /\ cycles + k < CycleMod
    BY <1>1, LoopAssumption DEF LoopAssumption
  <2>2. (cycles + k) % CycleMod = cycles + k
    BY <2>1, ModSmall
  <2>3. cycles' = (cycles + k) % CycleMod
    BY <1>3
  <2>4. QED  BY <2>2, <2>3
<1>5. (cycles' - cycles) % CycleMod = k
  <2>1. CycleMod \in Nat \ {0} /\ k \in Nat /\ k < CycleMod
    BY LoopAssumption DEF LoopAssumption
  <2>2. cycles' - cycles = k
    BY <1>1, <1>4, LoopAssumption DEF LoopAssumption
  <2>3. QED  BY <2>1, <2>2, ModSmall
<1>6. i' = i + k
  BY <1>5 DEF RunStep
<1>7. k \in 4 .. 18 \/ (CPU!Asleep /\ UNCHANGED cpuVars)
  BY <1>3
<1>8. QED
  BY <1>4, <1>6, <1>7

-----------------------------------------------------------------------------
LEMMA InitEstablishes ==
  Init => LoopInv
<1>1. SUFFICES ASSUME Init PROVE LoopInv
  OBVIOUS
<1>2. TypeOK
  <2>1. 0 \in 0 .. TickMod - 1 /\ 0 \in 0 .. CycleMod - 1
    BY LoopAssumption DEF LoopAssumption
  <2>2. CPU!TypeOK
    <3>1. int_opcode \in 0 .. 255 /\ cycles \in 0 .. CycleMod - 1
      BY <1>1, <2>1 DEF Init, CPU!Init, CPU!NOP
    <3>2. QED
      BY <1>1, <3>1, Zenon DEF Init, CPU!Init, CPU!TypeOK
  <2>3. QED
    BY <1>1, <2>1, <2>2 DEF Init, InputInit, TypeOK
<1>3. /\ CounterStaysLow /\ CyclesAccounted /\ NoOverrun /\ Alternate /\ ClockKept
      /\ NoTimeMadeUp /\ RanNeed /\ PendingMasked
  BY <1>1, LoopAssumption
     DEF Init, CPU!Init, CPU!NOP, CounterStaysLow, CyclesAccounted, NoOverrun, Alternate,
         ClockKept, NoTimeMadeUp, RanNeed, Ran, PendingMasked, LoopAssumption, RST1, RST2
<1>4. QED
  BY <1>2, <1>3 DEF LoopInv

(* SDL_GetTicks: an elapsed time is measured, at most one millisecond low. *)
LEMMA TickKeeps ==
  ASSUME LoopInv, Tick
  PROVE  LoopInv'
<1> USE DEF LoopInv
<1>1. curr_time' \in 0 .. TickMod - 1 /\ prev_time \in 0 .. TickMod - 1
  <2>1. PICK ms \in 0 .. MaxAdvance : curr_time' = (curr_time + ms) % TickMod
    BY DEF Tick
  <2>2. curr_time + ms \in Nat
    BY LoopAssumption DEF TypeOK, LoopAssumption
  <2>3. QED
    BY <2>1, <2>2, LoopAssumption, Z3 DEF TypeOK, LoopAssumption
<1>2. /\ delta_time' = get_deltatime32(prev_time, curr_time')
      /\ elapsed' = (curr_time' - curr_time) % TickMod
  BY DEF Tick
<1>3. delta_time' \in 0 .. TickMod - 1
  BY <1>1, <1>2, DeltaTime
<1>4. elapsed' \in 0 .. TickMod - 1
  <2>1. curr_time' - curr_time \in Int
    BY <1>1 DEF TypeOK
  <2>2. QED
    BY <1>2, <2>1, LoopAssumption, Z3 DEF LoopAssumption
<1>5. /\ delta_time' = IF prev_time > curr_time' THEN elapsed' - 1 ELSE elapsed'
      /\ prev_time' = prev_time
  <2>1. prev_time = curr_time /\ prev_time' = prev_time
    BY DEF Tick, ClockKept
  <2>2. QED  BY <1>1, <1>2, <2>1, DeltaTime
<1>6. TypeOK'
  BY <1>1, <1>3, <1>4 DEF Tick, TypeOK, CPU!TypeOK, inputVars, cpuVars, runVars
<1>7. /\ CounterStaysLow' /\ CyclesAccounted' /\ NoOverrun' /\ Alternate' /\ ClockKept'
      /\ RanNeed' /\ PendingMasked'
  BY DEF Tick, CounterStaysLow, CyclesAccounted, NoOverrun, Alternate, ClockKept, RanNeed, Ran,
         PendingMasked, cpuVars
<1>8. NoTimeMadeUp'
  BY <1>5 DEF Tick, NoTimeMadeUp
<1>9. QED
  BY <1>6, <1>7, <1>8

(* Events touch the ports and the flags only.                              *)
LEMMA EventKeeps ==
  ASSUME LoopInv, Event
  PROVE  LoopInv'
<1> USE DEF LoopInv
<1>1. UNCHANGED <<cpuVars, timeVars, runVars, next_int, phase, elapsed, masked>>
      /\ phase = "poll"
  BY DEF Event
<1>2. inp1' \subseteq 0 .. 7 /\ inp2' \subseteq 0 .. 7
  <2>1. \A key \in ControlKeys : BitOfKey[key] \in 0 .. 7
    BY DEF ControlKeys, BitOfKey
  <2>2. CASE Quit
    BY <2>2 DEF Quit, TypeOK
  <2>3. CASE \E key \in Keys : handle_keydown(key) \/ handle_keyup(key)
    BY <2>1, <2>3 DEF handle_keydown, handle_keyup, TypeOK
  <2>4. QED  BY <2>2, <2>3 DEF Event
<1>3. exit_flag' \in BOOLEAN /\ pause_flag' \in BOOLEAN /\ color_flag' \in BOOLEAN
  BY DEF Event, Quit, handle_keydown, handle_keyup, TypeOK
<1>4. CPU!TypeOK'
  BY <1>1 DEF TypeOK, CPU!TypeOK, cpuVars
<1>5. TypeOK'
  BY <1>1, <1>2, <1>3, <1>4 DEF TypeOK, timeVars, runVars
<1>6. CounterStaysLow' /\ CyclesAccounted' /\ Alternate'
  BY <1>1 DEF CounterStaysLow, CyclesAccounted, Alternate, cpuVars, runVars
<1>7. NoOverrun' /\ ClockKept' /\ NoTimeMadeUp' /\ RanNeed' /\ PendingMasked'
  BY <1>1 DEF NoOverrun, ClockKept, NoTimeMadeUp, RanNeed, Ran, PendingMasked, need,
              cpuVars, timeVars, runVars
<1>8. QED
  BY <1>5, <1>6, <1>7

(* handle_cpu begins: nothing has run, and what was left over is counted.  *)
LEMMA PollEndKeeps ==
  ASSUME LoopInv, PollEnd
  PROVE  LoopInv'
<1> USE DEF LoopInv
<1>1. UNCHANGED <<inputVars, cpuVars, timeVars, next_int, elapsed, masked>>
      /\ i' = 0 /\ start' = cycles /\ ints' = 0
  BY DEF PollEnd
<1>2. phase = "poll" /\ phase' \in {"run", "rest"}
      /\ (phase' = "rest" => ~(delta_time > 0 /\ ~pause_flag))
  BY DEF PollEnd
<1>3. cycles \in 0 .. CycleMod - 1 /\ cycles \in Nat
  BY LoopAssumption DEF TypeOK, CPU!TypeOK, LoopAssumption
<1>4. TypeOK'
  BY <1>1, <1>2, <1>3 DEF TypeOK, CPU!TypeOK, inputVars, cpuVars, timeVars
<1>5. CounterStaysLow' /\ Alternate' /\ ClockKept' /\ NoTimeMadeUp'
  BY <1>1, <1>2 DEF CounterStaysLow, Alternate, ClockKept, NoTimeMadeUp, cpuVars, timeVars
<1>6. CyclesAccounted'
  BY <1>1, <1>2, <1>3, LoopAssumption DEF CyclesAccounted, cpuVars, LoopAssumption
<1>7. NoOverrun'
  <2>1. need' = need /\ need \in Nat
    BY <1>1, NeedNat DEF need, timeVars
  <2>2. QED  BY <2>1, <1>1 DEF NoOverrun
<1>8. RanNeed' /\ PendingMasked'
  BY <1>1, <1>2 DEF RanNeed, Ran, PendingMasked, inputVars, cpuVars, timeVars
<1>9. QED
  BY <1>4, <1>5, <1>6, <1>7, <1>8

(* An instruction, an acknowledgement or sleep.                            *)
LEMMA RunStepKeeps ==
  ASSUME LoopInv, RunStep
  PROVE  LoopInv'
<1> USE DEF LoopInv
<1>1. PICK k \in 0 .. 18 : cycles' = cycles + k /\ i' = i + k
  BY StepMoves
<1>2. UNCHANGED <<inputVars, timeVars, start, ints, next_int, elapsed>>
      /\ masked' = (masked /\ ~int_enable)
  BY DEF RunStep
<1>3. phase = "run" /\ i < need /\ cycles \in 0 .. SI_CYCLES_PER_INT - 1
  BY LoopAssumption DEF RunStep, TypeOK, CPU!TypeOK, CounterStaysLow, LoopAssumption
<1>4. phase' = IF cycles' >= SI_CYCLES_PER_INT THEN "late" ELSE "run"
  BY DEF RunStep
<1>5. int_opcode' = int_opcode /\ (int_requested' => int_requested)
  <2>1. int_opcode' = int_opcode
    BY DEF RunStep, CPU!Acknowledge, CPU!Execute, cpuVars
  <2>2. int_requested' = FALSE \/ int_requested' = int_requested
    BY Zenon DEF RunStep, CPU!Acknowledge, CPU!Execute, cpuVars
  <2>3. QED  BY <2>1, <2>2
<1>6. TypeOK'
  <2>1. cycles' \in 0 .. CycleMod - 1 /\ i' \in Nat
    BY <1>1, <1>3, LoopAssumption DEF LoopAssumption, TypeOK
  <2>2. halted' \in BOOLEAN /\ int_enable' \in BOOLEAN /\ int_requested' \in BOOLEAN
    BY Zenon DEF RunStep, CPU!Acknowledge, CPU!Execute, CPU!Effect, cpuVars, TypeOK, CPU!TypeOK
  <2>3. CPU!TypeOK'
    BY <2>1, <2>2, <1>5 DEF TypeOK, CPU!TypeOK
  <2>4. QED
    BY <2>1, <2>3, <1>2, <1>4 DEF TypeOK, inputVars, timeVars
<1>7. CounterStaysLow'
  BY <1>1, <1>3, <1>4, LoopAssumption DEF CounterStaysLow, LoopAssumption
<1>8. CyclesAccounted'
  <2>1. start + i = cycles + SI_CYCLES_PER_INT * ints
    BY <1>3 DEF CyclesAccounted
  <2>2. SI_CYCLES_PER_INT * ints \in Nat /\ start \in Nat /\ i \in Nat /\ cycles \in Nat
    BY <1>3, LoopAssumption DEF TypeOK, LoopAssumption
  <2>3. start + (i + k) = (cycles + k) + SI_CYCLES_PER_INT * ints
    BY <2>1, <2>2
  <2>4. QED
    BY <2>3, <1>1, <1>2, <1>4 DEF CyclesAccounted
<1>9. NoOverrun'
  <2>1. need' = need /\ need \in Nat /\ i \in Nat
    BY <1>2, NeedNat DEF need, timeVars, TypeOK
  <2>2. i' < need + 18
    BY <2>1, <1>1, <1>3
  <2>3. QED  BY <2>1, <2>2 DEF NoOverrun
<1>10. Alternate' /\ ClockKept' /\ NoTimeMadeUp'
  BY <1>2, <1>3, <1>4, <1>5 DEF Alternate, ClockKept, NoTimeMadeUp, timeVars
<1>11. RanNeed'
  BY <1>4 DEF RanNeed, Ran
<1>12. PendingMasked'
  <2>1. CPU!Acknowledge \/ ~CPU!Accepting
    BY DEF RunStep, CPU!Execute, CPU!Asleep
  <2>2. CPU!Acknowledge => int_requested' = FALSE
    BY Zenon DEF CPU!Acknowledge
  <2>3. int_requested' <=> int_requested /\ ~int_enable
    <3>1. CPU!Acknowledge => int_enable
      BY Zenon DEF CPU!Acknowledge, CPU!Accepting
    <3>2. ~CPU!Acknowledge => int_requested' = int_requested
      BY Zenon DEF RunStep, CPU!Execute, cpuVars
    <3>3. CASE CPU!Acknowledge
      BY <3>3, <2>2, <3>1
    <3>4. CASE ~CPU!Acknowledge
      BY <3>4, <2>1, <3>2 DEF CPU!Accepting
    <3>5. QED  BY <3>3, <3>4
  <2>4. QED  BY <2>3, <1>2, Zenon DEF PendingMasked
<1>13. QED
  BY <1>6, <1>7, <1>8, <1>9, <1>10, <1>11, <1>12

(* The counter is set back by one interval.                                *)
LEMMA RebaseKeeps ==
  ASSUME LoopInv, Rebase
  PROVE  LoopInv'
<1> USE DEF LoopInv
<1>1. /\ UNCHANGED <<inputVars, halted, int_enable, int_requested, int_opcode,
                     timeVars, runVars, next_int, elapsed, masked>>
      /\ cycles' = cycles - SI_CYCLES_PER_INT
      /\ phase = "late" /\ phase' = "request"
  BY DEF Rebase
<1>2. cycles - SI_CYCLES_PER_INT \in 0 .. 17
  BY <1>1 DEF CounterStaysLow
<1>3. cycles' \in 0 .. CycleMod - 1
  BY <1>1, <1>2, LoopAssumption DEF LoopAssumption
<1>4. TypeOK'
  BY <1>1, <1>3 DEF TypeOK, CPU!TypeOK, inputVars, timeVars, runVars
<1>5. CounterStaysLow'
  BY <1>1, <1>2, LoopAssumption DEF CounterStaysLow, LoopAssumption
<1>6. CyclesAccounted'
  <2>1. start + i = cycles + SI_CYCLES_PER_INT * ints
    BY <1>1 DEF CyclesAccounted
  <2>2. /\ SI_CYCLES_PER_INT \in Int /\ ints \in Int
        /\ cycles \in Int /\ SI_CYCLES_PER_INT * ints \in Int
    BY LoopAssumption DEF TypeOK, CPU!TypeOK, LoopAssumption
  <2>3. SI_CYCLES_PER_INT * (ints + 1) = SI_CYCLES_PER_INT * ints + SI_CYCLES_PER_INT
    BY <2>2
  <2>4. start + i = (cycles - SI_CYCLES_PER_INT) + SI_CYCLES_PER_INT * (ints + 1)
    BY <2>1, <2>2, <2>3
  <2>5. QED
    BY <2>4, <1>1 DEF CyclesAccounted, runVars
<1>7. /\ NoOverrun' /\ Alternate' /\ ClockKept' /\ NoTimeMadeUp' /\ RanNeed'
      /\ PendingMasked'
  BY <1>1 DEF NoOverrun, Alternate, ClockKept, NoTimeMadeUp, RanNeed, Ran, PendingMasked,
              need, timeVars, runVars
<1>8. QED
  BY <1>4, <1>5, <1>6, <1>7

(* The request, and the choice of the next.                                *)
LEMMA InterruptKeeps ==
  ASSUME LoopInv, Interrupt
  PROVE  LoopInv'
<1> USE DEF LoopInv
<1>1. /\ UNCHANGED <<inputVars, timeVars, i, start, elapsed>>
      /\ UNCHANGED <<halted, int_enable, cycles>>
      /\ int_requested' = TRUE /\ int_opcode' = next_int
      /\ next_int' = IF next_int = RST1 THEN RST2 ELSE RST1
      /\ ints' = ints + 1 /\ masked' = TRUE
      /\ phase = "request" /\ phase' = "run"
  BY Zenon DEF Interrupt, CPU!Request
<1>2. next_int \in 0 .. 255 /\ next_int' \in {RST1, RST2} /\ next_int' # next_int
  BY <1>1 DEF TypeOK, RST1, RST2
<1>3. TypeOK'
  <2>1. int_requested' \in BOOLEAN
    BY <1>1, Zenon
  <2>2. CPU!TypeOK'
    BY <1>1, <1>2, <2>1 DEF TypeOK, CPU!TypeOK
  <2>3. QED
    BY <1>1, <1>2, <2>2 DEF TypeOK, inputVars, timeVars
<1>4. CounterStaysLow' /\ CyclesAccounted' /\ NoOverrun' /\ ClockKept' /\ NoTimeMadeUp'
  BY <1>1 DEF CounterStaysLow, CyclesAccounted, NoOverrun, ClockKept, NoTimeMadeUp,
              need, timeVars
<1>5. Alternate'
  BY <1>1, <1>2 DEF Alternate, TypeOK
<1>6. RanNeed' /\ PendingMasked'
  BY <1>1 DEF RanNeed, Ran, PendingMasked
<1>7. QED
  BY <1>3, <1>4, <1>5, <1>6

(* handle_cpu returns; spaceinvaders_loop returns.                         *)
LEMMA RunEndKeeps ==
  ASSUME LoopInv, RunEnd
  PROVE  LoopInv'
<1> USE DEF LoopInv
<1>1. /\ UNCHANGED <<inputVars, cpuVars, timeVars, runVars, next_int, elapsed, masked>>
      /\ phase = "run" /\ phase' = "rest" /\ i >= need
  BY DEF RunEnd
<1>2. TypeOK'
  BY <1>1 DEF TypeOK, CPU!TypeOK, inputVars, cpuVars, timeVars, runVars
<1>3. RanNeed' /\ PendingMasked'
  BY <1>1 DEF RanNeed, NoOverrun, PendingMasked, need, cpuVars, timeVars, runVars
<1>4. QED
  BY <1>1, <1>2, <1>3 DEF CounterStaysLow, CyclesAccounted, NoOverrun, Alternate,
                          ClockKept, NoTimeMadeUp, cpuVars, timeVars

LEMMA RestKeeps ==
  ASSUME LoopInv, Rest
  PROVE  LoopInv'
<1> USE DEF LoopInv
<1>1. /\ UNCHANGED <<inputVars, cpuVars, curr_time, delta_time, runVars, next_int,
                     elapsed, masked>>
      /\ prev_time' = curr_time
      /\ phase = "rest" /\ phase' \in {"done", "tick"}
  BY DEF Rest
<1>2. TypeOK'
  BY <1>1 DEF TypeOK, CPU!TypeOK, inputVars, cpuVars, runVars
<1>3. QED
  BY <1>1, <1>2 DEF CounterStaysLow, CyclesAccounted, NoOverrun, Alternate, ClockKept,
                    NoTimeMadeUp, RanNeed, Ran, PendingMasked, cpuVars

LEMMA StutterKeeps ==
  ASSUME LoopInv, UNCHANGED vars
  PROVE  LoopInv'
<1>1. UNCHANGED <<inputVars, cpuVars, timeVars, runVars, next_int, phase, elapsed, masked>>
  BY DEF vars
<1>2. TypeOK'
  BY <1>1 DEF LoopInv, TypeOK, CPU!TypeOK, inputVars, cpuVars, timeVars, runVars
<1>3. QED
  BY <1>1, <1>2 DEF LoopInv, CounterStaysLow, CyclesAccounted, NoOverrun, Alternate,
                    ClockKept, NoTimeMadeUp, RanNeed, Ran, PendingMasked, need,
                    inputVars, cpuVars, timeVars, runVars

-----------------------------------------------------------------------------
LEMMA Invariance ==
  Spec => []LoopInv
<1>1. LoopInv /\ [Next]_vars => LoopInv'
  BY TickKeeps, EventKeeps, PollEndKeeps, RunStepKeeps, RebaseKeeps, InterruptKeeps,
     RunEndKeeps, RestKeeps, StutterKeeps
     DEF Next
<1>2. QED
  BY InitEstablishes, <1>1, PTL DEF Spec

(* All variables of the loop stay in their types: no counter of the code   *)
(* wraps but delta_time * SI_CLOCK_SPEED.                                  *)
THEOREM LoopTypes ==
  Spec => []TypeOK
<1>1. LoopInv => TypeOK  BY DEF LoopInv
<1>2. QED  BY Invariance, <1>1, PTL

(* One subtraction of the interval suffices after every instruction.       *)
THEOREM CounterLow ==
  Spec => []CounterStaysLow
<1>1. LoopInv => CounterStaysLow  BY DEF LoopInv
<1>2. QED  BY Invariance, <1>1, PTL

(* handle_cpu loses no cycle between interrupts.                           *)
THEOREM CyclesKept ==
  Spec => []CyclesAccounted
<1>1. LoopInv => CyclesAccounted  BY DEF LoopInv
<1>2. QED  BY Invariance, <1>1, PTL

(* What is left of a product after a wrap is worth no more than all of it. *)
LEMMA NeedIsWorth ==
  ASSUME TypeOK
  PROVE  /\ need \in Nat /\ worth \in Nat /\ need <= worth
         /\ delta_time * SI_CLOCK_SPEED < ProductMod => need = worth
<1> DEFINE x == delta_time * SI_CLOCK_SPEED
<1>1. x \in Nat /\ ProductMod \in Nat \ {0} /\ Second \in Nat \ {0}
  BY LoopAssumption DEF TypeOK, LoopAssumption
<1>2. need = (x % ProductMod) \div Second /\ worth = x \div Second
  BY DEF need, worth
<1> HIDE DEF x
<1>3. x % ProductMod \in Nat /\ x % ProductMod <= x /\ (x < ProductMod => x % ProductMod = x)
  BY <1>1, Z3
<1>4. \A y \in Nat, z \in Nat : y <= z => y \div Second <= z \div Second
  BY <1>1, Z3
<1>5. need \in Nat /\ x \div Second \in Nat
  BY <1>1, NeedNat, Z3
<1>6. need <= worth /\ (x < ProductMod => need = worth)
  BY <1>1, <1>2, <1>3, <1>4
<1>7. QED  BY <1>2, <1>5, <1>6 DEF x

(* handle_cpu runs the cycles the time is worth at the clock speed, and    *)
(* less than one instruction more, however long the loop took; a time too  *)
(* long for the product is the one thing that makes it run less.           *)
THEOREM Punctual ==
  Spec => []KeepsToClock
<1>1. LoopInv => KeepsToClock
  <2> SUFFICES ASSUME LoopInv PROVE KeepsToClock
    OBVIOUS
  <2>1. /\ need \in Nat /\ worth \in Nat /\ need <= worth /\ i \in Nat
        /\ delta_time * SI_CLOCK_SPEED < ProductMod => need = worth
    BY NeedIsWorth DEF LoopInv, TypeOK
  <2>2. delta_time * SI_CLOCK_SPEED \in Nat /\ ProductMod \in Nat
    BY LoopAssumption DEF LoopInv, TypeOK, LoopAssumption
  <2>3. /\ phase \in {"run", "late", "request"} => i < need + 18
        /\ Ran => i >= need /\ i < need + 18
    BY DEF LoopInv, NoOverrun, RanNeed
  <2> HIDE DEF need, worth
  <2>4. QED  BY <2>1, <2>2, <2>3 DEF KeepsToClock
<1>2. QED  BY Invariance, <1>1, PTL

(* For every program, a request that is overwritten was masked from the    *)
(* step after it was made on.                                              *)
THEOREM LossesMasked ==
  Spec => LostOnlyMasked
<1>1. LoopInv /\ [Next]_vars => [Interrupt /\ int_requested => masked]_vars
  BY DEF LoopInv, PendingMasked
<1>2. QED  BY Invariance, <1>1, PTL DEF Spec, LostOnlyMasked

(* RST 1 and RST 2 alternate for ever.                                     *)
THEOREM Alternation ==
  Spec => []Alternate
<1>1. LoopInv => Alternate  BY DEF LoopInv
<1>2. QED  BY Invariance, <1>1, PTL

(* The loop measures the time that passed, exactly unless the clock has    *)
(* wrapped, and then one millisecond less.                                 *)
THEOREM TimeKept ==
  Spec => []NoTimeMadeUp
<1>1. LoopInv => NoTimeMadeUp  BY DEF LoopInv
<1>2. QED  BY Invariance, <1>1, PTL

-----------------------------------------------------------------------------
\* Why handle_cpu ends: a number that its steps lower.  It is what remains of
\* the cycles to run, with weight 3 as an instruction may be followed by the
\* two steps of an interrupt.
Running == phase \in {"run", "late", "request"}
Left ==
  3 * (need + 18 - i)
    + (IF phase = "late" THEN 2 ELSE IF phase = "request" THEN 1 ELSE 0)

\* Where no step of the loop changes anything any more.
Stuck == phase = "run" /\ i < need /\ CPU!Asleep

LEMMA LeftNat ==
  ASSUME LoopInv, Running
  PROVE  Left \in Nat /\ need \in Nat /\ i \in Nat
<1>1. need \in Nat /\ i \in Nat /\ i < need + 18
  BY NeedNat DEF LoopInv, TypeOK, Running, NoOverrun
<1> HIDE DEF need
<1>2. QED  BY <1>1 DEF Left

LEMMA RunsDown ==
  ASSUME LoopInv, [Next]_vars, Running, ~Stuck
  PROVE  phase' = "rest" \/ Left' < Left \/ UNCHANGED vars
<1>1. need \in Nat /\ i \in Nat
  BY LeftNat
<1>2. CASE RunStep
  <2>1. PICK k \in 0 .. 18 : /\ cycles' = cycles + k /\ i' = i + k
                             /\ k \in 4 .. 18 \/ (CPU!Asleep /\ UNCHANGED cpuVars)
    BY <1>2, StepMoves
  <2>2. phase = "run" /\ i < need /\ phase' \in {"run", "late"} /\ UNCHANGED timeVars
    BY <1>2 DEF RunStep
  <2>3. k \in 4 .. 18
    BY <2>1, <2>2 DEF Stuck
  <2>4. need' = need
    BY <2>2 DEF need, timeVars
  <2> HIDE DEF need
  <2>5. Left = 3 * (need + 18 - i)
    BY <1>1, <2>2 DEF Left
  <2>6. Left' \in Int /\ Left' <= 3 * (need + 18 - (i + k)) + 2
    BY <1>1, <2>1, <2>2, <2>4 DEF Left
  <2>7. QED  BY <1>1, <2>3, <2>5, <2>6
<1>3. CASE Rebase \/ Interrupt
  <2>1. /\ UNCHANGED <<timeVars, i>>
        /\ \/ phase = "late" /\ phase' = "request"
           \/ phase = "request" /\ phase' = "run"
    BY <1>3 DEF Rebase, Interrupt, runVars
  <2>2. need' = need
    BY <2>1 DEF need, timeVars
  <2> HIDE DEF need
  <2>3. QED  BY <1>1, <2>1, <2>2 DEF Left
<1>4. CASE RunEnd
  BY <1>4 DEF RunEnd
<1>5. CASE Tick \/ Event \/ PollEnd \/ Rest
  BY <1>5 DEF Tick, Event, PollEnd, Rest, Running
<1>6. QED  BY <1>2, <1>3, <1>4, <1>5 DEF Next

LEMMA SleepsOn ==
  ASSUME LoopInv, [Next]_vars, Stuck
  PROVE  UNCHANGED vars
<1>1. CASE RunStep
  <2>1. /\ phase = "run" /\ CPU!Asleep
        /\ UNCHANGED <<inputVars, timeVars, start, ints, next_int, elapsed>>
    BY <1>1 DEF RunStep, Stuck
  <2>2. UNCHANGED cpuVars
    BY <1>1, <2>1 DEF RunStep, CPU!Acknowledge, CPU!Execute, CPU!Asleep
  <2>3. cycles' = cycles
    BY <2>2 DEF cpuVars
  <2>4. /\ cycles \in Nat /\ cycles < SI_CYCLES_PER_INT /\ i \in Nat
        /\ SI_CYCLES_PER_INT \in Nat /\ CycleMod \in Nat \ {0}
    BY <2>1, LoopAssumption
       DEF LoopInv, TypeOK, CPU!TypeOK, CounterStaysLow, LoopAssumption
  <2>5. (cycles' - cycles) % CycleMod = 0
    BY <2>3, <2>4, ModSmall
  <2>6. i' = i /\ phase' = phase
    BY <1>1, <2>1, <2>3, <2>4, <2>5 DEF RunStep
  <2>7. masked' = masked
    <3>1. masked' = (masked /\ ~int_enable)
      BY <1>1 DEF RunStep
    <3>2. masked => ~int_enable
      BY <2>1, Zenon DEF LoopInv, PendingMasked, CPU!Asleep, CPU!Accepting
    <3>3. masked \in BOOLEAN
      BY DEF LoopInv, TypeOK
    <3>4. QED  BY <3>1, <3>2, <3>3, Zenon
  <2>8. QED  BY <2>1, <2>2, <2>6, <2>7 DEF vars, runVars
<1>2. ~(Tick \/ Event \/ PollEnd \/ Rebase \/ Interrupt \/ Rest)
  BY DEF Stuck, Tick, Event, PollEnd, Rebase, Interrupt, Rest
<1>3. ~RunEnd
  <2>1. need \in Nat /\ i \in Nat /\ i < need
    BY NeedNat DEF Stuck, LoopInv, TypeOK
  <2>2. ~(i >= need)
    <3> HIDE DEF need
    <3>1. QED  BY <2>1
  <2>3. QED  BY <2>2 DEF RunEnd
<1>4. QED  BY <1>1, <1>2, <1>3 DEF Next

(* The safety half of HangsOnlyAsleep, and its converse.  Each step of     *)
(* handle_cpu returns or lowers a number that is never negative: no        *)
(* interrupt posted or taken, and no counter set back, defers its end.     *)
(* The one exception is a processor asleep, masked or with nothing to wake *)
(* it, and from there no step of the loop leads anywhere.                  *)
THEOREM RoundsEnd ==
  Spec => /\ [](Running => Left \in Nat)
          /\ [][Running /\ ~Stuck => phase' = "rest" \/ Left' < Left]_vars
          /\ [][Stuck => UNCHANGED vars]_vars
<1>1. LoopInv => (Running => Left \in Nat)
  BY LeftNat
<1>2. LoopInv /\ [Next]_vars
      => [Running /\ ~Stuck => phase' = "rest" \/ Left' < Left]_vars
  BY RunsDown
<1>3. LoopInv /\ [Next]_vars => [Stuck => UNCHANGED vars]_vars
  BY SleepsOn
<1>4. QED  BY <1>1, <1>2, <1>3, Invariance, PTL DEF Spec

-----------------------------------------------------------------------------
\* The second player's port has no bit but the shared ones: inductive with the
\* two properties of SiKeyboard.
KeyboardInv ==
  /\ inp2 \subseteq Shared
  /\ NoStuckControl /\ HeldKeyShows

(* The two ports and the keys under one event.                             *)
LEMMA DownKeeps ==
  ASSUME KeyboardInv, NEW key \in Keys, handle_keydown(key),
         held' = held \union {key}
  PROVE  KeyboardInv'
<1> DEFINE bits == IF key \in ControlKeys THEN {BitOfKey[key]} ELSE {}
<1>1. inp1' = inp1 \union bits /\ inp2' = inp2 \union (bits \intersect Shared)
  BY DEF handle_keydown
<1>2. ASSUME key \in ControlKeys PROVE key \in Holders(BitOfKey[key])
  BY <1>2 DEF Holders
<1>3. NoStuckControl'
  BY <1>1, <1>2 DEF KeyboardInv, NoStuckControl
<1>4. HeldKeyShows'
  BY <1>1 DEF KeyboardInv, HeldKeyShows
<1>5. QED  BY <1>1, <1>3, <1>4 DEF KeyboardInv

LEMMA UpKeeps ==
  ASSUME KeyboardInv, NEW key \in Keys, handle_keyup(key), held' = held \ {key}
  PROVE  KeyboardInv'
<1> DEFINE bits == IF key \in ControlKeys THEN {BitOfKey[key]} ELSE {}
<1>1. inp1' = inp1 \ bits /\ inp2' = inp2 \ (bits \intersect Shared)
  BY DEF handle_keyup
<1>2. \A bit \in inp1' \union inp2' : key \notin Holders(bit)
  BY <1>1 DEF KeyboardInv, Holders
<1>3. NoStuckControl'
  BY <1>1, <1>2 DEF KeyboardInv, NoStuckControl
<1>4. ASSUME NEW k \in held' \intersect ControlKeys,
             Holders(BitOfKey[k]) \intersect Keys = {k}
      PROVE  BitOfKey[k] \notin bits
  BY <1>4 DEF Holders
<1>5. HeldKeyShows'
  BY <1>1, <1>4 DEF KeyboardInv, HeldKeyShows
<1>6. QED  BY <1>1, <1>3, <1>5 DEF KeyboardInv

LEMMA KeyboardKeeps ==
  ASSUME KeyboardInv, [KeyboardNext]_keyboardVars
  PROVE  KeyboardInv'
<1>1. ASSUME NEW key \in Keys, Press(key) PROVE KeyboardInv'
  BY <1>1, DownKeeps DEF Press
<1>2. ASSUME NEW key \in Keys, Repeat(key) PROVE KeyboardInv'
  <2>1. held' = held \union {key}
    BY <1>2 DEF Repeat
  <2>2. QED  BY <1>2, <2>1, DownKeeps DEF Repeat
<1>3. ASSUME NEW key \in Keys, Release(key) PROVE KeyboardInv'
  BY <1>3, UpKeeps DEF Release
<1>4. CASE CloseWindow \/ UNCHANGED keyboardVars
  <2>1. inp1' = inp1 /\ inp2' = inp2 /\ held' = held
    BY <1>4 DEF CloseWindow, Quit, keyboardVars, inputVars
  <2>2. QED  BY <2>1 DEF KeyboardInv, NoStuckControl, HeldKeyShows
<1>5. QED  BY <1>1, <1>2, <1>3, <1>4 DEF KeyboardNext

LEMMA KeyboardInvariance == KeyboardSpec => []KeyboardInv
<1>1. KeyboardInit => KeyboardInv
  BY DEF KeyboardInit, InputInit, KeyboardInv, NoStuckControl, HeldKeyShows
<1>2. KeyboardInv /\ [KeyboardNext]_keyboardVars => KeyboardInv'
  BY KeyboardKeeps
<1>3. QED  BY <1>1, <1>2, PTL DEF KeyboardSpec

(* For every keyboard, and over every order of presses, repeats and        *)
(* releases: no control is on in a port that no held key turns on.         *)
THEOREM ControlsLetGo == KeyboardSpec => []NoStuckControl
<1>1. KeyboardInv => NoStuckControl  BY DEF KeyboardInv
<1>2. QED  BY <1>1, KeyboardInvariance, PTL

(* For every keyboard: what the player holds reaches both ports, unless    *)
(* another key of the same bit exists.                                     *)
THEOREM ControlsHold == KeyboardSpec => []HeldKeyShows
<1>1. KeyboardInv => HeldKeyShows  BY DEF KeyboardInv
<1>2. QED  BY <1>1, KeyboardInvariance, PTL
=============================================================================
