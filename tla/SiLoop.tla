------------------------------- MODULE SiLoop -------------------------------
(***************************************************************************)
(* The main loop of space-invaders.c around the processor of I8080Control: *)
(* the clock in milliseconds, the events, the cycles the time is worth,    *)
(* the interrupt every SI_CYCLES_PER_INT of them, the pause and the exit.  *)
(* phase names the next statement of spaceinvaders_loop or _handle_cpu.    *)
(***************************************************************************)
EXTENDS SiInput

CONSTANTS
  SI_CYCLES_PER_INT,  \* 16666 in the code
  SI_CLOCK_SPEED,     \* 2000000 cycles a second in the code
  Second,             \* milliseconds a second has, 1000 in the code
  TickMod,            \* number of values of a tick count, 2^32 in the code
  ProductMod,         \* of delta_time * SI_CLOCK_SPEED, 2^32 in the code
  CycleMod,           \* of the cycle counter, 2^64 in the code
  MaxAdvance,         \* the bound: milliseconds between two loops
  Program             \* the opcodes the game may execute

ASSUME LoopAssumption ==
  /\ SI_CYCLES_PER_INT \in Nat /\ SI_CYCLES_PER_INT > 18
  /\ SI_CLOCK_SPEED \in Nat
  /\ Second \in Nat \ {0}
  /\ TickMod \in Nat \ {0}
  /\ ProductMod \in Nat \ {0}
  /\ CycleMod \in Nat /\ CycleMod >= SI_CYCLES_PER_INT + 18
  /\ MaxAdvance \in Nat
  /\ Program \subseteq 0 .. 255

RST1 == 207   \* 0xcf, the middle of the screen
RST2 == 215   \* 0xd7, the last line of the screen

VARIABLES
  halted, int_enable, int_requested, int_opcode, cycles,   \* emu->cpu
  next_int, curr_time, prev_time, delta_time,              \* emu
  i,                                                       \* of handle_cpu
  phase,
  start, ints,  \* history: cycles when handle_cpu began, interrupts since
  elapsed,      \* history: milliseconds between the last two SDL_GetTicks
  masked        \* history: every step since the last request began with INTE
                \* clear

CPU == INSTANCE I8080Control WITH
  IntOpcodes <- {RST1, RST2}, HostOpcodes <- {}

cpuVars  == <<halted, int_enable, int_requested, int_opcode, cycles>>
timeVars == <<curr_time, prev_time, delta_time>>
runVars  == <<i, start, ints>>
vars == <<inputVars, cpuVars, timeVars, runVars, next_int, phase, elapsed, masked>>

\* spaceinvaders_create, and main before its loop.
Init ==
  /\ InputInit
  /\ CPU!Init
  /\ next_int = RST1
  /\ curr_time = 0 /\ prev_time = 0 /\ delta_time = 0 /\ elapsed = 0
  /\ i = 0 /\ start = 0 /\ ints = 0
  /\ masked = FALSE
  /\ phase = "tick"

\* Fault: the difference without the test for a clock that has wrapped.
get_deltatime32_signed(prev, curr) == curr - prev

get_deltatime32(prev, curr) ==
  IF prev > curr THEN TickMod - 1 - prev + curr ELSE curr - prev

\* The product of two 32-bit integers, widened only once it is divided.
need == ((delta_time * SI_CLOCK_SPEED) % ProductMod) \div Second

\* SDL_GetTicks: some milliseconds later.
Tick ==
  /\ phase = "tick"
  /\ \E ms \in 0 .. MaxAdvance :
       LET now == (curr_time + ms) % TickMod
       IN  /\ curr_time' = now
           /\ delta_time' = get_deltatime32(prev_time, now)
           /\ elapsed' = (now - curr_time) % TickMod
  /\ phase' = "poll"
  /\ UNCHANGED <<inputVars, cpuVars, prev_time, runVars, next_int, masked>>

\* One event of the queue.
Event ==
  /\ phase = "poll"
  /\ \/ Quit
     \/ \E key \in Keys : handle_keydown(key) \/ handle_keyup(key)
  /\ UNCHANGED <<cpuVars, timeVars, runVars, next_int, phase, elapsed, masked>>

\* The queue is empty: run the processor, unless no time passed or paused.
PollEnd ==
  /\ phase = "poll"
  /\ phase' = IF delta_time > 0 /\ ~pause_flag THEN "run" ELSE "rest"
  /\ i' = 0 /\ start' = cycles /\ ints' = 0
  /\ UNCHANGED <<inputVars, cpuVars, timeVars, next_int, elapsed, masked>>

\* Faults of handle_cpu: the interval must be exceeded; the loop's condition is
\* not tested.
RunStepOf(guard, late) ==
  /\ phase = "run"
  /\ guard
  /\ \/ CPU!Acknowledge
     \/ \E op \in Program : CPU!Execute(op)
     \/ CPU!Asleep /\ UNCHANGED cpuVars
  /\ i' = i + ((cycles' - cycles) % CycleMod)
  /\ masked' = (masked /\ ~int_enable)
  /\ phase' = IF cycles' >= late THEN "late" ELSE "run"
  /\ UNCHANGED <<inputVars, timeVars, start, ints, next_int, elapsed>>
RunStep_exceeds   == RunStepOf(i < need, SI_CYCLES_PER_INT + 1)
RunStep_unguarded == RunStepOf(TRUE, SI_CYCLES_PER_INT)

\* i8080_step in handle_cpu: it changes nothing when the processor sleeps.
RunStep ==
  /\ phase = "run"
  /\ i < need
  /\ \/ CPU!Acknowledge
     \/ \E op \in Program : CPU!Execute(op)
     \/ CPU!Asleep /\ UNCHANGED cpuVars
  /\ i' = i + ((cycles' - cycles) % CycleMod)
  /\ masked' = (masked /\ ~int_enable)
  /\ phase' = IF cycles' >= SI_CYCLES_PER_INT THEN "late" ELSE "run"
  /\ UNCHANGED <<inputVars, timeVars, start, ints, next_int, elapsed>>

\* Fault: the counter is cleared, and with it the cycles over the interval.
Rebase_clears ==
  /\ phase = "late"
  /\ cycles' = 0
  /\ phase' = "request"
  /\ UNCHANGED <<inputVars, halted, int_enable, int_requested, int_opcode,
                 timeVars, runVars, next_int, elapsed, masked>>

\* The if of handle_cpu: first the counter goes back, then the interrupt is
\* requested and the next one chosen.
Rebase ==
  /\ phase = "late"
  /\ cycles' = cycles - SI_CYCLES_PER_INT
  /\ phase' = "request"
  /\ UNCHANGED <<inputVars, halted, int_enable, int_requested, int_opcode,
                 timeVars, runVars, next_int, elapsed, masked>>

\* Fault: the next interrupt is not chosen.
Interrupt_same ==
  /\ phase = "request"
  /\ CPU!Request(next_int)
  /\ masked' = TRUE
  /\ ints' = ints + 1
  /\ phase' = "run"
  /\ UNCHANGED <<inputVars, timeVars, i, start, next_int, elapsed>>

Interrupt ==
  /\ phase = "request"
  /\ CPU!Request(next_int)
  /\ masked' = TRUE
  /\ next_int' = IF next_int = RST1 THEN RST2 ELSE RST1
  /\ ints' = ints + 1
  /\ phase' = "run"
  /\ UNCHANGED <<inputVars, timeVars, i, start, elapsed>>

RunEnd ==
  /\ phase = "run"
  /\ i >= need
  /\ phase' = "rest"
  /\ UNCHANGED <<inputVars, cpuVars, timeVars, runVars, next_int, elapsed, masked>>

\* Faults: the clock is only remembered when the processor has run; the exit
\* is not looked at while the game is paused.
Rest_paused ==
  /\ phase = "rest"
  /\ prev_time' = IF pause_flag THEN prev_time ELSE curr_time
  /\ phase' = IF exit_flag THEN "done" ELSE "tick"
  /\ UNCHANGED <<inputVars, cpuVars, curr_time, delta_time, runVars, next_int,
                 elapsed, masked>>
Rest_ignores_exit ==
  /\ phase = "rest"
  /\ prev_time' = curr_time
  /\ phase' = IF exit_flag /\ ~pause_flag THEN "done" ELSE "tick"
  /\ UNCHANGED <<inputVars, cpuVars, curr_time, delta_time, runVars, next_int,
                 elapsed, masked>>

\* The end of spaceinvaders_loop and the condition of the loop in main.
Rest ==
  /\ phase = "rest"
  /\ prev_time' = curr_time
  /\ phase' = IF exit_flag THEN "done" ELSE "tick"
  /\ UNCHANGED <<inputVars, cpuVars, curr_time, delta_time, runVars, next_int,
                 elapsed, masked>>

Next ==
  \/ Tick \/ Event \/ PollEnd
  \/ RunStep \/ Rebase \/ Interrupt \/ RunEnd
  \/ Rest

\* The loop takes its statements one after the other; a finite queue of
\* events is emptied.
Spec ==
  /\ Init /\ [][Next]_vars
  /\ WF_vars(Tick \/ PollEnd \/ RunStep \/ Rebase \/ Interrupt \/ RunEnd \/ Rest)

-----------------------------------------------------------------------------
TypeOK ==
  /\ CPU!TypeOK
  /\ inp1 \subseteq 0 .. 7 /\ inp2 \subseteq 0 .. 7
  /\ exit_flag \in BOOLEAN /\ pause_flag \in BOOLEAN /\ color_flag \in BOOLEAN
  /\ next_int \in {RST1, RST2}
  /\ curr_time \in 0 .. TickMod - 1 /\ prev_time \in 0 .. TickMod - 1
  /\ delta_time \in 0 .. TickMod - 1
  /\ elapsed \in 0 .. TickMod - 1
  /\ masked \in BOOLEAN
  /\ i \in Nat /\ start \in 0 .. CycleMod - 1 /\ ints \in Nat
  /\ phase \in {"tick", "poll", "run", "late", "request", "rest", "done"}

(* One subtraction always suffices: outside the if the counter is below    *)
(* SI_CYCLES_PER_INT, inside it it is less than one instruction above.     *)
CounterStaysLow ==
  IF phase = "late"
  THEN cycles - SI_CYCLES_PER_INT \in 0 .. 17
  ELSE cycles < SI_CYCLES_PER_INT

(* No cycle is lost between the interrupts: what handle_cpu has run, with  *)
(* what was left over before, is a whole number of interrupt intervals and *)
(* what is now in the counter, over all its subtractions.                  *)
CyclesAccounted ==
  phase \in {"run", "late", "request"} =>
    start + i = cycles + SI_CYCLES_PER_INT * (IF phase = "request" THEN ints + 1 ELSE ints)

\* The cycles delta_time is worth at SI_CLOCK_SPEED, in numbers that do not
\* wrap; and that handle_cpu has run in this loop.
worth == (delta_time * SI_CLOCK_SPEED) \div Second
Ran == phase = "rest" /\ delta_time > 0 /\ ~pause_flag

(* handle_cpu never runs an instruction once the cycles the time is worth  *)
(* have run, and when it returns it has run them all, so that its          *)
(* interrupts keep to the clock; or else the 32-bit product has wrapped,   *)
(* and what it has run is a part of them.                                  *)
KeepsToClock ==
  /\ phase \in {"run", "late", "request"} \/ Ran => i < worth + 18
  /\ Ran => i >= worth \/ delta_time * SI_CLOCK_SPEED >= ProductMod

(* RST 1 and RST 2 alternate, over loops, pauses, interrupts that were     *)
(* never taken and interrupts taken late.                                  *)
Alternate ==
  /\ int_opcode # next_int
  /\ int_requested => int_opcode \in {RST1, RST2}

(* An interrupt is lost, overwritten by the next one before it was taken,  *)
(* only when the game has not let the processor look at it once: all the   *)
(* steps since it was requested began with interrupts masked, over the end *)
(* of a round and over a pause.                                            *)
LostOnlyMasked == [][Interrupt /\ int_requested => masked]_vars

(* delta_time is the time since the loop before, to the millisecond, over  *)
(* pauses of however many loops; it is one millisecond less in the one     *)
(* case that the clock has wrapped in between.                             *)
NoTimeMadeUp ==
  phase # "tick" /\ phase # "done" =>
    delta_time = IF prev_time > curr_time THEN elapsed - 1 ELSE elapsed

(* There are two ways to keep handle_cpu from ending, after which the loop *)
(* polls no event again, the one that would close the window included: to  *)
(* halt with interrupts masked, and to halt, masked or not, while no       *)
(* interrupt is pending, as the next is requested by a counter that no     *)
(* longer moves.                                                           *)
HangsOnlyAsleep ==
  \/ []<>(phase \in {"poll", "done"})
  \/ <>[](phase = "run" /\ halted /\ ~int_enable)
  \/ <>[](phase = "run" /\ halted /\ ~int_requested)

(* Closing the window ends the loop, whether or not the game is paused,    *)
(* unless ESC, later in the same batch of events, takes the exit back or   *)
(* the processor is then asleep for good.                                  *)
ExitEndsLoop ==
  exit_flag ~> phase = "done" \/ ~exit_flag \/ (phase = "run" /\ CPU!Asleep)

(* "This function just handles any overflows if someone spends ~49 days on *)
(* space invaders" (space-invaders.c): delta_time is the time that passed. *)
OverflowHandled ==
  phase = "poll" => delta_time = elapsed
=============================================================================
