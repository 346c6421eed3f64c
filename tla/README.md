# A TLA+ model of the i8080 emulator

This directory models the repository's own code: the Intel 8080 interpreter
(`i8080.c`, `i8080.h`), the CP/M test runner (`i8080-emulator.c`) and the Space
Invaders machine (`space-invaders.c`). TLC checks the models on small
instances; TLAPS proves the main invariants and the refinement for every value
of the constants. `PROJECT.json` maps each definition to the lines it models
and lists the runs, the faults injected into the model to test each property,
the hazards, the findings and the theorems.

## The system

Everything runs in one thread. Two programs link the processor as a library
and give it four callbacks (`read_byte`, `write_byte`, `io_inb`, `io_outb`).
What stands in for concurrency is the hardware being emulated: interrupts
arrive between any two instructions, keyboard events arrive in any order, and
the wall clock advances by any amount between two rounds of the loop.

| Component | State | Operations | Correct when |
|---|---|---|---|
| Arithmetic (`i8080.c` 41-450) | accumulator, flags | `op_add` .. `op_daa`, the rotates, CMA, STC, CMC | results and every flag agree with binary and decimal arithmetic |
| Control (`i8080.c` 452-507) | `halted`, `int_enable`, `int_requested`, `int_opcode`, `cycles` | `i8080_init`, `_step`, `_interrupt`, `_exec_opcode` | a request is taken once and only with INTE set; only it wakes a halted processor; every instruction moves the clock |
| Processor (`i8080.c`) | `struct i8080`, the machine behind the callbacks | 256 opcodes | operands are consumed whole; stack discipline; interrupts are transparent |
| Keyboard (`space-invaders.c` 440-537) | `inp1`, `inp2`, the exit, pause and color flags | key down, key up, `SDL_QUIT` | ports show what is held |
| Main loop (`space-invaders.c` 145-163, 536-573, 676-727) | the three times, `next_int`, the cycle counter | `spaceinvaders_loop`, `handle_cpu`, `get_deltatime32` | no cycle or interrupt lost or doubled; events polled again; exit honoured |
| Memory and ports (`space-invaders.c` 336-415) | memory, shift register | two address decoders, `io_inb`, `io_outb` | ROM kept, RAM and mirror consistent, shifter exact |
| Display (`space-invaders.c` 417-430, 575-674) | `video_buffer`, texture | `handle_vram`, `handle_vram_bit`, `set_pixel`, `update_texture` | the picture shows each bit of video RAM at its own pixel, all as of one moment |
| Startup and shutdown (`space-invaders.c` 145-334, `i8080-emulator.c` 53-185) | window, renderer, texture, buffers, file | `create`, `load_file`, `sdl_init`, `destroy` | each resource released on every path, once and before what it was made from; the file fits |
| CP/M runner (`i8080-emulator.c`) | 64 KiB of memory, system call hook at port 1 | load, patch, run to HLT | what is printed; calls return; the run ends |
| Generators (`misc/`) | none | three programs that printed C text once | `i8080.c` still has what they print |
| `external/` | none | vendored test programs | not code of this project |

The loop calls the processor (`i8080_step`) and reads and rewrites its cycle
counter directly; `handle_cpu` posts interrupts (`i8080_interrupt`); the game
reads the keyboard through ports 1 and 2; RST 2 triggers the drawing.

## Modules

| Module | Models | Notes |
|---|---|---|
| `Words` | `uint8_t`, `uint16_t` | a byte as the set of its one bits, so that `&`, `\|`, `^` are set operators |
| `I8080Alu` | the `op_` functions with flags, the literal tables | pure operators; the flags register is a set of bit numbers |
| `AluMachine` | accumulator and flags under every sequence of operations | every instruction that computes on A |
| `I8080Control` | the abstract processor | five variables; what an opcode does is its effect on halt, INTE and the counter |
| `I8080` | the whole processor | one record `ctx`; an instruction is an operator from context to context; memory map and devices are CONSTANT operators |
| `ParityTable`, `Generators` | `misc/` | what the printed text means, not its layout; `Generators` is written with the operators of `I8080` and compared with its cases |
| `Interrupted` | a program with interrupts next to the same program without | extends `I8080`; `shadow` is a second processor that takes the main program's steps only, `level` counts the handlers entered and not left |
| `MCI8080`, `MCOpcodes`, `MCInterrupts` | small machines around `I8080` | programs, memory maps and bounds for TLC; `MCOpcodes` puts the decoders of `SiMachine` (INSTANCE) under the processor |
| `CpmEmulator` | the CP/M runner | extends `I8080`; the callbacks are constants the cfg gives its own operators |
| `MCCpm` | test programs for it | |
| `SiInput` | the two key handlers | shared by the next two |
| `SiKeyboard` | a player at the keyboard | remembers which keys are down |
| `SiLoop` | the main loop | composes `SiInput` (EXTENDS) and the processor through `I8080Control` (INSTANCE) |
| `SiMachine` | decoders and shift register | remembers the last bytes written, as a reference |
| `SiVideo` | the display | extends `SiMachine`; remembers the video RAM of the last picture |
| `Startup` | both mains, from create to destroy | one action per call, each with its failure |
| `*Proofs` | theorems | see below |

How the code corresponds to the model:

- `ctx` in `I8080` is `struct i8080`. A C function that assigns to the context
  is an operator returning the new context, in the order of the C statements:
  `op_call(c) == op_jmp(push_word(c, ..))` because line 196 pushes before line
  197 fetches. `i8080_step` is the disjunction of `Acknowledge`, `FetchExecute`
  and `Sleep`, its three outcomes. The cases of the switch are grouped by the
  bits that select their operand (`Dst`, `Src`, `Row`), with the exact opcode
  sets in `i8080_exec_opcode`.
- `BootMem`, `BootPC`, `BootDev` are what a machine sets after `i8080_init`.
  `IntOpcodes` and `HostOpcodes` are the opcodes a machine may pass to
  `i8080_interrupt` and to `i8080_exec_opcode`.
- `phase` in `SiLoop` is the program counter of `spaceinvaders_loop`: `tick`
  (699), `poll` (701), `run` (the test of the loop at 555 and the step), `late`
  (562), `request` (563-571), `rest` (726 and the test at 159), `done`.
- `phase` in `CpmEmulator` is where `main` is: in `i8080_step`, in the printing
  loop of `emulator_io_outb` (which runs inside the OUT; the instruction is
  taken whole before it, as the callback changes nothing of the processor), or
  past its loop.
- `handle_vram` in `SiVideo` is one action: nothing else runs while it draws.
  The two loops are modelled by the last bit written to each pixel (`writer`),
  which is where an error of the rotation would show. `pitch` is the length of
  the rows SDL locked last; a pixel that is copied from behind the end of the
  buffer is `OUTSIDE`, whatever it may be.
- `stage` in `Startup` is the call that comes next. `held` are the resources,
  `members` the pointers in the context; `Resize` is another program that
  changes the file between two calls. The error paths (`Undo`) and `destroy`
  are sequences of releases in the order of the code; `Release` follows them
  call by call, with what SDL frees along with a renderer, and remembers what
  was released without being held any more (`twice`) and what was released
  after the thing it was made from (`orphaned`).
- A definition whose comment says *Fault* is a deliberately wrong variant of
  the definition after it. No specification uses it; each property of a
  passing run is shown to fail when one of them replaces the right definition.

## What each run checks

| Run | Question | Bounds, and why they suffice |
|---|---|---|
| `alu` | Does every operation, from every state a program can bring A and the flags to, compute what arithmetic says? The auxiliary carry found by table lookup, the decimal sum after DAA, borrow and order after CMP. | The instruction sequences use seven operands, which already reach all 256 accumulators with every flag combination an operation can leave (5120 states); each property then quantifies over all 256 operands (the flag description over the seven, since the accumulator takes every value). |
| `control` | Is a request taken once, and only when allowed; is it the only way out of HLT? | A counter of 19 values, larger than any cost, so that a step always moves it; it wraps, as no property depends on its size. |
| `cpu_programs` | Does `I8080` implement `I8080Control`, and do stack operations pair up, under requests and injected opcodes at every point? | All 216 programs of three opcodes out of HLT, RST 1, POP PSW, DI, PUSH PSW, EI, falling into the handler. `Bounded` keeps `pc` in 0..10 and `sp` within two pushes or pops of 0, where it starts and wraps. |
| `cpu_opcodes` | Each of the 256 opcodes: cycles, length, flags, types; does a call reach its target; and do the generated cases do what their generators print? | The game's memory map with blocks of 32 bytes instead of 0x2000 and the last address without memory. Two status words (all flags set, none set) and three operand words, addresses in RAM, in ROM and in the mirror; one opcode per program, HLT after it, RST 1 requested at any time; a counter of 64 values, so that a cost above 18 does not wrap into the allowed ones. Further programs jump to a call whose operand lies where its return address is pushed, by its own address or in the mirror: they meet the one exception of `CallsReachTarget`, and without it TLC finds the property violated. |
| `cpu_interrupts` | Can a program tell that it was interrupted? A second processor runs the same program without interrupts and must agree whenever no handler is active. | All three-instruction programs over DAA, STC, ADC A, PUSH B, POP B, XTHL, after LXI SP and EI and before a loop; two handlers, each with one of two bodies that ruin A and flags (CMC, XRA A); handlers nested two deep, in any order, which happens between the EI and the RET of a handler. Two levels have the three kinds of return address: to the program, to the RET of the same handler, to that of the other. |
| `keyboard` | After any order of presses, repeats and releases, do the ports show what is held? | All subsets of eleven keys, RIGHT left out: it behaves as LEFT does with A, and without it D has a bit of its own. |
| `loop` | Are cycles, interrupts and time accounted for; when is an interrupt lost; what can keep the loop from its events; does closing the window end it? | Interval 20 cycles instead of 16666, barely above the dearest instruction, so that most instructions cross it and several interrupts fit in one round; 3 values of the clock and 2 milliseconds at most per round, so that the clock wraps constantly; a product of 80 values, which wraps at the largest time only, so that `KeepsToClock` is checked on rounds whose product has wrapped and on rounds where it has not. The game executes NOP, HLT, DI, EI, whose costs the model lets range over 4..18, the costs of all instructions. |
| `machine` | ROM kept, RAM and mirror consistent, shifter exact, picture true to the video RAM? | Blocks of 4 bytes instead of 0x2000 and the last address without memory: every boundary of both decoders is there. A screen of 2 by 16 pixels over the whole RAM block, which has two bytes to a column and every region of the overlay but the credits, which are white as the lives are. Two byte values, 0 and 190, whose bits differ read from either end. Rows of 2 and of 3 pixels in the locked texture. |
| `cpm` | Does a program's call of the operating system print what it says and come back; does the run end? | Programs with no stack (`sp` 0, whose first byte has no memory), with one at the end of memory, and with one taken from the word at 6 as CP/M programs do; functions 2, 9 and an unknown one; strings at, within and over the end of the address space, and a program whose memory holds no '$'; four ways to end. Only the cells these programs reach are modelled, the others read 0. |
| `startup` | Is everything released whatever fails, how often and in which order, and does the file fit? | Both programs, file sizes around each bound (0, 8192, 65279, 65535). |
| `esc_key` (violation) | README.rst:55, "ESC: Quit" | see Findings |
| `clock_wraps` (violation) | space-invaders.c:680, "handles any overflows" | see Findings |

The properties worth reading first:

- `InterruptsAreTransparent` and `StackIsKept` (`Interrupted`): the masking in
  `i8080_step`, the address RST pushes, the byte order of the stack and the
  packing of PSW must all agree for them to hold.
- `CyclesAccounted`, `CounterStaysLow` (`SiLoop`): the single subtraction at
  line 562 neither loses cycles nor falls behind.
- `KeepsToClock` (`SiLoop`): `handle_cpu` runs what the time is worth, to
  within one instruction, and when it returns it has run no less either,
  unless the 32-bit product has wrapped. The bound is computed in numbers that
  do not wrap.
- `LostOnlyMasked` (`SiLoop`): there is one request slot; an RST is overwritten
  only when every step since it was posted began with interrupts masked.
- `DecimalSum` (`AluMachine`): add, auxiliary carry and DAA together.
- `HangsOnlyAsleep` (`SiLoop`): what it takes for a window that can no longer
  be closed: a processor halted with interrupts masked, or halted, EI or not,
  with no interrupt pending. The second is easily missed: interrupts are posted
  by the cycle counter, which a halted processor does not move.
- `TimePasses` (`I8080`): no instruction forgets its cycles, by which the
  machine tells the time.
- `FallsThrough` (`I8080`): no path through the switch leaves `pc` in the
  middle of an instruction.
- `CallsReachTarget` (`I8080`): `op_call` pushes before it fetches the target,
  and the two meet only where the stack lies over the operand.
- `PictureIsMemory` (`SiVideo`): the rotation, against the hardware's own
  numbering of the bits, and the lock that may fail between two pictures.
  Where SDL has longer rows than the screen, the code shows another picture, and
  the property says which, as far as the copied buffer goes.
- `RunEnds`, `CallsReturn` (`CpmEmulator`): every way a program ends, with the
  stack that loses a byte; the one exception is spelled out.
- `NothingLeaks`, `ReleasedOnce`, `OwnersLast` (`Startup`): the hand-written
  error paths and `destroy` after them, call by call, with what a renderer
  frees along with itself. The last two say exactly where the code fails them.

## Refinement

`I8080` implements `I8080Control` (`ImplementsControl`): the control fields of
`ctx` are its variables, `Acknowledge`, `FetchExecute` and `i8080_exec_opcode`
map to its `Acknowledge`, `Execute` and `Inject`, `Sleep` to a stutter. It is
model-checked by `cpu_programs` and proved for every machine and all opcodes.
`SiLoop` uses `I8080Control` in place of the processor, which is sound because
of this refinement: the loop looks at the processor's control state only.

The machine with its display (`VideoSpec`) implements the machine without
(`SiMachine!Spec`): `DisplayOnlyReads`. The invariants of `SiMachine` carry
over, and `machine` checks them on the composition.

## Fairness

- `CpmEmulator!CpmSpec`: weak fairness of the next step. The runner is one
  thread that waits for nothing. Deadlock is off: `done` is the end of the
  program (and of both programs in `startup`).
- `SiLoop!Spec`: weak fairness of the statements of the loop taken together
  (`Tick`, `PollEnd`, `RunStep`, `Rebase`, `Interrupt`, `RunEnd`, `Rest`). One
  of them is always the next one, so this says the thread runs, and that the
  event queue is empty at some time (`PollEnd`): a finite queue is emptied
  faster than a person fills it. No fairness is assumed of events, of the
  clock or of the game. Deadlock is off in the runs of `SiLoop`: `done` is the
  end of the program.

## Proofs

| Module | Theorems |
|---|---|
| `I8080AluProofs` | lemmas: each operation returns bytes and keeps the unused flag bits |
| `AluMachineProofs` | `Adding`, `Subtracting`, `Describing`, `DecimalAdding` |
| `I8080ControlProofs` | `Types`, `Waking`, `Requests`, `Sleeping` |
| `I8080Proofs` | `Types`, `UnusedBits`, `Timing`, `CallTargets`, `Implementation`, `StraightLine`, `FlagsKept`, `Generated` |
| `I8080StackProofs` | `Returns`, `PushPop`; of the CP/M runner, `CallsComeBack`, `MessagesPrinted`; of interrupted programs, `Transparent`, `StackKept` |
| `SiLoopProofs` | `LoopTypes`, `CounterLow`, `CyclesKept`, `Punctual`, `Alternation`, `TimeKept`, `LossesMasked`, `RoundsEnd`; of the keyboard, `ControlsLetGo`, `ControlsHold` |
| `SiVideoProofs` | `MachineTypes`, `RomIsKept`, `WritesAreLocal`, `Shifter`, `DisplayOnlyReads`, `PictureShown` |
| `StartupProofs` | `NoDoubleRelease`, `ReleaseOrder`, `NoLeak`, `FileFits` |

Assumptions, all of them evaluated by TLC in the runs that instantiate them:

- `ControlAssumption`, `HostAssumption`: opcodes are bytes, the counter has at
  least one value, the boot memory is memory.
- `MachineAssumption`: the callbacks keep to the prototypes in `i8080.h` (bytes
  out; a memory address reads and writes one cell or none). IN and OUT reach
  one device. The code passes `user_data` to three of the callbacks and `ctx`
  itself to `io_inb` (i8080.c:1444); the two are one pointer because the struct
  of either machine begins with its `cpu`. This holds of the two machines of
  the repository and is assumed of any other the theorems speak about.
- `LoopAssumption`: the interval exceeds 18 cycles, the dearest instruction,
  and the counter has room for one instruction above the interval. With 16666
  and 2^64 both hold by far. `Timing` assumes a counter of more than 18 values.
- `MemoryMapAssumption`: memory is larger than three blocks (0xffff > 0x6000).
- `VideoAssumption`: the video RAM lies within the RAM block, its size is what
  the screen needs, the height is a multiple of 8 (256), and a locked texture
  has rows of the width at least; how long they are is SDL's choice.
- `StartupAssumption`: sizes are numbers, a ROM fits in memory.
- `InterruptAssumption`: the stack is set aside in RAM whose addresses have
  cells of their own; the machine requests restarts; each leads to a handler in
  ROM that is PUSH PSW, up to four instructions of one byte on A and the flags,
  POP PSW, EI, RET. Eight bytes is what lies between two restarts.

Some theorems have hypotheses of their own:

- `FlagsKept`: the machine itself injects no opcode that sets flags. The game
  requests RST 1 and RST 2, the runner nothing.
- `CallsComeBack` and `MessagesPrinted`: `CpmHost`, which says that the machine
  is the one `main` builds (TLC evaluates it in `cpm`), for any test programs,
  and `Disciplined`: the program leaves the three patched bytes as they are and
  gets to them by a CALL 5. A program that does not is free to return anywhere,
  so nothing can be promised to it; the programs of `cpm` all are disciplined,
  though `cpm` checks the properties without that hypothesis.
- `Transparent` and `StackKept`: what a program must do for interrupts to be
  safe at all. `Proper`: its instructions use nothing of the stack area below
  its stack pointer (`Unread`; `Sees` is what an instruction uses), and lower
  that pointer by pushing only. `Room`: while it enables interrupts there is
  room below its stack pointer for `MaxLevel` handlers. Without the first it
  reads what interrupts have left there; a LXI or DCX that lowers `sp` puts
  those traces on its stack. All are conditions on the run without interrupts.
  TLC finds them, and the inductive invariant, to hold of all programs of
  `cpu_interrupts`, which checks the two properties without them.
- `MessagesPrinted` also takes `Kept`, the bound on the history `out`, to be at
  least 65536: a shorter history could not hold the longest message.

The arguments:

- `I8080Proofs` has one inductive invariant, `Sane(ctx)`: the type together
  with the unused flag bits. Neither is enough alone for the instructions that
  compute flags, PUSH PSW and POP PSW. Instructions are built from a few
  helpers; lemmas show that each helper keeps `Sane` and leaves the control
  state alone (`Follows`), and that an instruction is such a helper followed by
  `tick` of 4 to 18 cycles (`Ticked`). The 256 opcodes are then the arms of
  one case analysis, and each step of `I8080` is a step of `I8080Control`. For
  `CallTargets` a write is not seen by a read of another cell (`WriteMisses`).
- `I8080StackProofs` computes the two memory reads of a pop through the two
  writes of a push, for any map in which the two addresses are distinct RAM
  cells, the wrap of `sp` included, and adds the unused bits from
  `I8080Proofs` for PSW.
- `SiLoopProofs` needs `LoopInv`, the conjunction of the properties and of
  `ClockKept` (`prev_time = curr_time` when a round begins), `NoOverrun` and
  `RanNeed` (what has run is `need`, to within an instruction) and
  `PendingMasked` (the history `masked` says the truth of a pending request). `CyclesAccounted`
  alone is not inductive: the counter must not wrap, which follows from
  `CounterStaysLow`; `NoTimeMadeUp` needs `ClockKept`.
- `I8080Proofs` passes over the opcodes a second time for `StraightLine` and
  `FlagsKept`: a helper keeps flags and `pc` (`Keeps`), an instruction is such
  a helper, a skip of its operand bytes and a tick (`Runs`). `FlagsKept` needs
  that a pending opcode is one the machine requested (`Asked`). `Generated`
  compares the generators' operand names with the bits of the opcode, and then
  case by case.
- `AluMachineProofs` has the invariant `AluInv` (a byte, unused bits right);
  everything else is arithmetic over all bytes. The auxiliary carry is found by
  comparing bit 3 of operands and result with the carry out of the low digit;
  the parity literals are compared with the sum of the bits of their index, and
  that sum with the generator's loop and with the number of ones; DAA is
  followed digit by digit, each sum on either side of 9.
- Interrupts are a matter of noninterference. `Alike(c, d, D)` says that two
  processors agree in everything but the cells of `D`, the cycles, the pending
  request and whether they are halted. `AlikeExecutes` is a third pass over the 256 opcodes: from
  alike processors an instruction that uses nothing of `D` leads to alike
  processors; `PushingExecutes` adds that one that pushes hides the traces it
  pushes over. `D` is `Below(shadow.sp)`, the stack below the pointer. The
  invariant `InterruptInv` is then needed because the properties say nothing
  while a handler runs: it says where the innermost handler is and whether the
  status is in the processor or on the stack (`Inside`), that the return
  addresses on the stack lead down to the program (`Frames`), and that nothing
  else has changed (`Handling`). Between EI and RET a handler is as
  interruptible as the program, which is why the same step lemma
  (`PushLevel`) serves every level.
- `RoundsEnd` gives the two facts that `HangsOnlyAsleep` follows from by
  fairness: `Left`, three times the cycles still to run and the steps of an
  interrupt still to take, is a natural number that every step of `handle_cpu`
  lowers until it returns, and a processor asleep changes nothing more. It
  needs `StepMoves`, that a step costs 4 cycles at least and the counter does
  not wrap.
- The calls of the runner rest on `CallInv`: the patched bytes are there, `pc`
  is never 6, and while it is 5 or 7 the processor is the caller's with two
  bytes less of stack and, where the stack is memory, the return address on it.
  `CallsReturn` alone says nothing until the RET, so the OUT between could not
  be passed. `PrintInv` adds, for the printing loop, that the bytes before `ch`
  are printed and hold no '$' (`PrintedTo`), or that the loop has been round
  the whole memory and will never stop (`GoneRound`).
- The keyboard properties are inductive together with one fact they do not
  say: port 2 holds no bit but the shared ones (`KeyboardInv`).
- `SiVideoProofs` strengthens `RomKept` to the ROM cells themselves, and
  proves the shifter equation by cases of the amount. It shows that `off` is a bijection from the bits of the video
  RAM to the pixels, by the quotient and remainder of the height and of 8. Each
  pixel then has one writer, and the buffer after `handle_vram` is the memory
  of that moment; the invariant relates the texture to `frame`,
  for rows of the screen's length and for longer ones: `Copied` finds the place
  each pixel is copied from, `OnScreen` the pixel that place is of.
- `StartupProofs` has an invariant that says, for each stage, exactly what is
  held and what the context points to, and for each call that may fail what its
  error path has released twice or too late (`Ordered`). `DestroyOrder` follows
  the seven calls of `destroy`: none frees what a later one is given. `NothingLeaks` alone is not inductive:
  whether `destroy` releases everything depends on what the error path before
  it has left.

Model-checked only: liveness (`ExitEndsLoop`, `HangsOnlyAsleep`, `RunEnds`),
which the prover does not do, and with it ENABLED; of `HangsOnlyAsleep` the
safety half is proved. Every invariant and action property of the passing runs
is stated by a theorem.

## Findings

Checked by a run that is expected to fail:

1. **ESC does not quit** (`esc_key`). README.rst:55 and the comment at
   space-invaders.c:491 say it does; line 492 assigns `exit_flag = false`.
   Pressed after the window was closed, in the same batch of events, it even
   cancels the exit; this is why `ExitEndsLoop` has the exception it has.
2. **The clock wrap loses a millisecond** (`clock_wraps`). Line 688 computes
   `UINT32_MAX - prev + curr`, one less than the time passed.

Behaviour of the code the models contain, noted for its maintainers:

- A long round runs a part of its time: `delta_time * SI_CLOCK_SPEED` (552) is
  a product of 32 bits, which wraps from 2148 ms on, and the processor falls
  behind the "2 MHz" of line 70. `KeepsToClock` says that this is the only way
  for it to fall behind; the `loop` run contains such rounds.
- Longer rows than the screen's are copied wrong. `SDL_LockTexture` says how
  long the rows of the texture are; line 428 takes that for the rows of
  `video_buffer` as well. Rows of 896 bytes are fine with most renderers; one
  that aligns rows to 256 bytes shows a sheared picture and makes the copy
  read past the end of the buffer. `PictureIsMemory` says which pixel is shown
  where, and which come from outside the buffer; the `machine` run contains
  both kinds of texture.
- E does not toggle color (README.rst:56): line 495 assigns `color_flag == 1`.
- Port 1 bit 3, "Always 1" in the comment at 446, is always 0.
- A and LEFT, D and RIGHT share a bit; releasing one releases both.
- A game that halts with interrupts masked hangs `handle_cpu` (555), and the
  window cannot be closed. So does one that halts after EI while nothing is
  pending: the next interrupt is posted by the counter that HLT has stopped.
- "4000 - ram mirror" (44): reads above 0x4000 mirror RAM, writes above 0x4000
  are dropped, and a write to 0x4000 itself lands in a cell read at 0x6000.
- Memory has UINT16_MAX bytes, so 0xffff reads 0 and cannot be written; `sp`
  starts at 0, so a push before any LXI SP loses its high byte.

- The word at address 6, which CP/M programs take as the top of memory, is
  0xc901 once page zero is patched: a stack set from it grows down from 51457,
  in the middle of memory, above every test program in `external/` (19200 bytes
  at most).
- The last error path of `sdl_init` (265-267) destroys the texture after its
  renderer, which has freed it already: the texture is released twice, and
  `ReleasedOnce` names this as the one exception. This path and the two before
  it (244, 255) also destroy the window before its renderer, as `OwnersLast`
  says. `destroy` has the right order.
- IN passes `ctx` to its callback where the others pass `user_data`
  (i8080.c:1444); see `MachineAssumption`.
- The comment of `emulator_io_outb` (213) calls function 2 "function 5": 5 is
  the address that is called.

## Plan

Done: arithmetic; abstract control; processor and its refinement;
interrupted programs; keyboard; loop; memory and ports, under the single writes
of `SiMachine` and under the opcodes; display; startup and shutdown; CP/M
runner; generators; and their proofs.

Next:

1. The actions of `SiLoop` refining an abstract timer that posts one interrupt
   per interval, and the proof of it.
2. The interrupted program of `Interrupted` for a handler given by what it
   guarantees (it keeps the registers and the stack above its entry) instead of
   by its code, so that it may save more than the status.

Not modelled, and why: `update_screen` (it hands the texture to SDL and changes
nothing of the program); what SDL itself does, beyond what is named in
`handle_vram` (a lock may fail and may have padded rows) and in `Startup`
(every call may fail, a renderer frees its textures);
the count of instructions and cycles the CP/M runner prints; `external/`
(vendored programs), build files, usage messages and the wording of errors; the
sound ports and the watchdog, which the code ignores; ports 1 and 2 and the
keyboard in the composition with the opcodes, which see the memory map only.
