# C99-6502 in TLA+

A verification development for the C99-6502 emulator: TLA+ modules that model
its CPU, interrupt controller, memory system, loader, command-line driver,
debugger and terminal monitor, TLC configurations that check them on small
instances, and TLAPS proofs of the central results.
Paths such as `src/cpu.c` are relative to the repository root; `PROJECT.json`
maps every definition to the lines it models.

## 1. The system

| Component | Source | State | Operations |
| --- | --- | --- | --- |
| CPU step loop | `src/cpu.c` | `REG`, `CYCLES`, `CPU_VARIANT_MODE`, `CPU_WAITING`, `CPU_STOPPED` | `cpu_init`, `cpu_reset`, `cpu_step`, `cpu_run`, `cpu_irq`, `cpu_nmi`, `cpu_set_variant` |
| Instruction set | `src/instructions_implementation.c` | none of its own | one handler per mnemonic |
| Decode and timing tables | `src/instructions_table.c`, `src/instructions_handlers.c`, tables of `src/cpu.c` | constant | `instr_dispatch`, mode and cycle overrides |
| Addressing, stack, bus | `src/addressing.c`, `src/stack.c`, `src/bus.c` | `BUS` | `addr_resolve`, `push8/16`, `pop8/16`, `bus_read/read16/write` |
| Interrupt controller | `src/interrupt.c` | `ic` (lines, NMI latch, history ring, totals), `global_cycle_count` | `interrupt_set_irq/nmi`, `interrupt_poll`, `interrupt_begin`, `interrupt_step_cycle`, dump and clear |
| Memory regions | `src/memory.c` | `REGIONS`, `REGION_COUNT` | add RAM/ROM/IO, clear, init, bus handlers, load, set vector |
| Binary loader | `src/loader.c` | the load in progress | `load_bin_region` |
| Driver | `main.c` | options, run counter | parse options, set the machine up, run loop, exits |
| Monitor | `run_monitor_mode` of `main.c`, `src/tui_monitor.c` | terminal, run state, instruction log, speed samples | set-up and cleanup, keys, signals, frame loop, drawing |
| Debugger | `src/debugger.c` | breakpoints, watchpoints, labels, profile | add/remove/enable/check/clear, profile, search, dump, disassemble |
| Logging, trace | `src/logging.c`, `src/trace.c` | level, file | output only |

**How they interact.** Everything is one thread. The host (`main.c`, the
monitor, a test) sets the memory map up, loads a program, calls `cpu_init` and
`cpu_reset`, and then calls `cpu_step` again and again. A `cpu_step` polls the
interrupt controller first; if something is pending it runs the whole interrupt
sequence, else if the CPU is halted it returns, else it executes one
instruction: fetch through the bus, decode in the tables, resolve the operand,
dispatch, adjust the cycles. The bus calls the region handlers of `memory.c`.
Between two steps the host may move the interrupt lines, reset or reinitialise.
`cpu_run` is a host that does nothing else until its budget of cycles is spent.
The monitor is a host that reads a key, executes a frame of up to 20000
instructions, logs some of them and draws; a signal handler sets a flag at any
moment. The debugger is a library beside the CPU: its functions read memory
through the bus and its tables belong to it alone.

**What is hard.** There is no concurrency inside the program but signals, and a
fine interleaving between the guest program and the host: interrupts at every
instruction boundary, nested in each other, around `WAI` and after `STP`;
resets with an NMI latched; rings that wrap and are cleared (interrupt history,
instruction log, speed samples); 8-, 16- and 32-bit wrap-around in the stack,
the zero page, the address space and the cycle counter; decimal arithmetic; two
CPU variants over one set of tables; loads that fail half way; arrays that shift
when an entry is removed and leave stale slots behind; a cleanup that works once.
`PROJECT.json` lists these as hazards, with the property that covers each.

**What makes each part correct.** CPU: instructions keep every register in its
width, interrupts are invisible to the interrupted program, every running step
is billed. Interrupts: nothing latched is lost, nothing masked is taken, the
history shows the most recent events. Tables: the variants differ only as
documented. Arithmetic: it is that of the integers. Memory: the region table is
a flat address space. Loader: success means the bytes are there (of a file that
its 32-bit size check cannot measure, the last ones). Driver: the
machine that runs is the one asked for. Debugger: its tables are numbered lists
that own their labels. Monitor: frames do what the keys say, and the display
shows what happened.

## 2. The modules

| Module | Models | Notes |
| --- | --- | --- |
| `Types6502` | `include/types.h` | P is the set of its flags; `PByte` and `PFlags` convert where the code stores and pulls it |
| `Opcodes` | the tables | all 256 opcodes, both variants |
| `Instructions` | the handlers, as operators on the register file | shared by the CPU and the arithmetic reference |
| `Interrupt` | `src/interrupt.c`, as operators on a controller | |
| `InterruptController` | the controller with an abstract CPU | actions `SetIrq`, `SetNmi`, `Poll`, `Brk`, `ClearHistory`, `Restart` |
| `RecentEvents` | abstract: a log of the last N events | implemented by the ring |
| `Cpu6502` | `cpu_step` and the host calls, addressing, stack, bus | one action per class of handlers; `Instruction` is their disjunction |
| `CpuRun` | `cpu_run` over `Cpu6502` | a step per call of `cpu_step` |
| `Disassembler` | the operand lengths of both disassemblers | |
| `VariantLockstep` | two `Cpu6502`, an NMOS and a CMOS one, in lockstep | steps on documented opcodes only |
| `Transparency` | two `Cpu6502`, one interrupted and one not | |
| `MemoryMap` | `src/memory.c`, `src/bus.c` | |
| `FlatMemory` | abstract: a flat address space | implemented by `MemoryMap` |
| `Loader` | `src/loader.c` over `MemoryMap` | one step per chunk; the size check in 32 bits |
| `Machine` | `main` over `MemoryMap` and `Loader` | a step per argument and per call; also a library host that calls the memory code in any order |
| `Debugger` | the state of `src/debugger.c` | an action per function that changes state; `heap` holds the label blocks |
| `PointList` | abstract: a numbered list of points | implemented by both tables |
| `Inspection` | search and hotspots, as operators | |
| `Monitor` | `run_monitor_mode` with the keys, log and terminal of `src/tui_monitor.c` | its log implements `RecentEvents` |
| `SpeedMeter` | the speed samples, averages and percentiles, as operators | |
| `ArithmeticReference` | `Instructions` against the integers | |
| `Programs`, `MC*` | RAM images, guest programs and bounds for TLC | |
| `*_proofs` | theorems | section 5 |

How the code becomes actions:

* A `cpu_step` is **one** action. Its four disjuncts are an NMI, an IRQ, a step
  of a halted CPU and an instruction; the guard of each is the code's chain of
  early returns. `InterruptSequence` is `interrupt_begin` with the
  `interrupt_step_cycle` that always follows it; the fields
  `interrupt_in_progress`, `current_interrupt` and `interrupt_cycle` are set and
  reset inside that pair, so no state between steps can show them and the model
  does not keep them.
* `global_cycle_count` is advanced by every `interrupt_poll`, so it counts polls.
* The handlers are grouped by what they touch: registers, accumulator,
  read-modify-write, store, push, pull, branch; the rest have an action each.
* `OPCODE`, `EA`, `HAS_EA`, `PAGE_CROSS` and the branch flags are globals in the
  code, but each step writes them before it reads them; they are parameters here.
* In `Cpu6502` memory is a set of RAM cells and an image of ROM cells, the rest
  is open bus; `MemoryMap` models how regions make such a map. I/O handlers
  exist in `MemoryMap` only, as one port byte.
* `calloc`, `malloc`, `fopen`, `fseek`, `fread` and `initscr` may fail at any
  call.
* In `Machine` and `Monitor` the CPU is abstract: a step leaves any PC, and in
  `Machine` may write any byte through the bus. An instruction that writes
  several bytes is several such writes; the properties of `Machine` speak of each
  write, so they do not depend on how many a step makes. `Cpu6502` says what a
  step really does.
* In `Loader` a file may be longer than 4 GiB: `ftell` gives a 64-bit size, which
  the code cuts to `uint32_t` before it adds the address in 32 bits
  (`SizeFits`), and each chunk goes to its address cut to 16 bits. `off` counts
  the bytes read without cutting it; since 2^32 is a multiple of the address
  space, the address of a chunk is the same.
* In `Debugger` a table is the whole C array, so stale slots and the pointers
  in them exist; a block freed twice or read after `free` would show as a label
  that is `"freed"` or belongs to two points. Memory is a function that a
  `Poke` changes.
* In `Monitor`, `truth` and `frame` are history: the cycles really spent since
  the last sample, and what the keys so far ask of a frame. Nothing reads them
  but the properties (and the bound on skipped samples, section 4).
* In `Machine` a token of the command line is a model string, `Strtol` says
  which tokens are numbers in which base, and `asked` is history: the value
  before it is cut to 16 bits.

**Bounds.** `MAX_INTERRUPT_HISTORY`, `COUNT_MOD`, `CYCLES_MOD`, `ADDR_SPACE`,
`MAX_MEM_REGIONS`, `BUF_SIZE`, `UINT32`, `CPU_TEST_RUN_LIMIT`,
`MAX_BREAKPOINTS`, `MAX_WATCHPOINTS`, `SPACE`, `INSTRUCTIONS_PER_FRAME`,
`INSTRUCTION_LOG_SIZE`, `CYCLE_HISTORY_SIZE`, `RATE_LIMIT` and the like are the
code's sizes as constants. The other bounds exist only for TLC: `StackFloor`,
`MaxSteps`, `MaxNmis`, `MaxDepth`, `MaxCount`, `Pointers`, `Hosts`.

## 3. The runs

Passing:

| Run | Question | Bounds and why they suffice |
| --- | --- | --- |
| `interrupt_controller` | Ring, statistics, latch and masking under every order of line changes, polls, BRKs, clears and restarts | a ring of 2 and counters modulo 2: the ring is empty, partly filled, full and overwritten, and every counter wraps |
| `host` | The whole CPU with every host call between any two steps of a program with `WAI`, `BRK`, `STP` and KIL, variants switched on the way | the program sets S to 0, so that every frame wraps inside page 1; the host rests while S is deeper than `StackFloor` (253, three bytes below 0), so that interrupts nest and then return; the cycle counter is modulo 5, a number that divides the cost of none of the program's instructions, so only a free step leaves it as it was |
| `cpu_run` | `cpu_run` over each of 256 opcodes on both variants; both disassemblers beside it | six steps set the registers, the seventh executes the opcode within the larger budget; the flags are all clear or all set, the operands cross a page and wrap in the zero page; an NMI may come first; the cycle counter is modulo 32, so it wraps within a run |
| `variant_lockstep` | The 151 documented opcodes on both variants at once | as above with three status bytes; the CPUs are made equal again after a documented difference |
| `transparency` | IRQs and NMIs at every boundary of a program with `WAI`, JSR/RTS, decimal additions and live stack data, with liveness | two NMIs and a free IRQ line: an NMI inside an IRQ handler, an NMI inside an NMI handler, an IRQ in the step after a return, each before, in and after the wait |
| `machine` | `main` and a library host over regions, bus and loader, with failures | 4 addresses and 2 regions: touching, overlapping, full-space and top-of-space regions, loads that cross a boundary and wrap; chunks of 2; files of 1 and 3 bytes, and one of 8, which is 0 in the 32 bits of the size check (`UINT32` is 8 here); command lines with sizes at and above the limit |
| `debugger` | Tables, labels, profiler and inspection in any order | tables of 2 slots: full, shifted, refilled over stale slots; 4 addresses; each host uses some of the features, because tables, profiler and inspection share no state |
| `monitor` | Keys, signals, frames, log and speed display | frames of 2 instructions, rings of 2, a counter that wraps within a few frames |
| `arithmetic` | ADC, SBC and CMP against the integers | none: all 65536 operand pairs, both carries, modes and variants |

What the less obvious properties say:

* `Transparent`: whenever the CPU is outside all handlers its registers, flags,
  data and live stack equal those of a CPU that ran the same program without
  interrupts. `U` is excepted: `RTI` clears it, nothing reads it.
* `NmiDelivered`: a latched NMI survives resets, clears, halts and masks until
  the step that enters its handler with the interrupted PC on the stack.
* `InterruptsReturn`: an NMI, an IRQ or a BRK leaves the CPU one `RTI` away from
  the registers it had (BRK: with PC behind its padding byte), wherever S wraps,
  and `RTI` takes it there. Only `U` is lost. It asks that the three cells of the
  frame are RAM.
* `UnbilledStepHalts`: only halted steps are free. KIL costs 0 cycles on the
  NMOS CPU (`CYCLE_BASE`), and `cpu_run` counts cycles.
* `VariantsDifferAsDocumented`: on the documented opcodes the variants differ, in
  registers, memory and cycles, only in N and Z of decimal arithmetic, in the
  target and the cycles of `JMP ($nnnn)` and in `D` after a BRK. The first and the
  bug of the `JMP` are in the repository README's table, `D` is in a comment of
  `src/interrupt.c:181`, and the extra cycle only in the code of the handler.
* `IndexFollowsTotals`: ring index and statistics never drift apart, even when
  the counters wrap (2^64 is a multiple of 32, as 2 is of 2 in the run).
* `BudgetKept`: `cpu_run` stops at the first step that reaches the budget, also
  when the 32-bit counter wraps on the way. It needs budgets that leave room for
  one step below 2^32 (`RunAssumption`).
* `RunReturns`: `cpu_run` returns unless the CPU halts with no interrupt it
  would take; the host cannot raise one, as it is inside `cpu_run`.
* `DisassemblyFollowsPC`: the next line of `debugger_disassemble` is where the
  CPU goes, except for the opcodes that only one variant has (the table has one
  length for each); the monitor's panel also counts BBR and BBS short.
* `WritesCostBaseCycles`: documented indexed writes never pay for a page
  crossing.
* `RunsAsConfigured`: sizes of 0x10000 pass the option check and are cut to 0;
  the allocation then fails, so no machine runs with other memory than asked.
* `BootsProgram`, `ProgramIntact`: order of load, vector, bus and reset, and
  what a running program may not change. A file below 4 GiB - 64 KiB
  (`Measurable`) lies in memory in one piece; of a longer one that the size check
  let pass, the last bytes do, as many as there are addresses.
* `LoadBinStaysAbove`: no chunk of a measurable file changes what lies below its
  address. `CrossingRejected` asks the same of all files and fails (below).
* `MachineTypes`: the region table, the loader and every local of `main`.
* `ImplementsBreakpointList`, `ImplementsWatchpointList`, `LabelsOwned`: the C
  arrays with their stale slots are the abstract list, a call removes or switches
  the point whose number it gives, and every label block has exactly one owner,
  but for those that a second `debugger_init` forgets.
* `ChecksFollowCalls`: what `debugger_check_breakpoint` answers at an address
  changes only by a call about a point at that address, however the other points
  move through the slots. It does not say which types of access a point stops.
* `FramesObeyKeys`: every frame executes 0, 1 or all instructions as the keys
  so far demand.
* `SpeedIsReal`: the difference of two 64-bit copies of a 32-bit counter goes
  wrong once per wrap; the limit of 100 MHz keeps the artefact out of every
  number shown.
* `LoadReadsBack`: a load, vector or file that was reported as stored reads back
  through the bus, wherever region boundaries fall; of a file that went round
  memory, its last bytes.

Violations, each a disagreement between the code and its documentation:

| Run | Documented | The code |
| --- | --- | --- |
| `stopped` | `src/instructions_implementation.c:410`: KIL halts "the CPU permanently" | `cpu_step` serves interrupts before it tests `CPU_STOPPED`: a stopped CPU pushes and changes PC, S and P |
| `crossing` | `src/loader.c:27`: "Reject if the file would cross the 64KiB address-space boundary." | size and sum are 32 bits wide: a file of 4 GiB counts as empty, goes round a fully mapped memory and is reported as loaded |
| `terminal` | `main.c:364`: signals "restore the terminal via atexit"; `src/tui_monitor.c:87`: cleanup is "safe to call more than once" | the first `tui_cleanup`, after measuring the terminal, sets a static flag; the later ones do nothing, so the second screen is never closed |

Disagreements met on the way that have no run:

* `README.md:266` says that 65C02 instructions "become NOPs in NMOS mode"; `$80`
  (BRA), `$9C` and `$9E` (STZ) have no entry in `NMOS_HANDLER` and execute;
* the comment at `src/cpu.c:101` wants no page-cross cycle for any
  read-modify-write instruction; the undocumented SLO, RLA, SRE, RRA, DCP and
  ISC are not in the list (`WritesCostBaseCycles` excepts them);
* `include/debugger.h:15` calls ACCESS a "Memory read or write breakpoint";
  `src/debugger.c:126` lets it stop execution too;
* `debugger_search_memory` with a pattern longer than `end` + 1 bytes wraps its
  bound and searches to the end of memory (`SearchIsExact` excepts it);
* the 0.1% low needs 1000 samples of at most 300, so it is the minimum;
* the monitor shows the address of the last write, but nothing records one;
* the results of `mem_region_set_vector` and of loading the sample program are
  ignored: without memory at the vector the CPU starts at 0xFFFF.

`CHECK_DEADLOCK FALSE` appears where a run ends by its own bound (`MaxSteps`,
the last operand) or the process ends (`machine`, `monitor`); everywhere else the
system can always step.

## 4. Fairness

All fairness is weak and on the steps of the one thread:

* `transparency`: `cpu_step` is called again and again (`Ticks`: every call toggles
  `tick`, so a call that leaves a waiting CPU as it is counts too), which is what
  the loops of `cpu_run`, `main.c` and the monitor do. Nothing is assumed about
  the peripherals: `Resumes` and `WokenResumes` are conditional on the IRQ line
  being released at last, since a level-triggered line that stays asserted
  rightly keeps its handler running.
* `cpu_run`: the loop goes on (`RunLoop`); nothing makes the host call anything.
* `machine`: `main` goes on until it returns (`Main`). `MonitorMode` is not fair:
  it lasts as long as the user likes.
* `monitor`: the process goes on until it ends (`Process`). No key and no signal
  ever has to come. A frame sleeps until it has lasted 10 ms, so of two updates
  in a row at least one takes a sample; this is the guard on `truth.skipped`.

## 5. The proofs

TLAPS checks these for every value of the constants, that is for every ring
size, counter width, memory map, program and sequence of host calls.

`InterruptController_proofs`, from `InterruptAssumption` (sizes are positive)
and `ContextAssumption`:

* `TypeCorrect`. Inductive as it stands.
* `RingCorrect` (`RingFillsFromZero`). Inductive together with the types
  (`RingInv`): clearing must reset index and count in the same step.
* `IrqCorrect` (`IrqsWereUnmasked`). The dump shows only filled slots, so the
  invariant is strengthened to all *used* slots of the ring; the poll's mask
  gives the step that adds one.
* `IndexCorrect` (`IndexFollowsTotals`), from `WidthAssumption`: the counters'
  modulus is a multiple of the ring size, as 2^64 is of 32. Inductive with the
  types; when a total wraps the sum loses a multiple of the ring size, which no
  remainder sees (`MultipleDrops`, `BumpedSum`).
* `NmiCorrect` (`NmiNeverDropped`). Only a restart or an acknowledged NMI clears
  the latch, and the newest line of the dump is the event just recorded.
* `DumpCorrect` (`DumpShowsRecentEvents`): the refinement. Init maps to the
  empty log; an acknowledged event maps to `Record` in both cases, ring filling
  and ring full, where the start of the dump moves by one; the rest stutter.

`Cpu6502_proofs`, which extends `CpuRun`, from `CpuAssumption`,
`InterruptAssumption` and, for the theorems about `cpu_run`, `RunAssumption`:

* `CpuInvariant` (`CpuInv`): the types, with the registers in `LiveRegister`,
  the register files whose P lacks B. The stronger register type is what every
  handler lemma of `Operators_proofs` preserves; P comes back from the stack
  as an arbitrary byte, so B must be removed by each pull. `TypeCorrect` and
  `BCorrect` follow from it.
* `NmiCorrect` (`NmiDelivered`): one case per action; the two pushes of the
  return address go to distinct cells, also when S wraps, and the third push
  hits neither.
* `ReturnsCorrect` (`InterruptsReturn`): the three pushes go to distinct cells,
  the pulls of `RTI` read them back in reverse order (`PulledFrame`), the two
  halves of PC make it again, and a pushed status byte gives back its flags
  (`FlagsOfByte`); B, which only the pushed copy has, is removed by the pull and
  was not in the live register by `CpuInv`.
* `BillingCorrect` (`UnbilledStepHalts`), for a counter of more than 16 values:
  a charge lies in 0 .. 16, is 0 only for an NMOS KIL, and KIL stops the CPU.
* `BudgetCorrect` (`BudgetKept`). `RunInv` ties the locals of `cpu_run` to the
  cycles counted without wrapping: `spent` is the wrapped difference that the
  loop tests. It is preserved because no step costs more than 9 cycles
  (`StepCost`: 8 and a page crossing; branches and jumps, which add 2, have a
  base of at most 6) and the budget leaves that much room below the width.
* `WriteCycles` (`WritesCostBaseCycles`). Of all 256 opcodes of both variants,
  a documented write with an indexed mode is in `op_suppresses_pagecross`
  (`WriteModes`); every other mode reports no crossing. For the CPU under any
  host and under `cpu_run`.
* `DisassemblyCorrect` (`DisassemblyFollowsPC`). The mode a disassembler reads
  in the table is the mode `cpu_step` uses unless the opcode is `Mislisted`
  (`ListedLength`), no handler but the jumps touches PC after the operand fetch
  (`RegisterPC`, `RmwPC`, `PulledPC`), and a branch that cost its base cycles
  was not taken, since the counter is wider than the two cycles a taken one adds.

`Monitor_proofs`, from `MonitorAssumption` (a frame has at least one
instruction; the cycles of two frames with a reset each are fewer than the
counter has values, as 20000 instructions are far below 2^32 cycles) and
`MeterAssumption` (the difference across a wrap is a 64-bit number so large that
its rate exceeds the limit):

* `FramesCorrect` (`FramesObeyKeys`). The property speaks of the end of a frame
  only, so the inductive invariant `FrameInv` says what holds before and within
  one. Outside a frame no step is pending and `running` is what the keys said
  (`Rested`). Within a frame (`InFrame`) a step is pending and nothing has been
  executed, or the CPU runs and has executed one instruction per turn of the
  loop, or nothing is left to do. The handlers are installed before the first
  frame, so that no signal ends the process inside one.

* `LogCorrect` (`LogShowsRecent`): the refinement of `RecentEvents` by the
  instruction log, for every size of the array and of the panel. `LogInv` is the
  type of the log; a new entry takes the slot before the index and every line
  that is still shown moves by one, also across the wrap (`LogStep`).
* `SpeedCorrect` (`SpeedIsReal`). `MeterInv`, proved together with `FrameInv`,
  says that `CYCLES` is the last sample's count and what has passed since, taken
  modulo the width; that this is less than one round (`MostCycles`, from the
  position in the frame and the one sample that may be skipped); and that the
  valid samples of the ring are true rates. A sample taken across a wrap is over
  the limit, so it is not valid. The average and the percentiles are sums and
  selections of valid samples, written as recursive functions: each stays between
  the least and the greatest of them.

`MemoryMap_proofs`, from `MemoryAssumption` (an address space of any size, any
number of regions, blobs shorter than the space, as a 16-bit length is):

* `MemoryCorrect` (`TypeOK`, `RegionsDisjoint`, `LoadReadsBack`). The inductive
  invariant `MemInv` says that the table is well-formed: regions are ordered
  intervals, pairwise disjoint, each with a buffer of its length. Disjointness
  makes `find_region`, which returns the first match, the only match
  (lemmas `FindHit`, `FindMiss`, `Found`), and is kept by the overlap test of the add
  functions. A load stops at the first address without data, the least element
  of a set; everything below it is stored at its own cell, so it reads back.
* `FlatCorrect` (`ImplementsFlatMemory`): kind and value of an address are
  functions of the table; each call changes them as `FlatMemory` does or not at
  all. The steps compare the table before and after by its shape (`SameShape`).

`Machine_proofs`, which extends `MemoryMap_proofs`, from `MachineAssumption`
(a byte's square is the address space, the vector's two bytes are addresses, the
sample program is shorter than memory) and `LoaderAssumption` (a chunk is shorter
than memory, 2^32 is a multiple of the address space, files hold bytes and may
have any length):

* `MachineInductive`: `MachineInv` is `MemInv` with `LoadReadsBack` and three
  parts. `LoaderInv`: of the chunks stored so far the last bytes, as many as
  there are addresses, read back, and a measurable file has not wrapped
  (`SizeChecked`: for it, the 32-bit check is the exact one). `OptInv`: an option that survived its 16-bit cut
  is the one asked for (a size cut to 0 cannot be mapped). `PhaseInv`: what each
  call of `main` has established when the next is made: regions as configured,
  then the file, the vector, the bus and PC.
* `MachineTypesCorrect` (`MachineTypes`): the locals of `main` and the record of
  the load are typed (`LocalsInv`), proved on top of `MachineInv`, which has the
  types of the memory: PC is made of two bytes read from the bus and cut to an
  address, an operand of the command line is in its range before it is stored,
  and no chunk reads beyond the end of the file.
* From `MachineInv` also `MachineDisjoint`, `MachineReadsBack`,
  `ConfigurationCorrect` (`RunsAsConfigured`), `ProgramCorrect`
  (`ProgramIntact`: a running program writes through the bus only, which ROM
  ignores), `LoaderStaysAbove` (`LoadBinStaysAbove`), `BootCorrect`
  (`BootsProgram`: low and high byte of the vector make the load address again)
  and the refinement `MachineFlat`.

`Debugger_proofs`, from `DebuggerAssumption` and `InspectionAssumption`:

* `DebugInductive`: `DebugInv` is the types of both arrays, stale slots
  included, and `Owned`: every block of the heap that `debugger_init` has not
  forgotten belongs to exactly one live slot of one table, and no live slot
  holds a pointer to anything else. It is needed because removing an entry
  frees a block and copies pointers, so that for a moment two slots hold one.
* `BreakpointsCorrect`, `WatchpointsCorrect` (`ImplementsBreakpointList`,
  `ImplementsWatchpointList`): the live slots with their labels are a sequence;
  shifting is removal from it, and freeing one block changes no other entry
  because of `Owned`. A call about index i is a step on point i + 1.
* `LabelsCorrect` (`LabelsOwned`) follows from `DebugInv`.
* `ChecksCorrect` (`ChecksFollowCalls`): a check stops if and only if some slot in
  use matches (`StopsIs`); each call is compared by the matching slots before and
  after it. A shift moves the slots above the removed one down by one and keeps
  what they match, so an address without a point of its own in the call answers
  as before (`CheckAnswers`).
* `SearchCorrect` (`SearchIsExact`), for every memory: the unsigned bound of the
  loop is the last place where the pattern fits (`SearchExact`, for patterns of
  every length up to `end` + 1).

* `HotspotsCorrect` (`HotspotsAreTop`), for every size of memory and every
  length of the list. The invariant is that counts are naturals; the rest is
  about the operator. The exchange sort of `profiler_dump_hotspots`, cut off
  after the lines it prints, is a recursive function of its loop variables, and
  each loop is followed by the least turn at which its invariant would fail
  (`Loop`): an exchange keeps the entries (`ExchangeRanks`), a pass brings the
  largest of the rest to the front (`PassSettles`), so after k passes the first
  k entries are in order and above all others.

`Variants_proofs`, which extends `VariantLockstep`, `ArithmeticReference` and the
CPU's proofs:

* `VariantsCorrect` (`VariantsDifferAsDocumented`), for every program of
  documented opcodes and every memory map. `LInv` adds to `CpuInv` that the CPUs
  are one variant each, run, are not interrupted and poll equally often. Both
  decode a documented opcode to the same handler, mode and base cycles, shown
  opcode by opcode; each class of handlers then gives the same registers, memory
  and cost, but for N and Z in decimal mode, `JMP ($nnnn)` and `D` after a BRK.
* `BinaryCorrect`, `DecimalCorrect`, `DecimalFlagsCorrect`: the three
  references, for all bytes, carries and variants, by arithmetic on nibbles and
  not by enumeration.

`Operators_proofs` holds the lemmas they share: what each handler and each
controller operation returns.

Only model-checked:

* liveness under fairness, which is beyond the prover: `Resumes`,
  `WokenResumes`, `RunReturns`, `MainReturns`, `QuitIsHeeded`;
* `Transparent`, which holds for guest programs whose handlers save and restore
  what they use, such as those the run executes, and not for every memory image.
  What it asks of the CPU itself is proved as `InterruptsReturn`.

Recursion is written as recursive functions in everything the theorems use, so
that a loop can be reasoned about through its least failing turn.

## 6. Not modelled

* The layout and drawing of the monitor; its memory watches, which no panel
  shows; its bus activity, which repeats the newest log entry.
* The debugger's listings and dumps, and the profiler's totals, which are only
  printed.
* Logging, trace and everything printed: output only.
* `mem_region_get_ptr`: a raw pointer that no code asks for.
* Bus reads with side effects: no I/O region is mapped in `Cpu6502`.
* The mnemonic and register columns of `INST_TABLE`: read by disassemblers only.

## 7. Plan

Done: types, tables, instructions, interrupt controller and CPU with their
compositions; memory, loader and the driver over them; `cpu_run`; the debugger;
the monitor; and the proofs of section 5, which cover every safety property the
runs check but `Transparent`. What is left: a class of well-behaved handlers,
stated as an assumption on the image, under which `Transparent` follows from
`InterruptsReturn` for every program.
