------------------------------- MODULE CpuRun -------------------------------
(***************************************************************************)
(* cpu_run of src/cpu.c: call cpu_step until a budget of cycles is spent.  *)
(* The host's only thread is inside cpu_run meanwhile, so the interrupt    *)
(* lines move between runs only.  The loop subtracts 32-bit counters, so   *)
(* it also works when CYCLES wraps around, provided no single step can     *)
(* jump over the budget.                                                   *)
(***************************************************************************)
EXTENDS Cpu6502, Disassembler

CONSTANTS
  Budgets,           \* the MAX_CYCLES the host passes
  MAX_STEP_CYCLES    \* the most a step costs: 8 cycles and a page crossing

ASSUME RunAssumption ==
  /\ Budgets \subseteq Nat
  /\ MAX_STEP_CYCLES \in Nat /\ MAX_STEP_CYCLES >= 9
  /\ \A n \in Budgets : n + MAX_STEP_CYCLES <= CYCLES_MOD

VARIABLES
  run,               \* the locals of cpu_run: start_cycles, MAX_CYCLES
  spent              \* the cycles of this run, counted without wrapping

runVars == <<vars, run, spent>>

NotRunning == [active |-> FALSE, start_cycles |-> 0, MAX_CYCLES |-> 0]

RunInit == Init /\ run = NotRunning /\ spent = 0

cpu_run(n) ==
  /\ ~ run.active
  /\ run' = [active |-> TRUE, start_cycles |-> CYCLES, MAX_CYCLES |-> n]
  /\ spent' = 0
  /\ UNCHANGED vars

\* Mutant: the loop compares the counter with a target that does not wrap.
InBudget_no_wrap(c) == c < run.start_cycles + run.MAX_CYCLES

\* The loop condition with CYCLES = c.
InBudget(c) == (c - run.start_cycles) % CYCLES_MOD < run.MAX_CYCLES

RunStep ==
  /\ run.active /\ InBudget(CYCLES)
  /\ cpu_step
  /\ spent' = spent + ((CYCLES' - CYCLES) % CYCLES_MOD)
  /\ UNCHANGED run

RunReturn ==
  /\ run.active /\ ~ InBudget(CYCLES)
  /\ run' = NotRunning
  /\ UNCHANGED <<vars, spent>>

\* The host between two runs.
RunHost == ~ run.active /\ Host /\ UNCHANGED <<run, spent>>

RunLoop == RunStep \/ RunReturn

RunNext == RunLoop \/ RunHost \/ \E n \in Budgets : cpu_run(n)

\* The loop goes on by itself; nothing makes the host call anything.
RunSpec == RunInit /\ [][RunNext]_runVars /\ WF_runVars(RunLoop)

----------------------------------------------------------------------------
(* Properties *)

\* cpu_run neither returns early nor runs on: when it is about to return, the
\* cycles spent have reached the budget, by less than the last step's cost,
\* also if CYCLES has wrapped around in between.
BudgetKept ==
  run.active =>
    /\ ~ InBudget(CYCLES) => spent >= run.MAX_CYCLES
    /\ spent < run.MAX_CYCLES + MAX_STEP_CYCLES

\* No interrupt will end the halt: nothing can, as the host is in cpu_run.
HaltedForGood ==
  /\ CPU_STOPPED = 1 \/ CPU_WAITING = 1
  /\ interrupt_poll(ic, REG.P) = "INT_NONE"

\* cpu_run returns, whatever program it runs, unless the CPU halts: a halted
\* step costs no cycles, so then the loop never ends.
RunReturns == run.active ~> ~ run.active \/ HaltedForGood

\* The instruction at PC has not jumped: a taken branch costs a cycle more.
WentStraight ==
  /\ Dispatched \notin {"JMP", "JSR", "RTS", "RTI", "BRK"}
  /\ Dispatched \in BranchHandlers =>
       CYCLES' = (CYCLES + BaseCycles(bus_read(REG.PC), CPU_VARIANT_MODE))
                   % CYCLES_MOD

\* Where an instruction does not jump, debugger_disassemble lists next the
\* address the CPU goes to, for all opcodes of both variants but those the
\* table does not describe; the panel of the monitor does so for all of them
\* but BBR and BBS.
DisassemblyFollowsPC ==
  [][LET op == bus_read(REG.PC)
     IN  RunStep /\ Instruction /\ WentStraight
         /\ ~ Mislisted(op, CPU_VARIANT_MODE)
         => /\ REG'.PC = NextLine(REG.PC, debugger_operand_size(op))
            /\ Dispatched \notin {"BBR_", "BBS_"} =>
                 REG'.PC = NextLine(REG.PC, monitor_operand_size(op))]_runVars
=============================================================================
