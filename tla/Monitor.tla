------------------------------ MODULE Monitor ------------------------------
(***************************************************************************)
(* run_monitor_mode of main.c with the state of src/tui_monitor.c: the     *)
(* terminal, the keys, the frame loop, the instruction log and the speed   *)
(* display.  Signals arrive at any moment.                                 *)
(*                                                                         *)
(* The CPU is abstract: a step goes from any PC to any PC and costs one of *)
(* StepCycles (Cpu6502 says which).  Left out are the panels that only     *)
(* draw, the memory watches, which no panel shows, and the bus activity:   *)
(* the one address of it that is shown and ever set is that of the newest  *)
(* entry of the log.                                                       *)
(***************************************************************************)
EXTENDS SpeedMeter

CONSTANTS
  PCs,                          \* the program counters of the program
  StepCycles, RESET_CYCLES,     \* what a step and a reset cost
  INSTRUCTIONS_PER_FRAME,       \* 20000
  LOG_EVERY,                    \* 10: one in so many is logged when running
  INSTRUCTION_LOG_SIZE,         \* 100
  INSTRUCTION_LOG_DISPLAY,      \* 10
  SAMPLE_MS,                    \* 10
  Elapsed                       \* ms since the last sample: what may pass

ASSUME MonitorAssumption ==
  /\ StepCycles \subseteq Nat /\ RESET_CYCLES \in Nat
  /\ 2 * RESET_CYCLES < CYCLES_MOD
  /\ \A c \in StepCycles : 2 * (INSTRUCTIONS_PER_FRAME * c + RESET_CYCLES)
                             < CYCLES_MOD
  /\ INSTRUCTIONS_PER_FRAME \in Nat \ {0}
  /\ INSTRUCTION_LOG_SIZE \in Nat \ {0} /\ INSTRUCTION_LOG_DISPLAY \in Nat \ {0}
  /\ \A e \in Elapsed : e \in Nat /\ e <= MAX_ELAPSED
  /\ SAMPLE_MS \in Elapsed /\ SAMPLE_MS > 0

VARIABLES
  phase,                \* where run_monitor_mode is
  screen, cleaned_up,   \* the terminal; the static flag of tui_cleanup
  installed,            \* the signal handlers and the atexit handler
  g_monitor_quit, should_quit, running, stepping,
  i,                    \* the loop counter of a frame
  PC, CYCLES,
  log,                  \* instruction_log, its _idx and its _count
  meter,                \* total_cycles, cycle_history, _idx, current_mhz and
                        \* the statics last_cycles and last_update
  frame,                \* history: the frame's key, its instructions, and
                        \* whether the user's keys so far say "run"
  truth                 \* history: the cycles since the last sample, and the
                        \* true rate behind each sample

terminalVars == <<screen, cleaned_up, installed>>
controlVars == <<should_quit, running, stepping, i>>
monitorVars == <<phase, terminalVars, g_monitor_quit, controlVars, PC, CYCLES,
                 log, meter, frame, truth>>

MonitorInit ==
  /\ phase = "measure"
  /\ screen = "shell" /\ cleaned_up = 0 /\ installed = FALSE
  /\ g_monitor_quit = 0 /\ should_quit = 0 /\ running = 0 /\ stepping = 0
  /\ i = 0
  /\ PC \in PCs /\ CYCLES = RESET_CYCLES
  /\ log = [entry |-> [k \in 0 .. INSTRUCTION_LOG_SIZE - 1 |-> 0],
            idx |-> 0, count |-> 0]
  /\ meter = [total_cycles |-> 0, last_cycles |-> 0, last_update |-> FALSE,
              history |-> [k \in Ring |-> 0], idx |-> 0, current_mhz |-> 0]
  /\ frame = [key |-> "ERR", executed |-> 0, run |-> FALSE]
  /\ truth = [cycles |-> 0, skipped |-> FALSE, rate |-> [k \in Ring |-> 0]]

----------------------------------------------------------------------------
(* The terminal *)

\* exit(1) if initscr fails; what follows otherwise is next.
tui_init(next) ==
  /\ \/ screen' = "curses" /\ phase' = next
     \/ phase' = "done" /\ UNCHANGED screen
  /\ UNCHANGED cleaned_up

\* It works once per process.
tui_cleanup ==
  /\ screen' = IF cleaned_up = 1 THEN screen ELSE "shell"
  /\ cleaned_up' = 1

Idle == <<g_monitor_quit, controlVars, PC, CYCLES, log, meter, frame, truth>>

\* The screen is opened to measure the terminal.
Measure ==
  /\ phase = "measure"
  /\ tui_init("measured")
  /\ UNCHANGED <<installed, Idle>>

\* It is closed again; a terminal that is too small ends the monitor.
Measured ==
  /\ phase = "measured"
  /\ tui_cleanup
  /\ phase' \in {"open", "done"}
  /\ UNCHANGED <<installed, Idle>>

\* tui_init and monitor_state_init
Open ==
  /\ phase = "open"
  /\ tui_init("install")
  /\ UNCHANGED <<installed, Idle>>

\* atexit and the three calls of signal
Install ==
  /\ phase = "install"
  /\ installed' = TRUE /\ phase' = "loop"
  /\ UNCHANGED <<screen, cleaned_up, Idle>>

\* The handler only sets the flag; before it is there, the process dies.
Signal ==
  /\ phase \notin {"done", "killed"}
  /\ \/ /\ installed /\ g_monitor_quit' = 1 /\ UNCHANGED phase
     \/ /\ ~ installed /\ phase' = "killed" /\ UNCHANGED g_monitor_quit
  /\ UNCHANGED <<terminalVars, controlVars, PC, CYCLES, log, meter, frame,
                 truth>>

----------------------------------------------------------------------------
(* A frame *)

Keys == {"q", "s", "c", "b", "r", "ERR"}      \* ERR: no key, or another one

\* tui_handle_input: the flags
HandleKey(key) ==
  /\ should_quit' = IF key = "q" THEN 1 ELSE should_quit
  /\ running' = CASE key = "c" -> 1 [] key \in {"s", "b"} -> 0
                  [] OTHER -> running
  /\ stepping' = CASE key = "s" -> 1 [] key = "c" -> 0 [] OTHER -> stepping

AddCycles(n) ==
  /\ CYCLES' = (CYCLES + n) % CYCLES_MOD
  /\ truth' = [truth EXCEPT !.cycles = @ + n]

\* Mutant: the loop watches the keys only.
KeepGoing_keys == should_quit = 0

\* The condition of the frame loop.
KeepGoing == should_quit = 0 /\ g_monitor_quit = 0

\* A frame begins with tui_handle_input.
Frame(key) ==
  /\ phase = "loop" /\ KeepGoing
  /\ HandleKey(key)
  /\ \/ key = "r" /\ PC' \in PCs /\ AddCycles(RESET_CYCLES)      \* cpu_reset
     \/ key # "r" /\ UNCHANGED <<PC, CYCLES, truth>>
  /\ frame' = [key |-> key, executed |-> 0,
               run |-> (frame.run \/ key = "c") /\ key \notin {"s", "b"}]
  /\ phase' = "execute"
  /\ UNCHANGED <<terminalVars, g_monitor_quit, i, log, meter>>

\* Mutant: the index of the next entry does not wrap.
monitor_log_instruction_stuck(pc) ==
  [entry |-> [log.entry EXCEPT ![log.idx] = pc],
   idx |-> IF log.idx + 1 < INSTRUCTION_LOG_SIZE THEN log.idx + 1 ELSE log.idx,
   count |-> IF log.count < INSTRUCTION_LOG_SIZE THEN log.count + 1
                                                 ELSE log.count]

monitor_log_instruction(pc) ==
  [entry |-> [log.entry EXCEPT ![log.idx] = pc],
   idx |-> (log.idx + 1) % INSTRUCTION_LOG_SIZE,
   count |-> IF log.count < INSTRUCTION_LOG_SIZE THEN log.count + 1
                                                 ELSE log.count]

\* The condition of the loop over the frame's instructions.
MoreToExecute ==
  i < INSTRUCTIONS_PER_FRAME /\ (running = 1 \/ stepping = 1)

StepCpu ==
  /\ phase = "execute" /\ MoreToExecute
  /\ log' = IF stepping = 1 \/ i % LOG_EVERY = 0
            THEN monitor_log_instruction(PC) ELSE log
  /\ PC' \in PCs
  /\ \E n \in StepCycles : AddCycles(n)
  /\ frame' = [frame EXCEPT !.executed =
                 IF @ > INSTRUCTIONS_PER_FRAME THEN @ ELSE @ + 1]

\* Mutant: a single step stays pending.
Execute_keeps_stepping ==
  /\ StepCpu
  /\ i' = IF stepping = 1 THEN INSTRUCTIONS_PER_FRAME ELSE i + 1
  /\ UNCHANGED <<phase, terminalVars, g_monitor_quit, should_quit, stepping,
                 running, meter>>

\* One turn of that loop; a single step pauses, which ends it as the break
\* does.
Execute ==
  /\ StepCpu
  /\ i' = i + 1
  /\ stepping' = 0
  /\ running' = IF stepping = 1 THEN 0 ELSE running
  /\ UNCHANGED <<phase, terminalVars, g_monitor_quit, should_quit, meter>>

\* monitor_state_update, tui_draw and the sleep.  A frame lasts SAMPLE_MS, so
\* that of two updates at least one comes that long after the last sample.
Update(elapsed_ms) ==
  /\ phase = "execute" /\ ~ MoreToExecute /\ phase' = "loop"
  /\ truth.skipped => elapsed_ms >= SAMPLE_MS
  /\ LET first   == ~ meter.last_update
         last    == IF first THEN CYCLES ELSE meter.last_cycles
         sampled == ~ first /\ elapsed_ms >= SAMPLE_MS
         history == [meter.history EXCEPT ![meter.idx] =
                       Rate(CYCLES, last, elapsed_ms)]
         idx     == (meter.idx + 1) % CYCLE_HISTORY_SIZE
     IN  \/ /\ sampled
            /\ meter' = [total_cycles |-> CYCLES, last_cycles |-> CYCLES,
                         last_update |-> TRUE, history |-> history,
                         idx |-> idx, current_mhz |-> Average(history, idx)]
            /\ truth' = [cycles |-> 0, skipped |-> FALSE,
                         rate |-> [truth.rate EXCEPT ![meter.idx] =
                                     (truth.cycles * SECOND) \div elapsed_ms]]
         \/ /\ ~ sampled
            /\ meter' = [meter EXCEPT !.total_cycles = CYCLES,
                           !.last_cycles = last, !.last_update = TRUE,
                           !.current_mhz = Average(meter.history, meter.idx)]
            /\ truth' = [truth EXCEPT !.skipped = ~ first,
                           !.cycles = IF first THEN 0 ELSE @]
  /\ frame' = [frame EXCEPT !.key = "ERR", !.executed = 0]
  /\ i' = 0
  /\ UNCHANGED <<terminalVars, g_monitor_quit, should_quit, running, stepping,
                 PC, CYCLES, log>>

\* The loop ends: tui_cleanup, return, and tui_cleanup again from atexit.
Quit ==
  /\ phase = "loop" /\ ~ KeepGoing
  /\ tui_cleanup
  /\ phase' = "done"
  /\ UNCHANGED <<installed, Idle>>

----------------------------------------------------------------------------
Process == \/ Measure \/ Measured \/ Open \/ Install
           \/ \E key \in Keys : Frame(key)
           \/ Execute
           \/ \E elapsed_ms \in Elapsed : Update(elapsed_ms)
           \/ Quit

MonitorNext == Process \/ Signal

\* The process runs until it ends.
MonitorSpec ==
  MonitorInit /\ [][MonitorNext]_monitorVars /\ WF_monitorVars(Process)

----------------------------------------------------------------------------
(* Properties *)

\* Frames do what the keys said: S executes exactly one instruction and then
\* nothing until the next S or C, C runs full frames until B or S, and a frame
\* while paused executes nothing, whatever was pressed before.
FramesObeyKeys ==
  phase = "execute" /\ ~ MoreToExecute =>
    frame.executed = IF frame.key = "s" THEN 1
                     ELSE IF frame.run THEN INSTRUCTIONS_PER_FRAME ELSE 0

\* What the Instructions panel shows, newest first.
Displayed ==
  [k \in 1 .. (IF log.count < INSTRUCTION_LOG_DISPLAY THEN log.count
                                     ELSE INSTRUCTION_LOG_DISPLAY) |->
     log.entry[(log.idx - 1 - (k - 1) + INSTRUCTION_LOG_SIZE)
                 % INSTRUCTION_LOG_SIZE]]

Recent == INSTANCE RecentEvents WITH
            Capacity <- IF INSTRUCTION_LOG_DISPLAY < INSTRUCTION_LOG_SIZE
                        THEN INSTRUCTION_LOG_DISPLAY ELSE INSTRUCTION_LOG_SIZE,
            Event <- PCs,
            shown <- Reverse(Displayed)

\* The panel shows the last logged instructions in order, across the wrap of
\* the ring and of the display.
LogShowsRecent == Recent!Spec

\* No displayed speed is an artefact: the wrap of the 32-bit CYCLES makes one
\* difference negative, and neither the average nor any number of the panel
\* shows it, each lies between true rates of sampled intervals.
SpeedIsReal ==
  \A shown \in Panel(meter.history, meter.idx) \cup
               (IF meter.current_mhz = 0 THEN {} ELSE {meter.current_mhz}) :
    /\ \E k \in Ring : truth.rate[k] <= shown
    /\ \E k \in Ring : shown <= truth.rate[k]

\* Q and the signals end the monitor, also while the program runs.
QuitIsHeeded == (should_quit = 1 \/ g_monitor_quit = 1) ~> phase = "done"

\* "Install signal handlers so Ctrl-C/SIGTERM/SIGHUP restore the terminal via
\* atexit": when run_monitor_mode is over the terminal is the shell's again.
TerminalRestored == phase = "done" => screen = "shell"
=============================================================================
