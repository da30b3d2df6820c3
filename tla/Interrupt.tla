----------------------------- MODULE Interrupt -----------------------------
(***************************************************************************)
(* src/interrupt.c: the interrupt controller ic and its poll counter.      *)
(*                                                                         *)
(* The lines are driven by peripherals; the CPU polls once per cpu_step,   *)
(* acknowledges what the poll returns and records it in a ring of the last *)
(* MAX_INTERRUPT_HISTORY events.  interrupt_begin sets                     *)
(* interrupt_in_progress, current_interrupt and interrupt_cycle and the    *)
(* interrupt_step_cycle that every caller makes next resets the three      *)
(* before returning (the sequence is "single-shot"), so no step of this    *)
(* module can see them set and they are not kept.                          *)
(*                                                                         *)
(* The operations are operators on a controller c.  InterruptController    *)
(* makes actions of them with the CPU left abstract; Cpu6502 uses them in  *)
(* the steps of the whole CPU.                                             *)
(***************************************************************************)
EXTENDS Types6502

CONSTANTS
  MAX_INTERRUPT_HISTORY,     \* 32
  COUNT_MOD                  \* the counters are unsigned long long: 2^64

ASSUME InterruptAssumption ==
  /\ MAX_INTERRUPT_HISTORY \in Nat \ {0}
  /\ COUNT_MOD \in Nat \ {0}

VARIABLES
  ic,                        \* INTERRUPT_CONTROLLER
  global_cycle_count

interruptVars == <<ic, global_cycle_count>>

IRQ_VECTOR == \hFFFE
NMI_VECTOR == \hFFFA

INTERRUPT_TYPE == {"INT_NONE", "INT_IRQ", "INT_NMI", "INT_BRK"}
Slot == 0 .. MAX_INTERRUPT_HISTORY - 1
Count == 0 .. COUNT_MOD - 1

INTERRUPT_EVENT ==
  [type : INTERRUPT_TYPE, pc : Word, p : SUBSET FLAG, cycle : Count]

INTERRUPT_CONTROLLER ==
  [irq_line : {0, 1}, irq_line_prev : {0, 1},
   nmi_line : {0, 1}, nmi_line_prev : {0, 1}, nmi_pending : {0, 1},
   history : [Slot -> INTERRUPT_EVENT],
   history_count : 0 .. MAX_INTERRUPT_HISTORY, history_index : Slot,
   total_irqs : Count, total_nmis : Count, total_brks : Count]

Bump(n) == (n + 1) % COUNT_MOD

----------------------------------------------------------------------------
(* Operations *)

\* memset(&ic, 0, sizeof(ic))
ZeroEvent == [type |-> "INT_NONE", pc |-> 0, p |-> {}, cycle |-> 0]

interrupt_init ==
  [irq_line |-> 0, irq_line_prev |-> 0,
   nmi_line |-> 0, nmi_line_prev |-> 0, nmi_pending |-> 0,
   history |-> [i \in Slot |-> ZeroEvent],
   history_count |-> 0, history_index |-> 0,
   total_irqs |-> 0, total_nmis |-> 0, total_brks |-> 0]

interrupt_set_irq(c, active) ==
  [c EXCEPT !.irq_line_prev = c.irq_line, !.irq_line = active]

\* Mutant: the latch follows the line, so the next call drops a pending NMI.
interrupt_set_nmi_unlatched(c, active) ==
  [c EXCEPT !.nmi_line_prev = c.nmi_line,
            !.nmi_line = active,
            !.nmi_pending = IF c.nmi_line = 1 /\ active = 0 THEN 1 ELSE 0]

\* Edge-triggered: the line going from 1 to 0 latches nmi_pending.
interrupt_set_nmi(c, active) ==
  [c EXCEPT !.nmi_line_prev = c.nmi_line,
            !.nmi_line = active,
            !.nmi_pending = IF c.nmi_line = 1 /\ active = 0 THEN 1 ELSE @]

\* Mutant: the I flag does not mask.
interrupt_poll_unmasked(c, p) ==
  IF c.nmi_pending = 1 THEN "INT_NMI"
  ELSE IF c.irq_line = 1 THEN "INT_IRQ"
  ELSE "INT_NONE"

\* What the poll returns for status register p.
interrupt_poll(c, p) ==
  IF c.nmi_pending = 1 THEN "INT_NMI"
  ELSE IF c.irq_line = 1 /\ "I" \notin p THEN "INT_IRQ"
  ELSE "INT_NONE"

\* Mutant: the write index runs off the end of the ring.
record_interrupt_no_wrap(c, type, pc, p, cycle) ==
  [c EXCEPT
    !.history[c.history_index] =
        [type |-> type, pc |-> pc, p |-> p, cycle |-> cycle],
    !.history_index = @ + 1,
    !.history_count = IF @ < MAX_INTERRUPT_HISTORY THEN @ + 1 ELSE @]

\* Mutant: BRKs are recorded but not counted.
record_interrupt_no_brks(c, type, pc, p, cycle) ==
  [c EXCEPT
    !.history[c.history_index] =
        [type |-> type, pc |-> pc, p |-> p, cycle |-> cycle],
    !.history_index = (@ + 1) % MAX_INTERRUPT_HISTORY,
    !.history_count = IF @ < MAX_INTERRUPT_HISTORY THEN @ + 1 ELSE @,
    !.total_irqs = IF type = "INT_IRQ" THEN Bump(@) ELSE @,
    !.total_nmis = IF type = "INT_NMI" THEN Bump(@) ELSE @]

record_interrupt(c, type, pc, p, cycle) ==
  [c EXCEPT
    !.history[c.history_index] =
        [type |-> type, pc |-> pc, p |-> p, cycle |-> cycle],
    !.history_index = (@ + 1) % MAX_INTERRUPT_HISTORY,
    !.history_count = IF @ < MAX_INTERRUPT_HISTORY THEN @ + 1 ELSE @,
    !.total_irqs = IF type = "INT_IRQ" THEN Bump(@) ELSE @,
    !.total_nmis = IF type = "INT_NMI" THEN Bump(@) ELSE @,
    !.total_brks = IF type = "INT_BRK" THEN Bump(@) ELSE @]

\* Mutant: the NMI latch is never cleared.
Acknowledge_keeps_latch(c, type, pc, p, cycle) ==
  record_interrupt(c, type, pc, p, cycle)

\* interrupt_begin followed by interrupt_step_cycle, the controller's part:
\* record the event and, for an NMI, clear the latch.
Acknowledge(c, type, pc, p, cycle) ==
  LET recorded == record_interrupt(c, type, pc, p, cycle)
  IN  IF type = "INT_NMI" THEN [recorded EXCEPT !.nmi_pending = 0]
                          ELSE recorded

\* Mutant: the write index is not reset.
interrupt_clear_history_keeps_index(c) ==
  [c EXCEPT !.history_count = 0,
            !.total_irqs = 0, !.total_nmis = 0, !.total_brks = 0]

\* The ring and the statistics restart; the entries and the lines stay.
interrupt_clear_history(c) ==
  [c EXCEPT !.history_count = 0, !.history_index = 0,
            !.total_irqs = 0, !.total_nmis = 0, !.total_brks = 0]

\* Mutant: the dump starts at slot 0 even when the ring is full.
interrupt_dump_history_from_zero(c) ==
  [i \in 1 .. c.history_count |-> c.history[i - 1]]

\* The events interrupt_dump_history prints, in its order.
interrupt_dump_history(c) ==
  LET start == IF c.history_count < MAX_INTERRUPT_HISTORY
               THEN 0 ELSE c.history_index
  IN  [i \in 1 .. c.history_count |->
         c.history[(start + (i - 1)) % MAX_INTERRUPT_HISTORY]]
=============================================================================
