------------------------ MODULE InterruptController ------------------------
(***************************************************************************)
(* The interrupt controller on its own: peripherals drive the lines and    *)
(* the CPU, left abstract, polls with any program counter of Pcs and any   *)
(* status register of Statuses.                                            *)
(***************************************************************************)
EXTENDS Interrupt, Sequences

CONSTANTS Pcs, Statuses

ASSUME ContextAssumption == Pcs \subseteq Word /\ Statuses \subseteq SUBSET FLAG

\* 32 divides 2^64.
ASSUME WidthAssumption == COUNT_MOD % MAX_INTERRUPT_HISTORY = 0

Init == ic = interrupt_init /\ global_cycle_count = 0

\* cpu_init: the poll counter is not reset.
Restart == ic' = interrupt_init /\ UNCHANGED global_cycle_count

SetIrq(active) == /\ ic' = interrupt_set_irq(ic, active)
                  /\ UNCHANGED global_cycle_count

SetNmi(active) == /\ ic' = interrupt_set_nmi(ic, active)
                  /\ UNCHANGED global_cycle_count

\* cpu_step's first statements, with the CPU at pc and status p: the poll
\* counts, then the event is recorded with the new count.
Poll(pc, p) ==
  LET type == interrupt_poll(ic, p)
  IN  /\ global_cycle_count' = Bump(global_cycle_count)
      /\ ic' = IF type = "INT_NONE" THEN ic
               ELSE Acknowledge(ic, type, pc, p, Bump(global_cycle_count))

\* A BRK instruction: the cpu_step that executes it polled and found nothing.
Brk(pc, p) ==
  /\ interrupt_poll(ic, p) = "INT_NONE"
  /\ global_cycle_count' = Bump(global_cycle_count)
  /\ ic' = Acknowledge(ic, "INT_BRK", pc, p, Bump(global_cycle_count))

ClearHistory == /\ ic' = interrupt_clear_history(ic)
                /\ UNCHANGED global_cycle_count

Next ==
  \/ Restart
  \/ ClearHistory
  \/ \E active \in {0, 1} : SetIrq(active)
  \/ \E active \in {0, 1} : SetNmi(active)
  \/ \E pc \in Pcs, p \in Statuses : Poll(pc, p)
  \/ \E pc \in Pcs, p \in Statuses : Brk(pc, p)

Spec == Init /\ [][Next]_interruptVars

----------------------------------------------------------------------------
(* Properties *)

\* The controller's fields keep the types interrupt.h gives them and the
\* counters their width.
TypeOK == ic \in INTERRUPT_CONTROLLER /\ global_cycle_count \in Count

\* The write index of record_interrupt and the statistics move together: the
\* index is the number of interrupts counted, modulo the ring, even after a
\* counter has wrapped (the ring size divides the counters' modulus).
IndexFollowsTotals ==
  ic.history_index =
    (ic.total_irqs + ic.total_nmis + ic.total_brks) % MAX_INTERRUPT_HISTORY

\* Until the ring is full it is filled from slot 0, which is what lets
\* interrupt_dump_history start there.
RingFillsFromZero ==
  ic.history_count < MAX_INTERRUPT_HISTORY =>
    ic.history_index = ic.history_count

RingInv == TypeOK /\ RingFillsFromZero

\* Every IRQ in the dump was taken with interrupts enabled.
IrqsWereUnmasked ==
  \A i \in DOMAIN interrupt_dump_history(ic) :
    LET e == interrupt_dump_history(ic)[i]
    IN  e.type = "INT_IRQ" => "I" \notin e.p

\* A latched NMI is never dropped: the latch clears only in the step that
\* records the NMI as the newest event, or when the controller is restarted.
NmiNeverDropped ==
  [][ic.nmi_pending = 1 /\ ic'.nmi_pending = 0 =>
       \/ ic' = interrupt_init
       \/ LET shown == interrupt_dump_history(ic')
          IN  /\ shown # <<>>
              /\ shown[Len(shown)].type = "INT_NMI"
              /\ ic'.total_nmis = Bump(ic.total_nmis)]_interruptVars

\* interrupt_dump_history shows exactly the most recent events, oldest
\* first: the ring implements RecentEvents.
Recordable == [type : {"INT_IRQ", "INT_NMI", "INT_BRK"}, pc : Pcs,
               p : Statuses, cycle : Count]
Recent == INSTANCE RecentEvents WITH
            Capacity <- MAX_INTERRUPT_HISTORY,
            Event <- Recordable,
            shown <- interrupt_dump_history(ic)
DumpShowsRecentEvents == Recent!Spec
=============================================================================
