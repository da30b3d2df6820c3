--------------------- MODULE InterruptController_proofs ---------------------
(***************************************************************************)
(* Theorems about InterruptController, for every size of the history and   *)
(* every width of the counters.                                            *)
(***************************************************************************)
EXTENDS InterruptController, Operators_proofs

----------------------------------------------------------------------------
(* Type correctness *)

\* Every operation of interrupt.c keeps the controller and the poll counter
\* in their types: the ring index in the ring, the count at most its size,
\* the totals in their width.
THEOREM TypeCorrect == Spec => []TypeOK
  <1>1. Init => TypeOK
    BY InitialController, InterruptAssumption DEF Init, TypeOK, Count
  <1>2. TypeOK /\ [Next]_interruptVars => TypeOK'
    <2> SUFFICES ASSUME TypeOK, [Next]_interruptVars PROVE TypeOK'
      OBVIOUS
    <2> USE DEF TypeOK
    <2>1. CASE Restart
      BY <2>1, InitialController DEF Restart
    <2>2. CASE ClearHistory
      BY <2>2, ClearType DEF ClearHistory
    <2>3. CASE \E active \in {0, 1} : SetIrq(active)
      BY <2>3, LinesType DEF SetIrq
    <2>4. CASE \E active \in {0, 1} : SetNmi(active)
      BY <2>4, LinesType DEF SetNmi
    <2>5. ASSUME NEW pc \in Pcs, NEW p \in Statuses, Poll(pc, p)
          PROVE  TypeOK'
      <3>1. pc \in Word /\ p \in SUBSET FLAG
        BY ContextAssumption
      <3> QED
        BY <2>5, <3>1, BumpInCount, PollType, AcknowledgeType DEF Poll
    <2>6. ASSUME NEW pc \in Pcs, NEW p \in Statuses, Brk(pc, p)
          PROVE  TypeOK'
      <3>1. pc \in Word /\ p \in SUBSET FLAG
        BY ContextAssumption
      <3>2. "INT_BRK" \in INTERRUPT_TYPE
        BY DEF INTERRUPT_TYPE
      <3> QED
        BY <2>6, <3>1, <3>2, BumpInCount, AcknowledgeType DEF Brk
    <2>7. CASE UNCHANGED interruptVars
      BY <2>7 DEF interruptVars
    <2> QED
      BY <2>1, <2>2, <2>3, <2>4, <2>5, <2>6, <2>7 DEF Next
  <1> QED
    BY <1>1, <1>2, PTL DEF Spec

----------------------------------------------------------------------------
(* The ring fills from slot 0 *)

\* What acknowledging does to the ring: one more event, at the old index.
LEMMA AcknowledgeRing ==
  ASSUME NEW c \in INTERRUPT_CONTROLLER, NEW type \in INTERRUPT_TYPE,
         NEW pc \in Word, NEW p \in SUBSET FLAG, NEW cycle \in Count,
         NEW d, d = Acknowledge(c, type, pc, p, cycle)
  PROVE  /\ d.history_index = (c.history_index + 1) % MAX_INTERRUPT_HISTORY
         /\ d.history_count = IF c.history_count < MAX_INTERRUPT_HISTORY
                              THEN c.history_count + 1 ELSE c.history_count
         /\ d.nmi_pending = IF type = "INT_NMI" THEN 0 ELSE c.nmi_pending
         /\ d.total_nmis = IF type = "INT_NMI" THEN Bump(c.total_nmis)
                                               ELSE c.total_nmis
  BY DEF Acknowledge, record_interrupt, INTERRUPT_CONTROLLER

\* The event is stored at the old index, the other slots stay.
LEMMA AcknowledgeSlots ==
  ASSUME NEW c \in INTERRUPT_CONTROLLER, NEW type \in INTERRUPT_TYPE,
         NEW pc \in Word, NEW p \in SUBSET FLAG, NEW cycle \in Count,
         NEW d, d = Acknowledge(c, type, pc, p, cycle), NEW i \in Slot
  PROVE  d.history[i] =
           IF i = c.history_index
           THEN [type |-> type, pc |-> pc, p |-> p, cycle |-> cycle]
           ELSE c.history[i]
  BY DEF Acknowledge, record_interrupt, INTERRUPT_CONTROLLER

\* A restarted controller and a cleared one have an empty ring.
LEMMA EmptyRing ==
  ASSUME NEW c \in INTERRUPT_CONTROLLER, NEW d,
         d = interrupt_init \/ d = interrupt_clear_history(c)
  PROVE  /\ d.history_count = 0 /\ d.history_index = 0
         /\ d = interrupt_init \/ d.nmi_pending = c.nmi_pending
  <1>1. CASE d = interrupt_init
    BY <1>1 DEF interrupt_init
  <1>2. CASE d = interrupt_clear_history(c)
    BY <1>2 DEF interrupt_clear_history, INTERRUPT_CONTROLLER
  <1> QED
    BY <1>1, <1>2

\* The steps that record, and what every other step does to the ring.
LEMMA StepKinds ==
  ASSUME TypeOK, [Next]_interruptVars
  PROVE  \/ \E type \in {"INT_IRQ", "INT_NMI", "INT_BRK"}, pc \in Pcs,
               p \in Statuses :
              /\ ic' = Acknowledge(ic, type, pc, p, Bump(global_cycle_count))
              /\ type = "INT_IRQ" => "I" \notin p
         \/ ic' = interrupt_init
         \/ ic' = interrupt_clear_history(ic)
         \/ \E active \in {0, 1} : ic' = interrupt_set_irq(ic, active)
         \/ \E active \in {0, 1} : ic' = interrupt_set_nmi(ic, active)
         \/ ic' = ic
  <1>1. ASSUME NEW pc \in Pcs, NEW p \in Statuses, Poll(pc, p)
        PROVE  \/ ic' = ic
               \/ \E type \in {"INT_IRQ", "INT_NMI", "INT_BRK"} :
                    /\ ic' = Acknowledge(ic, type, pc, p,
                                         Bump(global_cycle_count))
                    /\ type = "INT_IRQ" => "I" \notin p
    BY <1>1 DEF Poll, interrupt_poll
  <1> QED
    BY <1>1 DEF Next, Restart, ClearHistory, SetIrq, SetNmi, Brk,
                interruptVars

\* Driving a line leaves the ring alone and never clears the NMI latch.
LEMMA LinesRing ==
  ASSUME NEW c \in INTERRUPT_CONTROLLER, NEW active \in {0, 1},
         NEW d \in {interrupt_set_irq(c, active),
                    interrupt_set_nmi(c, active)}
  PROVE  /\ d.history = c.history /\ d.history_index = c.history_index
         /\ d.history_count = c.history_count
         /\ c.nmi_pending = 1 => d.nmi_pending = 1
  BY DEF interrupt_set_irq, interrupt_set_nmi, INTERRUPT_CONTROLLER

\* The write index and the count agree until the ring is full, through every
\* clearing and restart, so the dump's start index is right for every size
\* of the ring.
THEOREM RingCorrect == Spec => []RingFillsFromZero
  <1>1. Init => RingFillsFromZero
    BY InterruptAssumption DEF Init, RingFillsFromZero, interrupt_init
  <1>2. TypeOK /\ TypeOK' /\ RingFillsFromZero /\ [Next]_interruptVars
          => RingFillsFromZero'
    <2> SUFFICES ASSUME TypeOK, TypeOK', RingFillsFromZero,
                        [Next]_interruptVars
                 PROVE  RingFillsFromZero'
      OBVIOUS
    <2>0. /\ ic \in INTERRUPT_CONTROLLER /\ ic.history_index \in Slot
          /\ ic.history_count \in 0 .. MAX_INTERRUPT_HISTORY
      BY DEF TypeOK, INTERRUPT_CONTROLLER
    <2>1. ASSUME NEW type \in {"INT_IRQ", "INT_NMI", "INT_BRK"},
                 NEW pc \in Pcs, NEW p \in Statuses,
                 ic' = Acknowledge(ic, type, pc, p, Bump(global_cycle_count))
          PROVE  RingFillsFromZero'
      <3>1. /\ type \in INTERRUPT_TYPE /\ pc \in Word /\ p \in SUBSET FLAG
            /\ Bump(global_cycle_count) \in Count
        BY ContextAssumption, BumpInCount DEF INTERRUPT_TYPE, TypeOK
      <3>2. /\ ic'.history_index =
                 (ic.history_index + 1) % MAX_INTERRUPT_HISTORY
            /\ ic'.history_count =
                 IF ic.history_count < MAX_INTERRUPT_HISTORY
                 THEN ic.history_count + 1 ELSE ic.history_count
        BY <2>0, <2>1, <3>1, AcknowledgeRing
      <3> QED
        BY <2>0, <3>2, NextSlot, InterruptAssumption DEF RingFillsFromZero, Slot
    <2>2. CASE ic' = interrupt_init \/ ic' = interrupt_clear_history(ic)
      BY <2>0, <2>2, EmptyRing DEF RingFillsFromZero
    <2>3. CASE \/ \E active \in {0, 1} : ic' = interrupt_set_irq(ic, active)
               \/ \E active \in {0, 1} : ic' = interrupt_set_nmi(ic, active)
      BY <2>0, <2>3, LinesRing DEF RingFillsFromZero
    <2>4. CASE ic' = ic
      BY <2>4 DEF RingFillsFromZero
    <2> QED
      BY <2>1, <2>2, <2>3, <2>4, StepKinds
  <1> QED
    BY <1>1, <1>2, TypeCorrect, PTL DEF Spec

----------------------------------------------------------------------------
(* The index follows the statistics *)

\* Counting one interrupt more moves the sum of the totals by one in the
\* ring, also when that counter wraps around.
LEMMA BumpedSum ==
  ASSUME NEW n \in Count, NEW s \in Nat
  PROVE  (Bump(n) + s) % MAX_INTERRUPT_HISTORY =
           (((n + s) % MAX_INTERRUPT_HISTORY) + 1) % MAX_INTERRUPT_HISTORY
  <1> DEFINE m == MAX_INTERRUPT_HISTORY
  <1>1. /\ m \in Nat \ {0} /\ COUNT_MOD \in Nat \ {0}
        /\ COUNT_MOD \in Int /\ n \in Int /\ 0 <= n /\ n < COUNT_MOD
    BY InterruptAssumption DEF Count
  <1>a. COUNT_MOD % m = 0
    BY WidthAssumption
  <1> HIDE DEF m
  <1>2. PICK k \in Int : COUNT_MOD = m * k
    <2>1. PICK k \in Int, r \in 0 .. m - 1 :
            COUNT_MOD = m * k + r /\ COUNT_MOD % m = r
      BY <1>1, Division
    <2>2. r = 0
      BY <1>a, <2>1
    <2> QED
      BY <1>1, <2>1, <2>2
  <1>3. (n + s + 1) % m = (((n + s) % m) + 1) % m
    <2>1. n + s \in Int
      BY <1>1
    <2> QED
      BY <1>1, <2>1, NextRemainder
  <1>4. CASE n + 1 < COUNT_MOD
    <2>1. Bump(n) = n + 1
      BY <1>1, <1>4 DEF Bump
    <2>2. Bump(n) + s = n + s + 1
      BY <1>1, <2>1
    <2> QED
      BY <1>3, <2>2 DEF m
  <1>5. CASE n + 1 = COUNT_MOD
    <2>1. Bump(n) = 0
      BY <1>1, <1>5 DEF Bump
    <2>2. n + s + 1 = s + m * k /\ s \in Int
      BY <1>1, <1>2, <1>5
    <2>3. (s + m * k) % m = s % m
      BY <1>1, <2>2, MultipleDrops
    <2>4. Bump(n) + s = s
      BY <2>1
    <2> QED
      BY <1>3, <2>2, <2>3, <2>4 DEF m
  <1> QED
    BY <1>1, <1>4, <1>5

\* What acknowledging does to the totals.
LEMMA AcknowledgeTotals ==
  ASSUME NEW c \in INTERRUPT_CONTROLLER, NEW type \in INTERRUPT_TYPE,
         NEW pc \in Word, NEW p \in SUBSET FLAG, NEW cycle \in Count,
         NEW d, d = Acknowledge(c, type, pc, p, cycle)
  PROVE  /\ d.total_irqs = IF type = "INT_IRQ" THEN Bump(c.total_irqs)
                                               ELSE c.total_irqs
         /\ d.total_nmis = IF type = "INT_NMI" THEN Bump(c.total_nmis)
                                               ELSE c.total_nmis
         /\ d.total_brks = IF type = "INT_BRK" THEN Bump(c.total_brks)
                                               ELSE c.total_brks
  BY DEF Acknowledge, record_interrupt, INTERRUPT_CONTROLLER

\* Driving a line counts nothing; a restart and a clear reset every total.
LEMMA OtherTotals ==
  ASSUME NEW c \in INTERRUPT_CONTROLLER, NEW active \in {0, 1}
  PROVE  /\ \A d \in {interrupt_set_irq(c, active),
                       interrupt_set_nmi(c, active)} :
              /\ d.history_index = c.history_index
              /\ d.total_irqs = c.total_irqs /\ d.total_nmis = c.total_nmis
              /\ d.total_brks = c.total_brks
         /\ \A d \in {interrupt_init, interrupt_clear_history(c)} :
              /\ d.history_index = 0
              /\ d.total_irqs = 0 /\ d.total_nmis = 0 /\ d.total_brks = 0
  BY DEF interrupt_set_irq, interrupt_set_nmi, interrupt_init,
         interrupt_clear_history, INTERRUPT_CONTROLLER

\* The write index is the number of interrupts counted, modulo the ring, for
\* every ring size that divides the range of the counters.
THEOREM IndexCorrect == Spec => []IndexFollowsTotals
  <1>0. 0 % MAX_INTERRUPT_HISTORY = 0
    BY InterruptAssumption
  <1>1. Init => IndexFollowsTotals
    BY <1>0 DEF Init, IndexFollowsTotals, interrupt_init
  <1>2. TypeOK /\ IndexFollowsTotals /\ [Next]_interruptVars
          => IndexFollowsTotals'
    <2> SUFFICES ASSUME TypeOK, IndexFollowsTotals, [Next]_interruptVars
                 PROVE  IndexFollowsTotals'
      OBVIOUS
    <2>0. /\ ic \in INTERRUPT_CONTROLLER
          /\ ic.total_irqs \in Count /\ ic.total_nmis \in Count
          /\ ic.total_brks \in Count
      BY DEF TypeOK, INTERRUPT_CONTROLLER
    <2>1. ASSUME NEW type \in {"INT_IRQ", "INT_NMI", "INT_BRK"},
                 NEW pc \in Pcs, NEW p \in Statuses,
                 ic' = Acknowledge(ic, type, pc, p, Bump(global_cycle_count))
          PROVE  IndexFollowsTotals'
      <3> DEFINE m == MAX_INTERRUPT_HISTORY
                 x == ic.total_irqs
                 y == ic.total_nmis
                 z == ic.total_brks
      <3>1. /\ type \in INTERRUPT_TYPE /\ pc \in Word /\ p \in SUBSET FLAG
            /\ Bump(global_cycle_count) \in Count
        BY ContextAssumption, BumpInCount DEF INTERRUPT_TYPE, TypeOK
      <3>2. /\ ic'.total_irqs = IF type = "INT_IRQ" THEN Bump(x) ELSE x
            /\ ic'.total_nmis = IF type = "INT_NMI" THEN Bump(y) ELSE y
            /\ ic'.total_brks = IF type = "INT_BRK" THEN Bump(z) ELSE z
        BY <2>0, <2>1, <3>1, AcknowledgeTotals
      <3>3. ic'.history_index = (((x + y + z) % m) + 1) % m
        BY <2>0, <2>1, <3>1, AcknowledgeRing DEF IndexFollowsTotals
      <3>4. /\ x \in Nat /\ y \in Nat /\ z \in Nat
            /\ Bump(x) \in Nat /\ Bump(y) \in Nat /\ Bump(z) \in Nat
        BY <2>0, BumpInCount, InterruptAssumption DEF Count
      <3> SUFFICES (ic'.total_irqs + ic'.total_nmis + ic'.total_brks) % m
                     = (((x + y + z) % m) + 1) % m
        BY <3>3 DEF IndexFollowsTotals
      <3> HIDE DEF x, y, z, m
      <3>5. CASE type = "INT_IRQ"
        <4>1. (Bump(x) + (y + z)) % m = (((x + (y + z)) % m) + 1) % m
          BY <2>0, <3>4, BumpedSum DEF x, m
        <4> QED
          BY <3>2, <3>4, <3>5, <4>1
      <3>6. CASE type = "INT_NMI"
        <4>1. (Bump(y) + (x + z)) % m = (((y + (x + z)) % m) + 1) % m
          BY <2>0, <3>4, BumpedSum DEF y, m
        <4>2. /\ Bump(y) + (x + z) = x + Bump(y) + z
              /\ y + (x + z) = x + y + z
          BY <3>4
        <4> QED
          BY <3>2, <3>6, <4>1, <4>2
      <3>7. CASE type = "INT_BRK"
        <4>1. (Bump(z) + (x + y)) % m = (((z + (x + y)) % m) + 1) % m
          BY <2>0, <3>4, BumpedSum DEF z, m
        <4>2. /\ Bump(z) + (x + y) = x + y + Bump(z)
              /\ z + (x + y) = x + y + z
          BY <3>4
        <4> QED
          BY <3>2, <3>7, <4>1, <4>2
      <3> QED
        BY <3>5, <3>6, <3>7
    <2>2. CASE ic' \in {interrupt_init, interrupt_clear_history(ic)}
      BY <1>0, <2>0, <2>2, OtherTotals DEF IndexFollowsTotals
    <2>3. CASE \E active \in {0, 1} : ic' \in {interrupt_set_irq(ic, active),
                                               interrupt_set_nmi(ic, active)}
      BY <2>0, <2>3, OtherTotals DEF IndexFollowsTotals
    <2>4. CASE ic' = ic
      BY <2>4 DEF IndexFollowsTotals
    <2> QED
      BY <2>1, <2>2, <2>3, <2>4, StepKinds
  <1> QED
    BY <1>1, <1>2, TypeCorrect, PTL DEF Spec

----------------------------------------------------------------------------
(* What the dump shows *)

\* The slot interrupt_dump_history reads for its i-th line.
DumpSlot(c, i) ==
  ((IF c.history_count < MAX_INTERRUPT_HISTORY THEN 0 ELSE c.history_index)
     + (i - 1)) % MAX_INTERRUPT_HISTORY

\* Remainders below and just above the modulus.
LEMMA SmallModulus ==
  ASSUME NEW x \in 0 .. 2 * MAX_INTERRUPT_HISTORY - 1
  PROVE  x % MAX_INTERRUPT_HISTORY =
           IF x < MAX_INTERRUPT_HISTORY THEN x ELSE x - MAX_INTERRUPT_HISTORY
  BY InterruptAssumption

\* The slot a line of the dump is read from.
LEMMA DumpSlotValue ==
  ASSUME NEW c \in INTERRUPT_CONTROLLER, NEW i \in 1 .. c.history_count
  PROVE  DumpSlot(c, i) =
           IF c.history_count < MAX_INTERRUPT_HISTORY THEN i - 1
           ELSE IF c.history_index + (i - 1) < MAX_INTERRUPT_HISTORY
                THEN c.history_index + (i - 1)
                ELSE c.history_index + (i - 1) - MAX_INTERRUPT_HISTORY
  <1>1. /\ c.history_index \in Slot
        /\ c.history_count \in 0 .. MAX_INTERRUPT_HISTORY
    BY DEF INTERRUPT_CONTROLLER
  <1> QED
    BY <1>1, SmallModulus, InterruptAssumption DEF DumpSlot, Slot

\* The dump has history_count lines and its i-th line is slot DumpSlot.
LEMMA DumpLines ==
  ASSUME NEW c \in INTERRUPT_CONTROLLER
  PROVE  /\ interrupt_dump_history(c) \in Seq(INTERRUPT_EVENT)
         /\ Len(interrupt_dump_history(c)) = c.history_count
         /\ \A i \in 1 .. c.history_count :
              /\ DumpSlot(c, i) \in Slot
              /\ interrupt_dump_history(c)[i] = c.history[DumpSlot(c, i)]
  <1>1. /\ c.history \in [Slot -> INTERRUPT_EVENT]
        /\ c.history_index \in Slot
        /\ c.history_count \in 0 .. MAX_INTERRUPT_HISTORY
    BY DEF INTERRUPT_CONTROLLER
  <1>2. interrupt_dump_history(c) =
          [i \in 1 .. c.history_count |-> c.history[DumpSlot(c, i)]]
    BY DEF interrupt_dump_history, DumpSlot
  <1>3. \A i \in 1 .. c.history_count : DumpSlot(c, i) \in Slot
    BY <1>1, InterruptAssumption DEF DumpSlot, Slot
  <1>4. \A i \in 1 .. c.history_count :
          c.history[DumpSlot(c, i)] \in INTERRUPT_EVENT
    BY <1>1, <1>3
  <1> QED
    BY <1>1, <1>2, <1>3, <1>4

\* The slots that are shown are the used ones.
LEMMA DumpUsesFilled ==
  ASSUME NEW c \in INTERRUPT_CONTROLLER, NEW i \in 1 .. c.history_count
  PROVE  DumpSlot(c, i) < c.history_count
  <1>1. /\ c.history_index \in Slot
        /\ c.history_count \in 0 .. MAX_INTERRUPT_HISTORY
    BY DEF INTERRUPT_CONTROLLER
  <1> QED
    BY <1>1, SmallModulus, InterruptAssumption DEF DumpSlot, Slot

\* The events in used slots were recorded with interrupts enabled if they
\* are IRQs: the inductive form of IrqsWereUnmasked.
UsedUnmasked ==
  \A j \in Slot : j < ic.history_count =>
    (ic.history[j].type = "INT_IRQ" => "I" \notin ic.history[j].p)

\* An IRQ is never taken while the I flag masks it, and no clearing, restart
\* or wrap of the ring makes the dump show one that was.
THEOREM IrqCorrect == Spec => []IrqsWereUnmasked
  <1>1. Init => UsedUnmasked
    BY InterruptAssumption DEF Init, UsedUnmasked, interrupt_init, Slot
  <1>2. TypeOK /\ RingFillsFromZero /\ UsedUnmasked /\ [Next]_interruptVars
          => UsedUnmasked'
    <2> SUFFICES ASSUME TypeOK, RingFillsFromZero, UsedUnmasked,
                        [Next]_interruptVars
                 PROVE  UsedUnmasked'
      OBVIOUS
    <2>0. /\ ic \in INTERRUPT_CONTROLLER /\ ic.history_index \in Slot
          /\ ic.history_count \in 0 .. MAX_INTERRUPT_HISTORY
      BY DEF TypeOK, INTERRUPT_CONTROLLER
    <2>1. ASSUME NEW type \in {"INT_IRQ", "INT_NMI", "INT_BRK"},
                 NEW pc \in Pcs, NEW p \in Statuses,
                 ic' = Acknowledge(ic, type, pc, p, Bump(global_cycle_count)),
                 type = "INT_IRQ" => "I" \notin p
          PROVE  UsedUnmasked'
      <3>1. /\ type \in INTERRUPT_TYPE /\ pc \in Word /\ p \in SUBSET FLAG
            /\ Bump(global_cycle_count) \in Count
        BY ContextAssumption, BumpInCount DEF INTERRUPT_TYPE, TypeOK
      <3>2. ic'.history_count = IF ic.history_count < MAX_INTERRUPT_HISTORY
                                THEN ic.history_count + 1 ELSE ic.history_count
        BY <2>0, <2>1, <3>1, AcknowledgeRing
      <3>3. \A j \in Slot :
              ic'.history[j] =
                IF j = ic.history_index
                THEN [type |-> type, pc |-> pc, p |-> p,
                      cycle |-> Bump(global_cycle_count)]
                ELSE ic.history[j]
        BY <2>0, <2>1, <3>1, AcknowledgeSlots
      <3> SUFFICES ASSUME NEW j \in Slot, j < ic'.history_count,
                          ic'.history[j].type = "INT_IRQ"
                   PROVE  "I" \notin ic'.history[j].p
        BY DEF UsedUnmasked
      <3>4. CASE j = ic.history_index
        BY <2>1, <3>3, <3>4
      <3>5. CASE j # ic.history_index
        <4>1. j < ic.history_count
          BY <2>0, <3>2, <3>5 DEF RingFillsFromZero, Slot
        <4> QED
          BY <3>3, <3>5, <4>1 DEF UsedUnmasked
      <3> QED
        BY <3>4, <3>5
    <2>2. CASE ic' = interrupt_init \/ ic' = interrupt_clear_history(ic)
      BY <2>0, <2>2, EmptyRing DEF UsedUnmasked, Slot
    <2>3. CASE \/ \E active \in {0, 1} : ic' = interrupt_set_irq(ic, active)
               \/ \E active \in {0, 1} : ic' = interrupt_set_nmi(ic, active)
      BY <2>0, <2>3, LinesRing DEF UsedUnmasked
    <2>4. CASE ic' = ic
      BY <2>4 DEF UsedUnmasked
    <2> QED
      BY <2>1, <2>2, <2>3, <2>4, StepKinds
  <1>3. TypeOK /\ UsedUnmasked => IrqsWereUnmasked
    <2> SUFFICES ASSUME TypeOK, UsedUnmasked PROVE IrqsWereUnmasked
      OBVIOUS
    <2>1. ic \in INTERRUPT_CONTROLLER
      BY DEF TypeOK
    <2>2. DOMAIN interrupt_dump_history(ic) = 1 .. ic.history_count
      BY DEF interrupt_dump_history
    <2> QED
      BY <2>1, <2>2, DumpLines, DumpUsesFilled
         DEF IrqsWereUnmasked, UsedUnmasked
  <1> QED
    BY <1>1, <1>2, <1>3, TypeCorrect, RingCorrect, PTL DEF Spec

----------------------------------------------------------------------------
(* The ring implements the list of recent events *)

\* After an acknowledgement the newest line of the dump is the new event and
\* the lines before it are the old ones, moved up by one if the ring was full.
LEMMA NewestLine ==
  ASSUME NEW c \in INTERRUPT_CONTROLLER, NEW type \in INTERRUPT_TYPE,
         NEW pc \in Word, NEW p \in SUBSET FLAG, NEW cycle \in Count,
         c.history_count < MAX_INTERRUPT_HISTORY
           => c.history_index = c.history_count,
         NEW d, d = Acknowledge(c, type, pc, p, cycle)
  PROVE  /\ d.history_count \in 1 .. MAX_INTERRUPT_HISTORY
         /\ interrupt_dump_history(d)[d.history_count] =
              [type |-> type, pc |-> pc, p |-> p, cycle |-> cycle]
         /\ \A i \in 1 .. d.history_count - 1 :
              interrupt_dump_history(d)[i] =
                interrupt_dump_history(c)[
                  IF c.history_count < MAX_INTERRUPT_HISTORY THEN i ELSE i + 1]
  <1>1. /\ c.history_index \in Slot
        /\ c.history_count \in 0 .. MAX_INTERRUPT_HISTORY
    BY DEF INTERRUPT_CONTROLLER
  <1>2. d \in INTERRUPT_CONTROLLER
    BY AcknowledgeType
  <1>3. /\ d.history_index = (c.history_index + 1) % MAX_INTERRUPT_HISTORY
        /\ d.history_count = IF c.history_count < MAX_INTERRUPT_HISTORY
                             THEN c.history_count + 1 ELSE c.history_count
    BY AcknowledgeRing
  <1>4. d.history_count \in 1 .. MAX_INTERRUPT_HISTORY
    BY <1>1, <1>3, InterruptAssumption
  <1>5. d.history_index = IF c.history_index + 1 < MAX_INTERRUPT_HISTORY
                          THEN c.history_index + 1 ELSE 0
    BY <1>1, <1>3, NextSlot, InterruptAssumption DEF Slot
  <1>6. DumpSlot(d, d.history_count) = c.history_index
    BY <1>1, <1>3, <1>4, <1>5, SmallModulus, InterruptAssumption
       DEF DumpSlot, Slot
  <1>7. interrupt_dump_history(d)[d.history_count] =
          [type |-> type, pc |-> pc, p |-> p, cycle |-> cycle]
    BY <1>1, <1>2, <1>4, <1>6, DumpLines, AcknowledgeSlots
  <1>8. ASSUME NEW i \in 1 .. d.history_count - 1
        PROVE  interrupt_dump_history(d)[i] =
                 interrupt_dump_history(c)[
                   IF c.history_count < MAX_INTERRUPT_HISTORY
                   THEN i ELSE i + 1]
    <2> DEFINE k == IF c.history_count < MAX_INTERRUPT_HISTORY
                    THEN i ELSE i + 1
    <2>1. k \in 1 .. c.history_count /\ i \in 1 .. d.history_count
      BY <1>1, <1>3, <1>4
    <2>2. DumpSlot(d, i) = DumpSlot(c, k) /\ DumpSlot(d, i) # c.history_index
      <3>1. DumpSlot(d, i) =
              IF d.history_count < MAX_INTERRUPT_HISTORY THEN i - 1
              ELSE IF d.history_index + (i - 1) < MAX_INTERRUPT_HISTORY
                   THEN d.history_index + (i - 1)
                   ELSE d.history_index + (i - 1) - MAX_INTERRUPT_HISTORY
        BY <1>2, <2>1, DumpSlotValue
      <3>2. DumpSlot(c, k) =
              IF c.history_count < MAX_INTERRUPT_HISTORY THEN k - 1
              ELSE IF c.history_index + (k - 1) < MAX_INTERRUPT_HISTORY
                   THEN c.history_index + (k - 1)
                   ELSE c.history_index + (k - 1) - MAX_INTERRUPT_HISTORY
        BY <2>1, DumpSlotValue
      <3>3. CASE c.history_count < MAX_INTERRUPT_HISTORY
        BY <1>1, <1>3, <1>4, <1>5, <3>1, <3>2, <3>3, InterruptAssumption
           DEF Slot
      <3>4. CASE c.history_count = MAX_INTERRUPT_HISTORY
        <4>1. k = i + 1 /\ d.history_count = MAX_INTERRUPT_HISTORY
          BY <1>3, <3>4, InterruptAssumption
        <4>2. DumpSlot(c, k) =
                IF c.history_index + i < MAX_INTERRUPT_HISTORY
                THEN c.history_index + i
                ELSE c.history_index + i - MAX_INTERRUPT_HISTORY
          BY <1>1, <3>2, <3>4, <4>1, InterruptAssumption DEF Slot
        <4>3. CASE c.history_index + 1 < MAX_INTERRUPT_HISTORY
          <5>1. d.history_index = c.history_index + 1
            BY <1>5, <4>3
          <5> QED
            BY <1>1, <3>1, <4>1, <4>2, <5>1, InterruptAssumption DEF Slot
        <4>4. CASE c.history_index + 1 >= MAX_INTERRUPT_HISTORY
          <5>1. d.history_index = 0 /\ c.history_index + 1 = MAX_INTERRUPT_HISTORY
            BY <1>1, <1>5, <4>4, InterruptAssumption DEF Slot
          <5> QED
            BY <1>1, <3>1, <4>1, <4>2, <5>1, InterruptAssumption DEF Slot
        <4> QED
          BY <1>1, <4>3, <4>4, InterruptAssumption DEF Slot
      <3> QED
        BY <1>1, <3>3, <3>4, InterruptAssumption
    <2>3. /\ DumpSlot(d, i) \in Slot
          /\ interrupt_dump_history(d)[i] = d.history[DumpSlot(d, i)]
      BY <1>2, <2>1, DumpLines
    <2>4. interrupt_dump_history(c)[k] = c.history[DumpSlot(c, k)]
      BY <2>1, DumpLines
    <2>5. d.history[DumpSlot(d, i)] = c.history[DumpSlot(d, i)]
      <3>1. \A j \in Slot :
              d.history[j] =
                IF j = c.history_index
                THEN [type |-> type, pc |-> pc, p |-> p, cycle |-> cycle]
                ELSE c.history[j]
        BY AcknowledgeSlots
      <3> QED
        BY <2>2, <2>3, <3>1
    <2> QED
      BY <2>2, <2>3, <2>4, <2>5
  <1> QED
    BY <1>4, <1>7, <1>8

\* A latched NMI is never dropped: for every size of the ring, the step that
\* clears the latch makes the NMI the newest line of the dump.
THEOREM NmiCorrect == Spec => NmiNeverDropped
  <1> DEFINE Kept ==
        ic.nmi_pending = 1 /\ ic'.nmi_pending = 0 =>
          \/ ic' = interrupt_init
          \/ LET shown == interrupt_dump_history(ic')
             IN  /\ shown # <<>>
                 /\ shown[Len(shown)].type = "INT_NMI"
                 /\ ic'.total_nmis = Bump(ic.total_nmis)
  <1>1. TypeOK /\ RingFillsFromZero /\ [Next]_interruptVars => Kept
    <2> SUFFICES ASSUME TypeOK, RingFillsFromZero, [Next]_interruptVars,
                        ic.nmi_pending = 1, ic'.nmi_pending = 0,
                        ic' # interrupt_init
                 PROVE  /\ interrupt_dump_history(ic') # <<>>
                        /\ interrupt_dump_history(ic')[
                             Len(interrupt_dump_history(ic'))].type = "INT_NMI"
                        /\ ic'.total_nmis = Bump(ic.total_nmis)
      OBVIOUS
    <2>0. ic \in INTERRUPT_CONTROLLER
      BY DEF TypeOK
    <2>1. PICK type \in {"INT_IRQ", "INT_NMI", "INT_BRK"}, pc \in Pcs,
               p \in Statuses :
            ic' = Acknowledge(ic, type, pc, p, Bump(global_cycle_count))
      BY <2>0, StepKinds, EmptyRing, LinesRing
    <2>2. /\ type \in INTERRUPT_TYPE /\ pc \in Word /\ p \in SUBSET FLAG
          /\ Bump(global_cycle_count) \in Count
      BY ContextAssumption, BumpInCount DEF INTERRUPT_TYPE, TypeOK
    <2>3. type = "INT_NMI" /\ ic'.total_nmis = Bump(ic.total_nmis)
      BY <2>0, <2>1, <2>2, AcknowledgeRing
    <2>4. ic' \in INTERRUPT_CONTROLLER
      BY <2>0, <2>1, <2>2, AcknowledgeType
    <2>5. /\ ic'.history_count \in 1 .. MAX_INTERRUPT_HISTORY
          /\ interrupt_dump_history(ic')[ic'.history_count].type = "INT_NMI"
      <3>1. interrupt_dump_history(ic')[ic'.history_count] =
              [type |-> type, pc |-> pc, p |-> p,
               cycle |-> Bump(global_cycle_count)]
        BY <2>0, <2>1, <2>2, NewestLine DEF RingFillsFromZero
      <3>2. ic'.history_count \in 1 .. MAX_INTERRUPT_HISTORY
        BY <2>0, <2>1, <2>2, NewestLine DEF RingFillsFromZero
      <3> QED
        BY <2>3, <3>1, <3>2
    <2>6. /\ interrupt_dump_history(ic') \in Seq(INTERRUPT_EVENT)
          /\ Len(interrupt_dump_history(ic')) = ic'.history_count
      BY <2>4, DumpLines
    <2> QED
      BY <2>3, <2>5, <2>6
  <1> QED
    BY <1>1, TypeCorrect, RingCorrect, PTL DEF Spec, NmiNeverDropped

\* An empty history is dumped as nothing.
LEMMA EmptyDump ==
  ASSUME NEW c \in INTERRUPT_CONTROLLER, c.history_count = 0
  PROVE  interrupt_dump_history(c) = <<>>
  BY DumpLines

\* The dump depends on the ring only.
LEMMA SameDump ==
  ASSUME NEW c, NEW d, d.history = c.history,
         d.history_index = c.history_index, d.history_count = c.history_count
  PROVE  interrupt_dump_history(d) = interrupt_dump_history(c)
  BY DEF interrupt_dump_history

\* Sequences of equal length and equal elements are equal.
LEMMA EqualSequences ==
  ASSUME NEW S, NEW s \in Seq(S), NEW t \in Seq(S), Len(s) = Len(t),
         \A i \in 1 .. Len(s) : s[i] = t[i]
  PROVE  s = t
  OBVIOUS

\* Acknowledging an event appends it to the dump and, if the ring was full,
\* drops the oldest line.
LEMMA DumpAppends ==
  ASSUME NEW c \in INTERRUPT_CONTROLLER, NEW type \in INTERRUPT_TYPE,
         NEW pc \in Word, NEW p \in SUBSET FLAG, NEW cycle \in Count,
         c.history_count < MAX_INTERRUPT_HISTORY
           => c.history_index = c.history_count,
         NEW d, d = Acknowledge(c, type, pc, p, cycle)
  PROVE  LET e == [type |-> type, pc |-> pc, p |-> p, cycle |-> cycle]
             shown == interrupt_dump_history(c)
         IN  interrupt_dump_history(d) =
               IF Len(shown) < MAX_INTERRUPT_HISTORY THEN Append(shown, e)
                                                     ELSE Append(Tail(shown), e)
  <1> DEFINE e == [type |-> type, pc |-> pc, p |-> p, cycle |-> cycle]
             old == interrupt_dump_history(c)
             new == interrupt_dump_history(d)
  <1>1. e \in INTERRUPT_EVENT
    BY DEF INTERRUPT_EVENT
  <1>2. d \in INTERRUPT_CONTROLLER
    BY AcknowledgeType
  <1>3. /\ old \in Seq(INTERRUPT_EVENT) /\ Len(old) = c.history_count
        /\ new \in Seq(INTERRUPT_EVENT) /\ Len(new) = d.history_count
    BY <1>2, DumpLines
  <1>4. /\ c.history_count \in 0 .. MAX_INTERRUPT_HISTORY
        /\ d.history_count = IF c.history_count < MAX_INTERRUPT_HISTORY
                             THEN c.history_count + 1 ELSE c.history_count
    BY AcknowledgeRing DEF INTERRUPT_CONTROLLER
  <1>5. /\ new[d.history_count] = e
        /\ \A i \in 1 .. d.history_count - 1 :
             new[i] = old[IF c.history_count < MAX_INTERRUPT_HISTORY
                          THEN i ELSE i + 1]
    BY NewestLine
  <1> HIDE DEF e, old, new
  <1>6. CASE c.history_count < MAX_INTERRUPT_HISTORY
    <2>1. Append(old, e) \in Seq(INTERRUPT_EVENT)
      BY <1>1, <1>3
    <2>2. /\ Len(Append(old, e)) = Len(new)
          /\ \A i \in 1 .. Len(new) : new[i] = Append(old, e)[i]
      <3>1. /\ Len(Append(old, e)) = Len(old) + 1
            /\ \A i \in 1 .. Len(old) : Append(old, e)[i] = old[i]
            /\ Append(old, e)[Len(old) + 1] = e
        BY <1>1, <1>3
      <3>2. Len(new) = Len(old) + 1 /\ Len(old) \in Nat
        BY <1>3, <1>4, <1>6
      <3>3. /\ new[Len(old) + 1] = e
            /\ \A i \in 1 .. Len(old) : new[i] = old[i]
        BY <1>3, <1>4, <1>5, <1>6
      <3> QED
        BY <3>1, <3>2, <3>3
    <2>3. new = Append(old, e)
      BY <1>3, <2>1, <2>2, EqualSequences
    <2> QED
      BY <1>3, <1>6, <2>3 DEF e, old, new
  <1>7. CASE c.history_count = MAX_INTERRUPT_HISTORY
    <2>0. Len(old) > 0 /\ Len(new) = Len(old)
      BY <1>3, <1>4, <1>7, InterruptAssumption
    <2>1. /\ Tail(old) \in Seq(INTERRUPT_EVENT)
          /\ Len(Tail(old)) = Len(old) - 1
          /\ \A i \in 1 .. Len(old) - 1 : Tail(old)[i] = old[i + 1]
      BY <1>3, <2>0
    <2>2. /\ Append(Tail(old), e) \in Seq(INTERRUPT_EVENT)
          /\ Len(Append(Tail(old), e)) = Len(new)
          /\ \A i \in 1 .. Len(new) : new[i] = Append(Tail(old), e)[i]
      BY <1>1, <1>3, <1>4, <1>5, <1>7, <2>0, <2>1, InterruptAssumption
    <2>3. new = Append(Tail(old), e)
      BY <1>3, <2>2, EqualSequences
    <2> QED
      BY <1>3, <1>7, <2>3, InterruptAssumption DEF e, old, new
  <1> QED
    BY <1>4, <1>6, <1>7, InterruptAssumption

\* The ring of record_interrupt and interrupt_dump_history implements the
\* list of the most recent events, whatever its size.
THEOREM DumpCorrect == Spec => DumpShowsRecentEvents
  <1>1. Init => Recent!Init
    <2> SUFFICES ASSUME Init PROVE interrupt_dump_history(ic) = <<>>
      BY DEF Recent!Init
    <2>1. ic \in INTERRUPT_CONTROLLER /\ ic.history_count = 0
      BY InitialController DEF Init, interrupt_init
    <2> QED
      BY <2>1, EmptyDump
  <1>2. TypeOK /\ TypeOK' /\ RingFillsFromZero /\ [Next]_interruptVars
          => [Recent!Next]_(interrupt_dump_history(ic))
    <2> SUFFICES ASSUME TypeOK, TypeOK', RingFillsFromZero,
                        [Next]_interruptVars
                 PROVE  \/ Recent!Next
                        \/ interrupt_dump_history(ic')
                             = interrupt_dump_history(ic)
      OBVIOUS
    <2>0. ic \in INTERRUPT_CONTROLLER /\ ic' \in INTERRUPT_CONTROLLER
      BY DEF TypeOK
    <2>1. ASSUME NEW type \in {"INT_IRQ", "INT_NMI", "INT_BRK"},
                 NEW pc \in Pcs, NEW p \in Statuses,
                 ic' = Acknowledge(ic, type, pc, p, Bump(global_cycle_count))
          PROVE  Recent!Next
      <3> DEFINE e == [type |-> type, pc |-> pc, p |-> p,
                       cycle |-> Bump(global_cycle_count)]
      <3>1. /\ type \in INTERRUPT_TYPE /\ pc \in Word /\ p \in SUBSET FLAG
            /\ Bump(global_cycle_count) \in Count
        BY ContextAssumption, BumpInCount DEF INTERRUPT_TYPE, TypeOK
      <3>2. e \in Recordable
        BY <3>1 DEF Recordable
      <3>3. interrupt_dump_history(ic') =
              IF Len(interrupt_dump_history(ic)) < MAX_INTERRUPT_HISTORY
              THEN Append(interrupt_dump_history(ic), e)
              ELSE Append(Tail(interrupt_dump_history(ic)), e)
        BY <2>0, <2>1, <3>1, DumpAppends DEF RingFillsFromZero
      <3> HIDE DEF e
      <3>4. Recent!Record(e)
        BY <3>3 DEF Recent!Record
      <3> QED
        BY <3>2, <3>4 DEF Recent!Next
    <2>2. CASE ic' = interrupt_init \/ ic' = interrupt_clear_history(ic)
      <3>1. interrupt_dump_history(ic') = <<>>
        BY <2>0, <2>2, EmptyRing, EmptyDump
      <3> QED
        BY <3>1 DEF Recent!Next, Recent!Clear
    <2>3. CASE \/ \E active \in {0, 1} : ic' = interrupt_set_irq(ic, active)
               \/ \E active \in {0, 1} : ic' = interrupt_set_nmi(ic, active)
      BY <2>0, <2>3, LinesRing, SameDump
    <2>4. CASE ic' = ic
      BY <2>4
    <2> QED
      BY <2>1, <2>2, <2>3, <2>4, StepKinds
  <1> QED
    BY <1>1, <1>2, TypeCorrect, RingCorrect, PTL
       DEF Spec, DumpShowsRecentEvents, Recent!Spec
=============================================================================
