--------------------------- MODULE Monitor_proofs ---------------------------
(***************************************************************************)
(* Theorems about Monitor, for frames of every length and every sequence   *)
(* of keys and signals.                                                    *)
(***************************************************************************)
EXTENDS Monitor, FiniteSetTheorems, WellFoundedInduction, TLAPS

Phase == {"measure", "measured", "open", "install", "loop", "execute",
          "done", "killed"}

\* Before a frame: nothing is pending, and the CPU runs if the keys said so.
Rested ==
  /\ stepping = 0 /\ i = 0 /\ frame.executed = 0 /\ frame.key = "ERR"
  /\ running = 1 <=> frame.run

\* Within a frame: a step is about to be made, or the CPU runs and every turn
\* of the loop has executed an instruction, or nothing is left to do.
InFrame ==
  \/ /\ stepping = 1 /\ running = 0
     /\ frame.key = "s" /\ ~ frame.run /\ frame.executed = 0 /\ i = 0
  \/ /\ stepping = 0 /\ running = 1
     /\ frame.key # "s" /\ frame.run
     /\ frame.executed = i /\ i <= INSTRUCTIONS_PER_FRAME
  \/ /\ stepping = 0 /\ running = 0
     /\ ~ frame.run
     /\ frame.executed = IF frame.key = "s" THEN 1 ELSE 0

\* The inductive invariant.
FrameInv ==
  /\ phase \in Phase
  /\ running \in {0, 1} /\ stepping \in {0, 1}
  /\ i \in Nat
  /\ frame \in [key : Keys, executed : Nat, run : BOOLEAN]
  /\ phase \in {"loop", "execute"} => installed
  /\ phase # "execute" => Rested
  /\ phase = "execute" => InFrame

\* monitor_state_init leaves the CPU paused.
LEMMA FrameInit == MonitorInit => FrameInv
  BY DEF MonitorInit, FrameInv, Rested, Phase, Keys

\* Steps outside the frame loop touch neither flags nor counters.
LEMMA OutsideFrames ==
  ASSUME FrameInv, phase # "execute", phase' # "execute", phase' \in Phase,
         phase' = "loop" => installed',
         UNCHANGED <<running, stepping, i, frame>>
  PROVE  FrameInv'
  BY DEF FrameInv, Rested, Phase

\* A key press starts a frame: S asks for one instruction, C, or the run that
\* goes on, for all of them, and everything else for none.
LEMMA FrameStep ==
  ASSUME FrameInv, NEW key \in Keys, Frame(key)
  PROVE  FrameInv'
  <1>1. /\ phase = "loop" /\ phase' = "execute" /\ i' = i
        /\ installed' = installed
        /\ running' = (CASE key = "c" -> 1 [] key \in {"s", "b"} -> 0
                         [] OTHER -> running)
        /\ stepping' = (CASE key = "s" -> 1 [] key = "c" -> 0
                          [] OTHER -> stepping)
    BY DEF Frame, HandleKey, terminalVars
  <1>2. frame' = [key |-> key, executed |-> 0,
                  run |-> (frame.run \/ key = "c") /\ key \notin {"s", "b"}]
    BY DEF Frame
  <1>3. Rested /\ running \in {0, 1} /\ frame.run \in BOOLEAN
    BY <1>1 DEF FrameInv
  <1>4. frame'.key = key /\ frame'.executed = 0
    BY <1>2
  <1>5. frame' \in [key : Keys, executed : Nat, run : BOOLEAN]
    BY <1>2, <1>3
  <1>6. frame'.run <=> (frame.run \/ key = "c") /\ key \notin {"s", "b"}
    BY <1>2
  <1>7. running' \in {0, 1} /\ stepping' \in {0, 1}
    BY <1>1, <1>3 DEF Rested
  <1>8. InFrame'
    <2>1. CASE key = "s"
      BY <1>1, <1>3, <1>4, <1>6, <2>1 DEF InFrame, Rested
    <2>2. CASE key = "c"
      BY <1>1, <1>3, <1>4, <1>6, <2>2, MonitorAssumption DEF InFrame, Rested
    <2>3. CASE key = "b"
      BY <1>1, <1>3, <1>4, <1>6, <2>3 DEF InFrame, Rested
    <2>4. CASE key \notin {"s", "c", "b"}
      BY <1>1, <1>3, <1>4, <1>6, <2>4, MonitorAssumption DEF InFrame, Rested
    <2> QED
      BY <2>1, <2>2, <2>3, <2>4
  <1> QED
    BY <1>1, <1>3, <1>5, <1>7, <1>8 DEF FrameInv, Rested, Phase

\* One turn of the instruction loop: a step pauses, a run counts.
LEMMA ExecuteStep ==
  ASSUME FrameInv, Execute
  PROVE  FrameInv'
  <1>1. /\ phase = "execute" /\ phase' = phase /\ installed' = installed
        /\ i' = i + 1 /\ stepping' = 0
        /\ running' = IF stepping = 1 THEN 0 ELSE running
        /\ i < INSTRUCTIONS_PER_FRAME /\ (running = 1 \/ stepping = 1)
        /\ frame' = [frame EXCEPT !.executed =
                       IF @ > INSTRUCTIONS_PER_FRAME THEN @ ELSE @ + 1]
    BY DEF Execute, StepCpu, MoreToExecute, terminalVars
  <1>2. /\ InFrame /\ i \in Nat /\ INSTRUCTIONS_PER_FRAME \in Nat
        /\ frame \in [key : Keys, executed : Nat, run : BOOLEAN]
    BY <1>1, MonitorAssumption DEF FrameInv
  <1>3. /\ frame'.key = frame.key /\ frame'.run = frame.run
        /\ frame' \in [key : Keys, executed : Nat, run : BOOLEAN]
    BY <1>1, <1>2
  <1>4. frame.executed <= i
    BY <1>1, <1>2 DEF InFrame
  <1>5. frame'.executed = frame.executed + 1
    BY <1>1, <1>2, <1>4
  <1>6. InFrame'
    <2>1. CASE stepping = 1
      BY <1>1, <1>2, <1>3, <1>5, <2>1 DEF InFrame
    <2>2. CASE stepping # 1
      BY <1>1, <1>2, <1>3, <1>5, <2>2 DEF InFrame
    <2> QED
      BY <2>1, <2>2
  <1>7. running' \in {0, 1} /\ stepping' \in {0, 1} /\ i' \in Nat
    BY <1>1, <1>2 DEF FrameInv
  <1> QED
    BY <1>1, <1>3, <1>6, <1>7 DEF FrameInv, Phase

\* The end of a frame forgets the key and keeps the mode.
LEMMA UpdateStep ==
  ASSUME FrameInv, NEW elapsed_ms, Update(elapsed_ms)
  PROVE  FrameInv'
  <1>1. /\ phase = "execute" /\ phase' = "loop" /\ i' = 0
        /\ installed' = installed /\ ~ MoreToExecute
        /\ running' = running /\ stepping' = stepping
        /\ frame' = [frame EXCEPT !.key = "ERR", !.executed = 0]
    BY DEF Update, terminalVars
  <1>2. InFrame /\ frame \in [key : Keys, executed : Nat, run : BOOLEAN]
    BY <1>1 DEF FrameInv
  <1>3. /\ frame'.key = "ERR" /\ frame'.executed = 0
        /\ frame'.run = frame.run
        /\ frame' \in [key : Keys, executed : Nat, run : BOOLEAN]
    BY <1>1, <1>2 DEF Keys
  <1>4. stepping = 0
    BY <1>1, <1>2, MonitorAssumption DEF InFrame, MoreToExecute
  <1>5. running = 1 <=> frame.run
    BY <1>2, <1>4 DEF InFrame
  <1> QED
    BY <1>1, <1>3, <1>4, <1>5 DEF FrameInv, Rested, Phase

\* Every step of the monitor and every signal keeps the invariant.
LEMMA FrameNext == FrameInv /\ [MonitorNext]_monitorVars => FrameInv'
  <1> SUFFICES ASSUME FrameInv, [MonitorNext]_monitorVars PROVE FrameInv'
    OBVIOUS
  <1>1. CASE Measure \/ Measured \/ Open \/ Install \/ Quit
    <2>1. /\ phase \in {"measure", "measured", "open", "install", "loop"}
          /\ phase' \in {"measured", "open", "install", "loop", "done"}
          /\ phase' = "loop" => installed'
          /\ UNCHANGED <<running, stepping, i, frame>>
      BY <1>1 DEF Measure, Measured, Open, Install, Quit, tui_init, Idle,
                  controlVars
    <2> QED
      BY <2>1, OutsideFrames DEF Phase
  <1>2. ASSUME NEW key \in Keys, Frame(key) PROVE FrameInv'
    BY <1>2, FrameStep
  <1>3. CASE Execute
    BY <1>3, ExecuteStep
  <1>4. ASSUME NEW elapsed_ms \in Elapsed, Update(elapsed_ms) PROVE FrameInv'
    BY <1>4, UpdateStep
  <1>5. CASE Signal
    <2>1. UNCHANGED <<running, stepping, i, frame, installed>>
      BY <1>5 DEF Signal, controlVars, terminalVars
    <2>2. CASE phase' = phase
      BY <2>1, <2>2 DEF FrameInv, Rested, InFrame
    <2>3. CASE phase' = "killed" /\ ~ installed
      <3>1. phase # "execute"
        BY <2>3 DEF FrameInv
      <3> QED
        BY <2>1, <2>3, <3>1, OutsideFrames DEF Phase
    <2> QED
      BY <1>5, <2>2, <2>3 DEF Signal
  <1>6. CASE UNCHANGED monitorVars
    BY <1>6 DEF monitorVars, controlVars, terminalVars, FrameInv, Rested, InFrame
  <1> QED
    BY <1>1, <1>2, <1>3, <1>4, <1>5, <1>6 DEF MonitorNext, Process

\* Every frame executes what the keys so far ask for: nothing while paused, one
\* instruction for S, INSTRUCTIONS_PER_FRAME of them while running, whatever
\* the order of keys, frames and signals is.
THEOREM FramesCorrect == MonitorSpec => []FramesObeyKeys
  <1>1. MonitorInit => FrameInv
    BY FrameInit
  <1>2. FrameInv /\ [MonitorNext]_monitorVars => FrameInv'
    BY FrameNext
  <1>3. FrameInv => FramesObeyKeys
    BY MonitorAssumption DEF FrameInv, InFrame, FramesObeyKeys, MoreToExecute
  <1> QED
    BY <1>1, <1>2, <1>3, PTL DEF MonitorSpec

----------------------------------------------------------------------------
(* The instruction log *)

N == INSTRUCTION_LOG_SIZE
D == INSTRUCTION_LOG_DISPLAY

\* What the log keeps, for every size: an index into the array, and a number
\* of entries that never exceeds it.
LogType ==
  [entry : [0 .. N - 1 -> PCs \cup {0}], idx : 0 .. N - 1, count : 0 .. N]

LogInv == log \in LogType /\ PC \in PCs

\* The number of lines of the panel, and the slot that line k from the top
\* shows.
Lines(l) == IF l.count < D THEN l.count ELSE D

SlotOf(l, k) == IF k <= l.idx THEN l.idx - k ELSE l.idx - k + N

\* The panel read from the bottom, as a function of the log.
Shown(l) == [j \in 1 .. Lines(l) |-> l.entry[SlotOf(l, Lines(l) - j + 1)]]

\* Remainders below and just above the modulus.
LEMMA LogModulus ==
  ASSUME NEW x \in 0 .. 2 * N - 1
  PROVE  x % N = IF x < N THEN x ELSE x - N
  BY MonitorAssumption DEF N

\* There are at most as many lines as entries, and each shows a slot.
LEMMA LinesFit ==
  ASSUME NEW l \in LogType
  PROVE  /\ Lines(l) \in 0 .. N /\ Lines(l) <= D
         /\ \A k \in 1 .. N : SlotOf(l, k) \in 0 .. N - 1
  <1> USE MonitorAssumption DEF N, D
  <1>1. l.idx \in 0 .. N - 1 /\ l.count \in 0 .. N
    BY DEF LogType
  <1> QED
    BY <1>1 DEF Lines, SlotOf

\* The index computed by the panel is that slot.
LEMMA SlotIndex ==
  ASSUME NEW l \in LogType, NEW k \in 1 .. N
  PROVE  (l.idx - 1 - (k - 1) + N) % N = SlotOf(l, k)
  <1>1. N \in Nat \ {0} /\ l.idx \in 0 .. N - 1
    BY MonitorAssumption DEF N, LogType
  <1>2. l.idx - 1 - (k - 1) + N = l.idx - k + N
    BY <1>1
  <1>3. l.idx - k + N \in 0 .. 2 * N - 1
    BY <1>1
  <1>4. (l.idx - k + N) % N = IF l.idx - k + N < N THEN l.idx - k + N
                                                   ELSE l.idx - k
    BY <1>1, <1>3, LogModulus
  <1> QED
    BY <1>1, <1>2, <1>4 DEF SlotOf

\* Reading the panel from the bottom gives Shown.
LEMMA ShownIsDisplay ==
  ASSUME log \in LogType
  PROVE  Reverse(Displayed) = Shown(log)
  <1> DEFINE n == Lines(log)
  <1>1. n \in 0 .. N /\ N \in Nat
    BY LinesFit, MonitorAssumption DEF N
  <1>2. Displayed = [k \in 1 .. n |-> log.entry[SlotOf(log, k)]]
    <2>1. \A k \in 1 .. n :
            log.entry[(log.idx - 1 - (k - 1) + N) % N] = log.entry[SlotOf(log, k)]
      BY <1>1, SlotIndex
    <2>2. Displayed =
            [k \in 1 .. n |-> log.entry[(log.idx - 1 - (k - 1) + N) % N]]
      BY DEF Displayed, Lines, N, D
    <2> QED
      BY <2>1, <2>2
  <1> HIDE DEF n
  <1>3. Len(Displayed) = n
    BY <1>1, <1>2
  <1>4. \A j \in 1 .. n : n - j + 1 \in 1 .. n
    BY <1>1
  <1>5. \A j \in 1 .. n :
          Displayed[n - j + 1] = log.entry[SlotOf(log, n - j + 1)]
    BY <1>2, <1>4
  <1>6. Reverse(Displayed) = [j \in 1 .. n |-> Displayed[n - j + 1]]
    BY <1>3 DEF Reverse
  <1> QED
    BY <1>5, <1>6 DEF Shown, n

\* An entry goes to the slot the index names; the other slots that are shown
\* keep their entries and move up by one line.
LEMMA LogStep ==
  ASSUME LogInv, NEW l, l = monitor_log_instruction(PC)
  PROVE  /\ l \in LogType
         /\ l.count = IF log.count < N THEN log.count + 1 ELSE log.count
         /\ l.entry[SlotOf(l, 1)] = PC
         /\ \A k \in 1 .. N - 1 :
              l.entry[SlotOf(l, k + 1)] = log.entry[SlotOf(log, k)]
  <1>0. N \in Nat \ {0}
    BY MonitorAssumption DEF N
  <1>1. /\ log.idx \in 0 .. N - 1 /\ log.count \in 0 .. N
        /\ log.entry \in [0 .. N - 1 -> PCs \cup {0}] /\ PC \in PCs
    BY DEF LogInv, LogType
  <1>2. /\ l.entry = [log.entry EXCEPT ![log.idx] = PC]
        /\ l.idx = (log.idx + 1) % N
        /\ l.count = IF log.count < N THEN log.count + 1 ELSE log.count
        /\ l = [entry |-> l.entry, idx |-> l.idx, count |-> l.count]
    BY DEF monitor_log_instruction, N
  <1>3. l.idx = IF log.idx + 1 < N THEN log.idx + 1 ELSE 0
    <2> DEFINE x == log.idx + 1
    <2>1. x \in 0 .. 2 * N - 1
      BY <1>0, <1>1
    <2> HIDE DEF x
    <2>2. x % N = IF x < N THEN x ELSE x - N
      BY <2>1, LogModulus
    <2> QED
      BY <1>0, <1>1, <1>2, <2>2 DEF x
  <1>4. /\ l.idx \in 0 .. N - 1 /\ l.count \in 0 .. N
        /\ l.entry \in [0 .. N - 1 -> PCs \cup {0}]
    <2>1. l.idx \in 0 .. N - 1 /\ l.count \in 0 .. N
      BY <1>0, <1>1, <1>2, <1>3
    <2>2. l.entry \in [0 .. N - 1 -> PCs \cup {0}]
      BY <1>1, <1>2
    <2> QED
      BY <2>1, <2>2
  <1>5. l \in LogType
    BY <1>2, <1>4 DEF LogType
  <1>6. l.entry[SlotOf(l, 1)] = PC
    <2>1. SlotOf(l, 1) = log.idx
      BY <1>0, <1>1, <1>3 DEF SlotOf
    <2> QED
      BY <1>1, <1>2, <2>1
  <1>7. ASSUME NEW k \in 1 .. N - 1
        PROVE  l.entry[SlotOf(l, k + 1)] = log.entry[SlotOf(log, k)]
    <2>1. /\ SlotOf(l, k + 1) = SlotOf(log, k)
          /\ SlotOf(log, k) # log.idx /\ SlotOf(log, k) \in 0 .. N - 1
      BY <1>0, <1>1, <1>3 DEF SlotOf
    <2> QED
      BY <1>1, <1>2, <2>1
  <1> QED
    BY <1>2, <1>5, <1>6, <1>7

\* Sequences of equal length and equal elements are equal.
LEMMA EqualSequences ==
  ASSUME NEW S, NEW s \in Seq(S), NEW t \in Seq(S), Len(s) = Len(t),
         \A j \in 1 .. Len(s) : s[j] = t[j]
  PROVE  s = t
  OBVIOUS

\* The panel is a sequence of entries.
LEMMA ShownType ==
  ASSUME NEW l \in LogType
  PROVE  Shown(l) \in Seq(PCs \cup {0}) /\ Len(Shown(l)) = Lines(l)
  <1>1. Lines(l) \in 0 .. N /\ N \in Nat
    BY LinesFit, MonitorAssumption DEF N
  <1>2. l.entry \in [0 .. N - 1 -> PCs \cup {0}]
    BY DEF LogType
  <1>3. \A j \in 1 .. Lines(l) : Lines(l) - j + 1 \in 1 .. N
    BY <1>1
  <1>4. \A j \in 1 .. Lines(l) :
          l.entry[SlotOf(l, Lines(l) - j + 1)] \in PCs \cup {0}
    BY <1>2, <1>3, LinesFit
  <1> QED
    BY <1>1, <1>4 DEF Shown

\* So the panel gets a new newest line and, when it is full, loses the oldest.
LEMMA ShownAppends ==
  ASSUME LogInv, NEW l, l = monitor_log_instruction(PC),
         NEW C, C = IF D < N THEN D ELSE N
  PROVE  Shown(l) = IF Len(Shown(log)) < C THEN Append(Shown(log), PC)
                                           ELSE Append(Tail(Shown(log)), PC)
  <1> DEFINE old == Shown(log)
             new == Shown(l)
             m == Lines(log)
             n == Lines(l)
             E == PCs \cup {0}
  <1>0. N \in Nat \ {0} /\ D \in Nat \ {0}
    BY MonitorAssumption DEF N, D
  <1>1. log \in LogType /\ l \in LogType /\ PC \in E
    BY LogStep DEF LogInv
  <1>2. /\ old \in Seq(E) /\ Len(old) = m /\ m \in 0 .. N
        /\ new \in Seq(E) /\ Len(new) = n /\ n \in 0 .. N
    BY <1>1, ShownType, LinesFit
  <1>3. /\ m < C => n = m + 1
        /\ m >= C => m = C /\ n = m
    <2>1. /\ log.count \in 0 .. N
          /\ l.count = IF log.count < N THEN log.count + 1 ELSE log.count
      BY <1>1, LogStep DEF LogType
    <2> QED
      BY <1>0, <2>1 DEF Lines
  <1>4. n \in 1 .. N /\ m \in Nat /\ (n = m \/ n = m + 1)
    <2> HIDE DEF m, n
    <2>1. C \in Nat \ {0}
      BY <1>0
    <2> QED
      BY <1>0, <1>2, <1>3, <2>1
  <1>5. new[n] = PC
    <2>1. new[n] = l.entry[SlotOf(l, n - n + 1)] /\ n - n + 1 = 1
      BY <1>4 DEF Shown
    <2> QED
      BY <2>1, LogStep
  <1>6. ASSUME NEW j \in 1 .. n - 1
        PROVE  new[j] = old[m - n + 1 + j] /\ m - n + 1 + j \in 1 .. m
    <2>1. /\ j \in 1 .. n /\ n - j \in 1 .. N - 1 /\ n - j + 1 = (n - j) + 1
          /\ m - n + 1 + j \in 1 .. m
          /\ m - (m - n + 1 + j) + 1 = n - j
      <3> HIDE DEF m, n
      <3> QED
        BY <1>0, <1>4
    <2>2. new[j] = l.entry[SlotOf(l, (n - j) + 1)]
      BY <2>1 DEF Shown
    <2>3. @ = log.entry[SlotOf(log, n - j)]
      BY <2>1, LogStep
    <2>4. old[m - n + 1 + j] = log.entry[SlotOf(log, n - j)]
      BY <2>1 DEF Shown
    <2> QED
      BY <2>1, <2>2, <2>3, <2>4
  <1> HIDE DEF old, new, m, n, E
  <1>7. CASE m < C
    <2>1. /\ Append(old, PC) \in Seq(E) /\ Len(Append(old, PC)) = m + 1
          /\ \A j \in 1 .. m : Append(old, PC)[j] = old[j]
          /\ Append(old, PC)[m + 1] = PC
      BY <1>1, <1>2
    <2>2. n = m + 1 /\ m \in Nat
      BY <1>2, <1>3, <1>7
    <2>3. \A j \in 1 .. m : new[j] = old[j]
      <3> SUFFICES ASSUME NEW j \in 1 .. m PROVE new[j] = old[j]
        OBVIOUS
      <3>1. j \in 1 .. n - 1 /\ m - n + 1 + j = j
        BY <2>2
      <3> QED
        BY <1>6, <3>1
    <2>4. \A j \in 1 .. Len(new) : new[j] = Append(old, PC)[j]
      <3> SUFFICES ASSUME NEW j \in 1 .. m + 1
                   PROVE  new[j] = Append(old, PC)[j]
        BY <1>2, <2>2
      <3>1. CASE j \in 1 .. m
        BY <2>1, <2>3, <3>1
      <3>2. CASE j = m + 1
        BY <1>5, <2>1, <2>2, <3>2
      <3>3. j \in 1 .. m \/ j = m + 1
        BY <2>2
      <3> QED
        BY <3>1, <3>2, <3>3
    <2>5. new = Append(old, PC)
      BY <1>2, <2>1, <2>2, <2>4, EqualSequences
    <2> QED
      BY <1>2, <1>7, <2>5 DEF old, new
  <1>8. CASE ~ m < C
    <2>0. n = m /\ m \in Nat /\ m > 0
      BY <1>0, <1>2, <1>3, <1>4, <1>8
    <2>1. /\ Tail(old) \in Seq(E) /\ Len(Tail(old)) = m - 1
          /\ \A j \in 1 .. m - 1 : Tail(old)[j] = old[j + 1]
      BY <1>2, <2>0
    <2>2. /\ Append(Tail(old), PC) \in Seq(E)
          /\ Len(Append(Tail(old), PC)) = m
          /\ \A j \in 1 .. m - 1 : Append(Tail(old), PC)[j] = Tail(old)[j]
          /\ Append(Tail(old), PC)[m] = PC
      BY <1>1, <2>0, <2>1
    <2>3. \A j \in 1 .. m - 1 : new[j] = old[j + 1]
      <3> SUFFICES ASSUME NEW j \in 1 .. m - 1 PROVE new[j] = old[j + 1]
        OBVIOUS
      <3>1. j \in 1 .. n - 1 /\ m - n + 1 + j = j + 1
        BY <2>0
      <3> QED
        BY <1>6, <3>1
    <2>4. \A j \in 1 .. Len(new) : new[j] = Append(Tail(old), PC)[j]
      <3> SUFFICES ASSUME NEW j \in 1 .. m
                   PROVE  new[j] = Append(Tail(old), PC)[j]
        BY <1>2, <2>0
      <3>1. CASE j \in 1 .. m - 1
        BY <2>1, <2>2, <2>3, <3>1
      <3>2. CASE j = m
        BY <1>5, <2>0, <2>2, <3>2
      <3>3. j \in 1 .. m - 1 \/ j = m
        BY <2>0
      <3> QED
        BY <3>1, <3>2, <3>3
    <2>5. new = Append(Tail(old), PC)
      BY <1>2, <2>0, <2>2, <2>4, EqualSequences
    <2> QED
      BY <1>2, <1>8, <2>5 DEF old, new
  <1> QED
    BY <1>7, <1>8

\* Only a turn of the frame loop logs, and it logs the PC it executes.
LEMMA LogChanges ==
  ASSUME LogInv, [MonitorNext]_monitorVars
  PROVE  /\ PC' \in PCs
         /\ log' = log \/ log' = monitor_log_instruction(PC)
  <1>1. CASE Measure \/ Measured \/ Open \/ Install \/ Quit
    BY <1>1 DEF LogInv, Measure, Measured, Open, Install, Quit, Idle
  <1>2. ASSUME NEW key \in Keys, Frame(key)
        PROVE  PC' \in PCs /\ log' = log
    BY <1>2 DEF LogInv, Frame
  <1>3. CASE Execute
    BY <1>3 DEF Execute, StepCpu
  <1>4. ASSUME NEW elapsed_ms \in Elapsed, Update(elapsed_ms)
        PROVE  PC' \in PCs /\ log' = log
    BY <1>4 DEF LogInv, Update
  <1>5. CASE Signal
    BY <1>5 DEF LogInv, Signal
  <1>6. CASE UNCHANGED monitorVars
    BY <1>6 DEF LogInv, monitorVars
  <1> QED
    BY <1>1, <1>2, <1>3, <1>4, <1>5, <1>6 DEF MonitorNext, Process

\* The instruction log implements the list of the most recent entries: what
\* the panel shows is the last lines of what was logged, in order, for every
\* size of the log and of the panel, before and after the ring has wrapped.
THEOREM LogCorrect == MonitorSpec => LogShowsRecent
  <1> DEFINE C == IF D < N THEN D ELSE N
  <1>1. MonitorInit => LogInv /\ Recent!Init
    <2> SUFFICES ASSUME MonitorInit PROVE LogInv /\ Recent!Init
      OBVIOUS
    <2>0. N \in Nat \ {0} /\ D \in Nat \ {0}
      BY MonitorAssumption DEF N, D
    <2>1. LogInv /\ log.count = 0
      BY <2>0 DEF MonitorInit, LogInv, LogType, N
    <2>2. Lines(log) = 0
      BY <2>0, <2>1 DEF Lines
    <2>3. Shown(log) = << >>
      BY <2>1, <2>2, ShownType DEF LogInv
    <2> QED
      BY <2>1, <2>3, ShownIsDisplay DEF LogInv, Recent!Init
  <1>2. LogInv => Reverse(Displayed) = Shown(log)
    BY ShownIsDisplay DEF LogInv
  <1>3. (LogInv => Reverse(Displayed) = Shown(log))'
    BY <1>2, PTL
  <1>4. LogInv /\ [MonitorNext]_monitorVars
          => LogInv' /\ [Recent!Next]_(Reverse(Displayed))
    <2> SUFFICES ASSUME LogInv, [MonitorNext]_monitorVars
                 PROVE  LogInv' /\ [Recent!Next]_(Reverse(Displayed))
      OBVIOUS
    <2>1. LogInv'
      BY LogChanges, LogStep DEF LogInv
    <2>2. /\ Reverse(Displayed) = Shown(log)
          /\ Reverse(Displayed)' = Shown(log')
      BY <1>2, <1>3, <2>1
    <2>3. CASE log' = log
      BY <2>1, <2>2, <2>3
    <2>4. CASE log' = monitor_log_instruction(PC)
      <3>1. Shown(log') = IF Len(Shown(log)) < C
                          THEN Append(Shown(log), PC)
                          ELSE Append(Tail(Shown(log)), PC)
        BY <2>4, ShownAppends
      <3>2. Recent!Record(PC)
        BY <2>2, <3>1 DEF Recent!Record, N, D
      <3> QED
        BY <2>1, <3>2 DEF Recent!Next, LogInv
    <2> QED
      BY <2>1, <2>3, <2>4, LogChanges
  <1> QED
    BY <1>1, <1>4, PTL DEF MonitorSpec, LogShowsRecent, Recent!Spec

----------------------------------------------------------------------------
(* The speed display *)

\* A set of numbers that is not empty has a least one.
LEMMA Least ==
  ASSUME NEW T \in SUBSET Nat, T # {}
  PROVE  \E x \in T : \A y \in T : x <= y
  <1> DEFINE R == OpToRel(<, Nat)
  <1>1. IsWellFoundedOn(R, Nat)
    BY NatLessThanWellFounded, Zenon
  <1>2. R = {ss \in Nat \X Nat : ss[1] < ss[2]}
    BY DEF OpToRel
  <1> HIDE DEF R
  <1>3. PICK x \in T : \A y \in T : ~ <<y, x>> \in R
    BY <1>1, WFMin
  <1>4. ASSUME NEW y \in T PROVE x <= y
    <2>1. x \in Nat /\ y \in Nat
      OBVIOUS
    <2>2. ~ y < x
      BY <1>2, <1>3, <2>1
    <2> QED
      BY <2>1, <2>2
  <1> QED
    BY <1>4

\* A bounded one has a greatest one.
LEMMA Greatest ==
  ASSUME NEW T \in SUBSET Nat, T # {}, NEW b \in Nat, \A x \in T : x <= b
  PROVE  \E x \in T : \A y \in T : y <= x
  <1> DEFINE U == {b - x : x \in T}
  <1>1. U \in SUBSET Nat /\ U # {}
    <2>1. \A x \in T : b - x \in Nat
      OBVIOUS
    <2> QED
      BY <2>1
  <1>2. PICK u \in U : \A w \in U : u <= w
    <2> HIDE DEF U
    <2> QED
      BY <1>1, Least
  <1>3. PICK x \in T : u = b - x
    OBVIOUS
  <1>4. ASSUME NEW y \in T PROVE y <= x
    <2>1. b - y \in U
      OBVIOUS
    <2>2. b - x <= b - y
      BY <1>2, <1>3, <2>1
    <2>3. x \in Nat /\ y \in Nat
      OBVIOUS
    <2> HIDE DEF U
    <2> QED
      BY <2>2, <2>3
  <1> QED
    BY <1>4

\* A quotient lies between the bounds of its numerator.
LEMMA QuotientBetween ==
  ASSUME NEW s \in Nat, NEW c \in Nat \ {0}, NEW lo \in Nat, NEW hi \in Nat,
         c * lo <= s, s <= c * hi
  PROVE  s \div c \in Nat /\ lo <= s \div c /\ s \div c <= hi
  <1> DEFINE q == s \div c
             r == s % c
  <1>1. q \in Nat /\ r \in 0 .. c - 1 /\ s = c * q + r
    OBVIOUS
  <1> HIDE DEF q, r
  <1>2. lo <= q
    <2> SUFFICES ASSUME q + 1 <= lo PROVE FALSE
      BY <1>1
    <2>1. PICK d \in Nat : lo = q + 1 + d
      <3>1. lo - (q + 1) \in Nat /\ lo = q + 1 + (lo - (q + 1))
        BY <1>1
      <3> QED
        BY <3>1
    <2>2. c * lo = c * q + c + c * d /\ c * d >= 0 /\ c * q >= 0
      BY <1>1, <2>1
    <2> QED
      BY <1>1, <2>2
  <1>3. q <= hi
    <2> SUFFICES ASSUME hi + 1 <= q PROVE FALSE
      BY <1>1
    <2>1. PICK d \in Nat : q = hi + 1 + d
      <3>1. q - (hi + 1) \in Nat /\ q = hi + 1 + (q - (hi + 1))
        BY <1>1
      <3> QED
        BY <3>1
    <2>2. c * q = c * hi + c + c * d /\ c * d >= 0 /\ c * hi >= 0
      BY <1>1, <2>1
    <2> QED
      BY <1>1, <2>2
  <1> QED
    BY <1>1, <1>2, <1>3 DEF q

\* One turn of the loop that tallies samples, from the tallies t so far.
Turn(samples, t, k) ==
  IF k = 0 THEN [sum |-> 0, count |-> 0]
  ELSE IF Valid(samples[k])
  THEN [sum |-> t[k - 1].sum + samples[k], count |-> t[k - 1].count + 1]
  ELSE t[k - 1]

\* The loop has a tally after each of its turns.
LEMMA Turns ==
  ASSUME NEW samples, NEW n \in Nat
  PROVE  \E t : t = [k \in 0 .. n |-> Turn(samples, t, k)]
  <1> DEFINE Good(m) == \E t : t = [k \in 0 .. m |-> Turn(samples, t, k)]
             Bad == {m \in Nat : ~ Good(m)}
  <1> SUFFICES ASSUME Bad # {} PROVE FALSE
    OBVIOUS
  <1>1. PICK m \in Bad : \A y \in Bad : m <= y
    <2> HIDE DEF Bad
    <2>1. Bad \in SUBSET Nat
      BY DEF Bad
    <2> QED
      BY <2>1, Least
  <1>2. CASE m = 0
    <2> DEFINE t == [k \in 0 .. 0 |-> [sum |-> 0, count |-> 0]]
    <2>1. t = [k \in 0 .. 0 |-> Turn(samples, t, k)]
      BY DEF Turn
    <2> QED
      BY <1>1, <1>2, <2>1
  <1>3. CASE m # 0
    <2>1. m \in Nat /\ m - 1 \in Nat /\ m - 1 \notin Bad
      BY <1>1, <1>3
    <2>2. PICK t : t = [k \in 0 .. m - 1 |-> Turn(samples, t, k)]
      BY <2>1
    <2>3. \A k \in 0 .. m - 1 : t[k] = Turn(samples, t, k)
      BY <2>2
    <2> DEFINE u == [k \in 0 .. m |-> IF k < m THEN t[k] ELSE Turn(samples, t, m)]
    <2>4. ASSUME NEW k \in 0 .. m PROVE u[k] = Turn(samples, u, k)
      <3>1. CASE k = 0
        <4>1. u[0] = t[0] /\ t[0] = Turn(samples, t, 0)
          BY <1>3, <2>1, <2>3
        <4> HIDE DEF u
        <4> QED
          BY <3>1, <4>1 DEF Turn
      <3>2. CASE k # 0 /\ k < m
        <4>1. u[k] = t[k] /\ u[k - 1] = t[k - 1] /\ t[k] = Turn(samples, t, k)
          BY <2>1, <2>3, <3>2
        <4> HIDE DEF u
        <4> QED
          BY <3>2, <4>1 DEF Turn
      <3>3. CASE k = m
        <4>1. u[m] = Turn(samples, t, m) /\ u[m - 1] = t[m - 1]
          BY <2>1
        <4> HIDE DEF u
        <4> QED
          BY <1>3, <3>3, <4>1 DEF Turn
      <3> QED
        BY <2>1, <3>1, <3>2, <3>3
    <2>5. u = [k \in 0 .. m |-> Turn(samples, u, k)]
      <3>1. u = [k \in 0 .. m |-> u[k]]
        OBVIOUS
      <3> HIDE DEF u
      <3> QED
        BY <2>4, <3>1
    <2> QED
      BY <1>1, <2>5
  <1> QED
    BY <1>2, <1>3

\* The tally of n samples is that after turn n.
LEMMA TallyIs ==
  ASSUME NEW samples, NEW n \in Nat
  PROVE  \E t : /\ Tally(samples, n) = t[n]
                /\ t[0] = [sum |-> 0, count |-> 0]
                /\ \A k \in 1 .. n : t[k] = Turn(samples, t, k)
  <1> DEFINE t == CHOOSE t : t = [k \in 0 .. n |-> Turn(samples, t, k)]
  <1>1. Tally(samples, n) = t[n]
    BY DEF Tally, Turn
  <1>2. t = [k \in 0 .. n |-> Turn(samples, t, k)]
    BY Turns
  <1> HIDE DEF t
  <1>3. t[0] = Turn(samples, t, 0) /\ \A k \in 1 .. n : t[k] = Turn(samples, t, k)
    BY <1>2
  <1>4. Turn(samples, t, 0) = [sum |-> 0, count |-> 0]
    BY DEF Turn
  <1> QED
    BY <1>1, <1>3, <1>4

\* The valid ones of n samples.
ValidOnes(samples, n) == {k \in 1 .. n : Valid(samples[k])}

\* One more sample adds itself to the valid ones, or nothing.
LEMMA OneMore ==
  ASSUME NEW samples, NEW n \in Nat \ {0}
  PROVE  /\ IsFiniteSet(ValidOnes(samples, n - 1))
         /\ Cardinality(ValidOnes(samples, n))
              = Cardinality(ValidOnes(samples, n - 1))
                  + (IF Valid(samples[n]) THEN 1 ELSE 0)
  <1> DEFINE S == ValidOnes(samples, n - 1)
  <1>1. IsFiniteSet(S)
    <2>1. IsFiniteSet(1 .. n - 1)
      BY FS_Interval
    <2>2. S \subseteq 1 .. n - 1
      BY DEF ValidOnes
    <2> QED
      BY <2>1, <2>2, FS_Subset
  <1>2. n \notin S
    BY DEF ValidOnes
  <1>3. ValidOnes(samples, n) = IF Valid(samples[n]) THEN S \cup {n} ELSE S
    BY DEF ValidOnes
  <1> HIDE DEF S
  <1>4. Cardinality(S \cup {n}) = Cardinality(S) + 1
    BY <1>1, <1>2, FS_AddElement
  <1>5. Cardinality(S) \in Nat
    BY <1>1, FS_CardinalityType
  <1>6. Cardinality(ValidOnes(samples, n))
          = Cardinality(S) + (IF Valid(samples[n]) THEN 1 ELSE 0)
    BY <1>3, <1>4, <1>5
  <1> QED
    BY <1>1, <1>6 DEF S

\* The tally counts the valid ones, and its sum is what their bounds allow.
LEMMA TallyBounds ==
  ASSUME NEW n \in Nat, NEW samples, NEW lo \in Nat, NEW hi \in Nat,
         \A k \in 1 .. n : samples[k] \in Nat,
         \A k \in 1 .. n : Valid(samples[k]) =>
                             lo <= samples[k] /\ samples[k] <= hi
  PROVE  LET t == Tally(samples, n)
         IN  /\ t.sum \in Nat /\ t.count \in Nat
             /\ t.count = Cardinality(ValidOnes(samples, n))
             /\ t.count * lo <= t.sum /\ t.sum <= t.count * hi
  <1>1. PICK t : /\ Tally(samples, n) = t[n]
                 /\ t[0] = [sum |-> 0, count |-> 0]
                 /\ \A k \in 1 .. n : t[k] = Turn(samples, t, k)
    BY TallyIs
  <1> DEFINE Fits(k) ==
               /\ t[k].sum \in Nat /\ t[k].count \in Nat
               /\ t[k].count = Cardinality(ValidOnes(samples, k))
               /\ t[k].count * lo <= t[k].sum /\ t[k].sum <= t[k].count * hi
             Bad == {k \in 0 .. n : ~ Fits(k)}
  <1> SUFFICES ASSUME Bad # {} PROVE FALSE
    <2>1. n \in 0 .. n
      OBVIOUS
    <2> QED
      BY <1>1, <2>1
  <1>2. PICK k \in Bad : \A y \in Bad : k <= y
    <2> HIDE DEF Bad
    <2>1. Bad \in SUBSET Nat
      BY DEF Bad
    <2> QED
      BY <2>1, Least
  <1>3. k \in 0 .. n /\ ~ Fits(k)
    BY <1>2
  <1>4. k # 0
    <2>1. ValidOnes(samples, 0) = {}
      BY DEF ValidOnes
    <2>2. Cardinality({}) = 0
      BY FS_EmptySet
    <2>3. Fits(0)
      BY <1>1, <2>1, <2>2
    <2> QED
      BY <1>3, <2>3
  <1>5. k \in 1 .. n /\ k - 1 \in 0 .. n /\ k \in Nat \ {0} /\ k - 1 < k
    BY <1>3, <1>4
  <1>6. Fits(k - 1)
    BY <1>2, <1>5
  <1>7. t[k] = Turn(samples, t, k)
    BY <1>1, <1>5
  <1>8. Cardinality(ValidOnes(samples, k))
          = Cardinality(ValidOnes(samples, k - 1))
              + (IF Valid(samples[k]) THEN 1 ELSE 0)
    BY <1>5, OneMore
  <1>9. CASE Valid(samples[k])
    <2> DEFINE s == t[k - 1].sum
               c == t[k - 1].count
               x == samples[k]
    <2>1. t[k] = [sum |-> s + x, count |-> c + 1]
      BY <1>4, <1>7, <1>9 DEF Turn
    <2>2. x \in Nat /\ lo <= x /\ x <= hi
      BY <1>5, <1>9
    <2>3. /\ s \in Nat /\ c \in Nat
          /\ c = Cardinality(ValidOnes(samples, k - 1))
          /\ c * lo <= s /\ s <= c * hi
      BY <1>6
    <2>4. t[k].sum = s + x /\ t[k].count = c + 1
      BY <2>1
    <2> HIDE DEF s, c, x
    <2>5. (c + 1) * lo = c * lo + lo /\ (c + 1) * hi = c * hi + hi
      BY <2>3
    <2>6. c * lo \in Nat /\ c * hi \in Nat
      BY <2>3
    <2>7. (c + 1) * lo <= s + x /\ s + x <= (c + 1) * hi
      BY <2>2, <2>3, <2>5, <2>6
    <2>8. Cardinality(ValidOnes(samples, k)) = c + 1
      BY <1>8, <1>9, <2>3
    <2> QED
      BY <1>3, <2>2, <2>3, <2>4, <2>7, <2>8
  <1>10. CASE ~ Valid(samples[k])
    <2>1. t[k] = t[k - 1]
      BY <1>4, <1>7, <1>10 DEF Turn
    <2>2. Cardinality(ValidOnes(samples, k))
            = Cardinality(ValidOnes(samples, k - 1))
      BY <1>6, <1>8, <1>10
    <2> QED
      BY <1>3, <1>6, <2>1, <2>2
  <1> QED
    BY <1>9, <1>10

\* Valid samples have a least and a greatest one.
LEMMA Extremes ==
  ASSUME NEW n \in Nat, NEW samples, \A k \in 1 .. n : samples[k] \in Nat,
         ValidOnes(samples, n) # {}
  PROVE  \E a, b \in ValidOnes(samples, n) : \A k \in ValidOnes(samples, n) :
           samples[a] <= samples[k] /\ samples[k] <= samples[b]
  <1> DEFINE V == ValidOnes(samples, n)
             T == {samples[k] : k \in V}
  <1>1. RATE_LIMIT \in Nat
    BY MeterAssumption
  <1>2. T \in SUBSET Nat /\ T # {} /\ \A x \in T : x <= RATE_LIMIT
    BY <1>1 DEF ValidOnes, Valid
  <1>3. \A k \in V : samples[k] \in T
    OBVIOUS
  <1>4. \A x \in T : \E k \in V : x = samples[k]
    OBVIOUS
  <1> HIDE DEF V, T
  <1>5. PICK x \in T : \A y \in T : x <= y
    BY <1>2, Least
  <1>6. PICK z \in T : \A y \in T : y <= z
    BY <1>1, <1>2, Greatest
  <1>7. PICK a \in V : x = samples[a]
    BY <1>4
  <1>8. PICK b \in V : z = samples[b]
    BY <1>4
  <1> QED
    BY <1>3, <1>5, <1>6, <1>7, <1>8 DEF V

\* A tally counts and sums numbers.
LEMMA TallyType ==
  ASSUME NEW n \in Nat, NEW samples, \A k \in 1 .. n : samples[k] \in Nat
  PROVE  /\ Tally(samples, n).sum \in Nat /\ Tally(samples, n).count \in Nat
         /\ Tally(samples, n).count = Cardinality(ValidOnes(samples, n))
  <1>1. RATE_LIMIT \in Nat /\ 0 \in Nat
    BY MeterAssumption
  <1>2. \A k \in 1 .. n : Valid(samples[k]) =>
                            0 <= samples[k] /\ samples[k] <= RATE_LIMIT
    BY <1>1 DEF Valid
  <1> QED
    BY <1>1, <1>2, TallyBounds

\* The average of valid samples lies between two of them.
LEMMA AverageBetween ==
  ASSUME NEW n \in Nat, NEW samples, \A k \in 1 .. n : samples[k] \in Nat,
         Tally(samples, n).count # 0
  PROVE  \E a, b \in ValidOnes(samples, n) :
           LET avg == Tally(samples, n).sum \div Tally(samples, n).count
           IN  samples[a] <= avg /\ avg <= samples[b]
  <1> DEFINE V == ValidOnes(samples, n)
             t == Tally(samples, n)
  <1>1. t.count = Cardinality(V)
    BY TallyType
  <1>2. V # {}
    BY <1>1, FS_EmptySet
  <1>3. PICK a \in V, b \in V :
          \A k \in V : samples[a] <= samples[k] /\ samples[k] <= samples[b]
    BY <1>2, Extremes
  <1>4. /\ samples[a] \in Nat /\ samples[b] \in Nat
        /\ \A k \in 1 .. n : Valid(samples[k]) =>
             samples[a] <= samples[k] /\ samples[k] <= samples[b]
    BY <1>3 DEF ValidOnes
  <1>5. /\ t.sum \in Nat /\ t.count \in Nat
        /\ t.count * samples[a] <= t.sum /\ t.sum <= t.count * samples[b]
    BY <1>4, TallyBounds
  <1> HIDE DEF V, t
  <1>6. samples[a] <= t.sum \div t.count /\ t.sum \div t.count <= samples[b]
    BY <1>4, <1>5, QuotientBetween DEF t
  <1> QED
    BY <1>6 DEF V, t

\* Every entry of the sorted valid samples is one of them.
LEMMA SortedIs ==
  ASSUME NEW n \in Nat, NEW samples, \A k \in 1 .. n : samples[k] \in Nat,
         NEW m \in Nat \ {0}, m <= Tally(samples, n).count
  PROVE  \E k \in ValidOnes(samples, n) : Sorted(samples, n, m) = samples[k]
  <1> DEFINE V == ValidOnes(samples, n)
             UpTo(x) == {k \in V : samples[k] <= x}
             T == {x \in {samples[k] : k \in V} : Cardinality(UpTo(x)) >= m}
  <1>1. Tally(samples, n).count = Cardinality(V)
    BY TallyType
  <1>2. V # {}
    BY <1>1, FS_EmptySet
  <1>3. PICK b \in V : \A k \in V : samples[k] <= samples[b]
    BY <1>2, Extremes
  <1>4. UpTo(samples[b]) = V
    BY <1>3
  <1>5. samples[b] \in T
    BY <1>1, <1>4
  <1>6. T \in SUBSET Nat
    BY DEF ValidOnes
  <1>7. Sorted(samples, n, m) = CHOOSE x \in T : \A y \in T : x <= y
    BY DEF Sorted, ValidOnes
  <1>8. \A x \in T : \E k \in V : x = samples[k]
    OBVIOUS
  <1> HIDE DEF V, T
  <1>9. \E x \in T : \A y \in T : x <= y
    BY <1>5, <1>6, Least
  <1>10. Sorted(samples, n, m) \in T
    BY <1>7, <1>9
  <1> QED
    BY <1>8, <1>10 DEF V

\* A multiple of m and a remainder r have that remainder.
LEMMA RemainderIs ==
  ASSUME NEW m \in Nat \ {0}, NEW q \in Int, NEW r \in 0 .. m - 1,
         NEW n \in Int, n = m * q + r
  PROVE  n % m = r
  OBVIOUS

\* More cycles make more cycles times SECOND.
LEMMA Scaled ==
  ASSUME NEW x \in Nat, x <= CYCLES_MOD - 1, NEW e \in Nat \ {0},
         e <= MAX_ELAPSED
  PROVE  /\ x * SECOND \in Nat /\ x <= x * SECOND
         /\ x * SECOND + RATE_LIMIT * e <= UINT64
         /\ RATE_LIMIT * e \in Nat \ {0}
  <1>1. /\ SECOND \in Nat \ {0} /\ RATE_LIMIT \in Nat \ {0}
        /\ MAX_ELAPSED \in Nat /\ CYCLES_MOD \in Nat \ {0} /\ UINT64 \in Nat
        /\ UINT64 - (CYCLES_MOD - 1) * SECOND >= RATE_LIMIT * MAX_ELAPSED
    BY MeterAssumption
  <1>2. PICK d \in Nat : CYCLES_MOD - 1 = x + d
    <2>1. CYCLES_MOD - 1 - x \in Nat /\ CYCLES_MOD - 1 = x + (CYCLES_MOD - 1 - x)
      BY <1>1
    <2> QED
      BY <2>1
  <1>3. PICK f \in Nat : MAX_ELAPSED = e + f
    <2>1. MAX_ELAPSED - e \in Nat /\ MAX_ELAPSED = e + (MAX_ELAPSED - e)
      BY <1>1
    <2> QED
      BY <2>1
  <1>4. PICK g \in Nat : SECOND = 1 + g
    <2>1. SECOND - 1 \in Nat /\ SECOND = 1 + (SECOND - 1)
      BY <1>1
    <2> QED
      BY <2>1
  <1>5. PICK h \in Nat : RATE_LIMIT = 1 + h
    <2>1. RATE_LIMIT - 1 \in Nat /\ RATE_LIMIT = 1 + (RATE_LIMIT - 1)
      BY <1>1
    <2> QED
      BY <2>1
  <1>6. /\ (CYCLES_MOD - 1) * SECOND = x * SECOND + d * SECOND
        /\ RATE_LIMIT * MAX_ELAPSED = RATE_LIMIT * e + RATE_LIMIT * f
        /\ x * SECOND = x + x * g
        /\ RATE_LIMIT * e = e + h * e
    BY <1>1, <1>2, <1>3, <1>4, <1>5
  <1>7. /\ d * SECOND \in Nat /\ x * SECOND \in Nat /\ x * g \in Nat
        /\ RATE_LIMIT * e \in Nat /\ RATE_LIMIT * f \in Nat /\ h * e \in Nat
    BY <1>1
  <1> QED
    BY <1>1, <1>6, <1>7

\* A rate below the limit is the true one: the difference of a wrapped counter
\* makes one beyond it.
LEMMA RateIsTrue ==
  ASSUME NEW total \in 0 .. CYCLES_MOD - 1, NEW last \in 0 .. CYCLES_MOD - 1,
         NEW c \in 0 .. CYCLES_MOD - 1, total = (last + c) % CYCLES_MOD,
         NEW e \in Nat \ {0}, e <= MAX_ELAPSED
  PROVE  /\ Rate(total, last, e) \in Nat
         /\ Valid(Rate(total, last, e)) =>
              Rate(total, last, e) = (c * SECOND) \div e
  <1>1. /\ SECOND \in Nat \ {0} /\ CYCLES_MOD \in Nat \ {0}
        /\ UINT64 \in Nat \ {0} /\ RATE_LIMIT \in Nat \ {0}
    BY MeterAssumption
  <1>2. CASE last + c < CYCLES_MOD
    <2>1. total - last = c
      <3>1. (last + c) % CYCLES_MOD = last + c
        BY <1>1, <1>2
      <3> QED
        BY <3>1
    <2>2. /\ c * SECOND \in Nat /\ c <= c * SECOND
          /\ c * SECOND + RATE_LIMIT * e <= UINT64
          /\ RATE_LIMIT * e \in Nat \ {0}
      BY <1>1, Scaled
    <2>3. c \in 0 .. UINT64 - 1 /\ c * SECOND \in 0 .. UINT64 - 1
      BY <1>1, <2>2
    <2>4. c % UINT64 = c /\ (c * SECOND) % UINT64 = c * SECOND
      <3>1. \A y \in 0 .. UINT64 - 1 : y % UINT64 = y
        BY <1>1
      <3> QED
        BY <2>3, <3>1
    <2>5. Rate(total, last, e) = (c * SECOND) \div e
      BY <2>1, <2>4 DEF Rate
    <2>6. (c * SECOND) \div e \in Nat
      <3> DEFINE y == c * SECOND
      <3> HIDE DEF y
      <3>1. y \in Nat => y \div e \in Nat
        OBVIOUS
      <3> QED
        BY <2>2, <3>1 DEF y
    <2> QED
      BY <2>5, <2>6
  <1>3. CASE last + c >= CYCLES_MOD
    <2> DEFINE d == CYCLES_MOD - c
               y == UINT64 - d * SECOND
    <2>1. total - last = -d /\ d \in Nat \ {0} /\ d <= CYCLES_MOD - 1
      <3>1. /\ (last + c) - CYCLES_MOD \in 0 .. CYCLES_MOD - 1
            /\ last \in Int /\ c \in Int /\ last + c \in Int
        BY <1>1, <1>3
      <3>2. (last + c) % CYCLES_MOD = (last + c) - CYCLES_MOD
        <4> DEFINE z == last + c
        <4>1. z = CYCLES_MOD * 1 + (z - CYCLES_MOD) /\ z \in Int
          <5>1. z \in Int
            BY <3>1
          <5> HIDE DEF z
          <5> QED
            BY <1>1, <5>1
        <4>2. z - CYCLES_MOD \in 0 .. CYCLES_MOD - 1
          BY <3>1
        <4> HIDE DEF z
        <4>3. z % CYCLES_MOD = z - CYCLES_MOD
          <5> DEFINE r == z - CYCLES_MOD
          <5>1. r \in 0 .. CYCLES_MOD - 1 /\ z = CYCLES_MOD * 1 + r /\ z \in Int
            BY <4>1, <4>2
          <5> HIDE DEF r
          <5>2. z % CYCLES_MOD = r
            BY <1>1, <5>1, RemainderIs
          <5> QED
            BY <5>2 DEF r
        <4> QED
          BY <4>3 DEF z
      <3> QED
        BY <1>1, <1>3, <3>2
    <2>2. /\ d * SECOND \in Nat /\ d <= d * SECOND
          /\ d * SECOND + RATE_LIMIT * e <= UINT64
          /\ RATE_LIMIT * e \in Nat \ {0}
      <3> HIDE DEF d
      <3> QED
        BY <2>1, Scaled
    <2>3. (-d) % UINT64 = UINT64 - d
      <3>1. /\ -d = UINT64 * (-1) + (UINT64 - d) /\ -d \in Int
            /\ UINT64 - d \in 0 .. UINT64 - 1
        <4> HIDE DEF d
        <4> QED
          BY <1>1, <2>1, <2>2
      <3> DEFINE u == UINT64 - d
                 w == -d
      <3>2. w \in Int /\ u \in 0 .. UINT64 - 1 /\ w = UINT64 * (-1) + u
        BY <3>1
      <3> HIDE DEF u, w
      <3>3. w % UINT64 = u
        BY <1>1, <3>2, RemainderIs
      <3> QED
        BY <3>3 DEF u, w
    <2>4. ((UINT64 - d) * SECOND) % UINT64 = y
      <3> DEFINE w == (UINT64 - d) * SECOND
                 q == SECOND - 1
      <3> HIDE DEF d
      <3>1. w = UINT64 * q + y /\ w \in Int /\ q \in Int
        BY <1>1, <2>1
      <3>2. y \in 0 .. UINT64 - 1
        BY <1>1, <2>1, <2>2
      <3> HIDE DEF w, q, y
      <3>3. w % UINT64 = y
        BY <1>1, <3>1, <3>2, RemainderIs
      <3> QED
        BY <3>3 DEF w
    <2>5. Rate(total, last, e) = y \div e
      <3> HIDE DEF d, y
      <3> QED
        BY <2>1, <2>3, <2>4 DEF Rate
    <2>6. y \in Nat /\ RATE_LIMIT * e <= y
      <3> HIDE DEF d
      <3> QED
        BY <1>1, <2>2
    <2> HIDE DEF y
    <2>7. y \div e \in Nat /\ RATE_LIMIT <= y \div e
      <3>1. e * RATE_LIMIT <= y /\ y <= e * y
        <4>1. PICK f \in Nat : e = 1 + f
          <5>1. e - 1 \in Nat /\ e = 1 + (e - 1)
            OBVIOUS
          <5> QED
            BY <5>1
        <4>2. e * y = y + f * y /\ f * y \in Nat /\ e * RATE_LIMIT = RATE_LIMIT * e
          BY <1>1, <2>6, <4>1
        <4> QED
          BY <2>6, <4>2
      <3> QED
        BY <1>1, <2>6, <3>1, QuotientBetween
    <2> QED
      BY <1>1, <2>5, <2>7 DEF Valid
  <1> QED
    BY <1>1, <1>2, <1>3

\* A number between true rates.
Real(x, rate) == (\E k \in Ring : rate[k] <= x) /\ (\E k \in Ring : x <= rate[k])

\* Slots of the ring, seen from the newest.
LEMMA BackInRing ==
  ASSUME NEW idx \in Ring, NEW k \in Nat, k < CYCLE_HISTORY_SIZE
  PROVE  Back(idx, k) \in Ring
  <1>1. CYCLE_HISTORY_SIZE \in Nat \ {0}
    BY MeterAssumption
  <1>2. \A n \in Int : n % CYCLE_HISTORY_SIZE \in 0 .. CYCLE_HISTORY_SIZE - 1
    BY <1>1
  <1>3. idx - 1 - k + CYCLE_HISTORY_SIZE \in Int
    BY <1>1 DEF Ring
  <1> QED
    BY <1>2, <1>3 DEF Back, Ring

\* If the valid samples are true, so is their average.
LEMMA AverageReal ==
  ASSUME NEW history \in [Ring -> Nat], NEW rate, NEW idx \in Ring,
         \A k \in Ring : Valid(history[k]) => history[k] = rate[k]
  PROVE  /\ Average(history, idx) \in Nat
         /\ Average(history, idx) # 0 => Real(Average(history, idx), rate)
  <1> DEFINE n == IF AVERAGED < CYCLE_HISTORY_SIZE THEN AVERAGED
                                                   ELSE CYCLE_HISTORY_SIZE
             s == [k \in 1 .. n |-> history[Back(idx, k - 1)]]
             t == Tally(s, n)
  <1>1. n \in Nat /\ n <= CYCLE_HISTORY_SIZE /\ CYCLE_HISTORY_SIZE \in Nat \ {0}
    BY MeterAssumption
  <1>2. Average(history, idx) = IF t.count = 0 THEN 0 ELSE t.sum \div t.count
    BY DEF Average
  <1> HIDE DEF n
  <1>3. ASSUME NEW k \in 1 .. n
        PROVE  Back(idx, k - 1) \in Ring /\ s[k] = history[Back(idx, k - 1)]
    <2>1. k - 1 \in Nat /\ k - 1 < CYCLE_HISTORY_SIZE
      BY <1>1
    <2> QED
      BY <2>1, BackInRing
  <1> HIDE DEF s
  <1>4. \A k \in 1 .. n : s[k] \in Nat
    BY <1>3
  <1>5. ASSUME t.count # 0
        PROVE  /\ t.sum \div t.count \in Nat
               /\ Real(t.sum \div t.count, rate)
    <2>1. PICK a \in ValidOnes(s, n), b \in ValidOnes(s, n) :
            s[a] <= t.sum \div t.count /\ t.sum \div t.count <= s[b]
      BY <1>1, <1>4, <1>5, AverageBetween
    <2>2. /\ Back(idx, a - 1) \in Ring /\ rate[Back(idx, a - 1)] = s[a]
          /\ Back(idx, b - 1) \in Ring /\ rate[Back(idx, b - 1)] = s[b]
      BY <1>3 DEF ValidOnes
    <2>3. t.sum \in Nat /\ t.count \in Nat
      BY <1>1, <1>4, TallyType
    <2>4. t.sum \div t.count \in Nat
      <3> HIDE DEF t
      <3> QED
        BY <1>5, <2>3
    <2> QED
      BY <2>1, <2>2, <2>4 DEF Real
  <1> QED
    BY <1>2, <1>5

\* If the valid samples are true, so are the numbers of the panel.
LEMMA PanelReal ==
  ASSUME NEW history \in [Ring -> Nat], NEW rate, NEW idx \in Ring,
         \A k \in Ring : Valid(history[k]) => history[k] = rate[k],
         NEW x \in Panel(history, idx)
  PROVE  Real(x, rate)
  <1> DEFINE n == CYCLE_HISTORY_SIZE
             s == [k \in 1 .. n |-> history[k - 1]]
             t == Tally(s, n)
             newest == history[Back(idx, 0)]
             one == IF t.count < PERCENT THEN 1
                    ELSE IF t.count \div PERCENT < t.count
                         THEN (t.count \div PERCENT) + 1 ELSE t.count
  <1>1. n \in Nat \ {0} /\ PERCENT \in Nat \ {0}
    BY MeterAssumption
  <1>2. /\ t.count # 0
        /\ \/ Valid(newest) /\ x = newest
           \/ x = Sorted(s, n, t.count)
           \/ x = t.sum \div t.count
           \/ x = Sorted(s, n, one)
           \/ x = Sorted(s, n, 1)
    BY DEF Panel
  <1>3. \A k \in 1 .. n : k - 1 \in Ring /\ s[k] = history[k - 1] /\ s[k] \in Nat
    BY <1>1 DEF Ring
  <1> HIDE DEF s
  <1>4. t.sum \in Nat /\ t.count \in Nat \ {0}
    BY <1>1, <1>2, <1>3, TallyType
  <1>5. /\ one \in Nat \ {0} /\ one <= t.count
        /\ 1 \in Nat \ {0} /\ 1 <= t.count
    <2> HIDE DEF t
    <2>1. t.count \div PERCENT \in Nat
      BY <1>1, <1>4
    <2> QED
      BY <1>1, <1>4, <2>1
  <1>6. ASSUME NEW k \in ValidOnes(s, n) PROVE k - 1 \in Ring /\ s[k] = rate[k - 1]
    BY <1>3 DEF ValidOnes
  <1>7. ASSUME NEW m \in Nat \ {0}, m <= t.count
        PROVE  Real(Sorted(s, n, m), rate)
    <2>1. PICK k \in ValidOnes(s, n) : Sorted(s, n, m) = s[k]
      BY <1>1, <1>3, <1>7, SortedIs
    <2>2. s[k] \in Nat /\ k - 1 \in Ring /\ s[k] = rate[k - 1]
      BY <1>3, <1>6 DEF ValidOnes
    <2> QED
      BY <2>1, <2>2 DEF Real
  <1>8. Real(t.sum \div t.count, rate)
    <2>1. PICK a \in ValidOnes(s, n), b \in ValidOnes(s, n) :
            s[a] <= t.sum \div t.count /\ t.sum \div t.count <= s[b]
      BY <1>1, <1>2, <1>3, AverageBetween
    <2> QED
      BY <1>6, <2>1 DEF Real
  <1>9. Valid(newest) => Real(newest, rate)
    <2>1. Back(idx, 0) \in Ring
      BY <1>1, BackInRing
    <2>2. Valid(newest) => rate[Back(idx, 0)] = newest /\ newest \in Nat
      BY <2>1
    <2> HIDE DEF newest
    <2> QED
      BY <2>1, <2>2 DEF Real
  <1> HIDE DEF t, one, newest
  <1> QED
    BY <1>2, <1>4, <1>5, <1>7, <1>8, <1>9

\* What a step costs at most, and the cycles of a whole frame.
Dearest ==
  CHOOSE c \in Nat : /\ \A n \in StepCycles : n <= c
                     /\ 2 * (INSTRUCTIONS_PER_FRAME * c + RESET_CYCLES)
                          < CYCLES_MOD

FrameCycles == INSTRUCTIONS_PER_FRAME * Dearest + RESET_CYCLES

\* Two frames do not wrap CYCLES more than once.
LEMMA FrameCost ==
  /\ Dearest \in Nat /\ \A n \in StepCycles : n <= Dearest
  /\ INSTRUCTIONS_PER_FRAME * Dearest \in Nat /\ FrameCycles \in Nat
  /\ 2 * FrameCycles < CYCLES_MOD
  <1> DEFINE Bounds(c) == /\ \A n \in StepCycles : n <= c
                          /\ 2 * (INSTRUCTIONS_PER_FRAME * c + RESET_CYCLES)
                               < CYCLES_MOD
  <1>1. /\ INSTRUCTIONS_PER_FRAME \in Nat \ {0} /\ RESET_CYCLES \in Nat
        /\ CYCLES_MOD \in Nat /\ StepCycles \in SUBSET Nat
        /\ 2 * RESET_CYCLES < CYCLES_MOD
        /\ \A c \in StepCycles : 2 * (INSTRUCTIONS_PER_FRAME * c + RESET_CYCLES)
                                   < CYCLES_MOD
    BY MonitorAssumption, MeterAssumption
  <1>2. \E c \in Nat : Bounds(c)
    <2>1. CASE StepCycles = {}
      <3>1. INSTRUCTIONS_PER_FRAME * 0 = 0
        BY <1>1
      <3>2. Bounds(0)
        BY <1>1, <2>1, <3>1
      <3> QED
        BY <3>2
    <2>2. CASE StepCycles # {}
      <3>1. ASSUME NEW c \in StepCycles PROVE c <= CYCLES_MOD
        <4>1. PICK f \in Nat : INSTRUCTIONS_PER_FRAME = 1 + f
          <5>1. /\ INSTRUCTIONS_PER_FRAME - 1 \in Nat
                /\ INSTRUCTIONS_PER_FRAME = 1 + (INSTRUCTIONS_PER_FRAME - 1)
            BY <1>1
          <5> QED
            BY <5>1
        <4>2. INSTRUCTIONS_PER_FRAME * c = c + f * c /\ f * c \in Nat /\ c \in Nat
          BY <1>1, <4>1
        <4>3. 2 * (INSTRUCTIONS_PER_FRAME * c + RESET_CYCLES) < CYCLES_MOD
          BY <1>1
        <4> QED
          BY <1>1, <4>2, <4>3
      <3>2. PICK c \in StepCycles : \A n \in StepCycles : n <= c
        BY <1>1, <2>2, <3>1, Greatest
      <3> QED
        BY <1>1, <3>2
    <2> QED
      BY <2>1, <2>2
  <1>3. Dearest \in Nat /\ Bounds(Dearest)
    <2>1. Dearest = CHOOSE c \in Nat : Bounds(c)
      BY DEF Dearest
    <2> HIDE DEF Bounds
    <2> QED
      BY <1>2, <2>1
  <1>4. INSTRUCTIONS_PER_FRAME * Dearest \in Nat
    BY <1>1, <1>3
  <1> QED
    BY <1>1, <1>3, <1>4 DEF FrameCycles

MeterType ==
  [total_cycles : 0 .. CYCLES_MOD - 1, last_cycles : 0 .. CYCLES_MOD - 1,
   last_update : BOOLEAN, history : [Ring -> Nat], idx : Ring,
   current_mhz : Nat]

TruthType == [cycles : Nat, skipped : BOOLEAN, rate : [Ring -> Nat]]

\* What the frames since the last sample can have cost so far.
MostCycles ==
  (IF truth.skipped THEN FrameCycles ELSE 0)
    + (IF phase = "execute" THEN i * Dearest + RESET_CYCLES ELSE 0)

\* The inductive invariant: CYCLES is the last sample's and what has passed
\* since, which is less than a round, and the valid samples are true.
MeterInv ==
  /\ CYCLES \in 0 .. CYCLES_MOD - 1
  /\ meter \in MeterType /\ truth \in TruthType
  /\ i <= INSTRUCTIONS_PER_FRAME
  /\ meter.last_update =>
       CYCLES = (meter.last_cycles + truth.cycles) % CYCLES_MOD
  /\ truth.skipped => meter.last_update
  /\ truth.cycles <= MostCycles
  /\ \A k \in Ring : Valid(meter.history[k]) =>
                       meter.history[k] = truth.rate[k]
  /\ meter.current_mhz # 0 => Real(meter.current_mhz, truth.rate)

\* The display starts empty.
LEMMA MeterInit == MonitorInit => MeterInv
  <1> SUFFICES ASSUME MonitorInit PROVE MeterInv
    OBVIOUS
  <1>1. /\ CYCLES_MOD \in Nat \ {0} /\ RESET_CYCLES \in Nat
        /\ 2 * RESET_CYCLES < CYCLES_MOD /\ CYCLE_HISTORY_SIZE \in Nat \ {0}
        /\ INSTRUCTIONS_PER_FRAME \in Nat
    BY MonitorAssumption, MeterAssumption
  <1>2. RESET_CYCLES \in 0 .. CYCLES_MOD - 1 /\ 0 \in 0 .. CYCLES_MOD - 1
    BY <1>1
  <1>3. /\ CYCLES = RESET_CYCLES /\ i = 0 /\ phase = "measure"
        /\ meter = [total_cycles |-> 0, last_cycles |-> 0, last_update |-> FALSE,
                    history |-> [k \in Ring |-> 0], idx |-> 0, current_mhz |-> 0]
        /\ truth = [cycles |-> 0, skipped |-> FALSE, rate |-> [k \in Ring |-> 0]]
    BY DEF MonitorInit
  <1>4. 0 \in Ring /\ [k \in Ring |-> 0] \in [Ring -> Nat]
    BY <1>1 DEF Ring
  <1>5. meter \in MeterType /\ truth \in TruthType
    BY <1>2, <1>3, <1>4 DEF MeterType, TruthType
  <1>6. MostCycles = 0
    BY <1>3 DEF MostCycles
  <1> QED
    BY <1>1, <1>2, <1>3, <1>5, <1>6 DEF MeterInv

\* Passing cycles on CYCLES and in truth alike.
LEMMA CyclesPass ==
  ASSUME MeterInv, NEW n \in Nat, AddCycles(n)
  PROVE  /\ CYCLES' \in 0 .. CYCLES_MOD - 1 /\ truth' \in TruthType
         /\ truth'.cycles = truth.cycles + n
         /\ truth'.skipped = truth.skipped /\ truth'.rate = truth.rate
         /\ meter.last_update =>
              CYCLES' = (meter.last_cycles + truth'.cycles) % CYCLES_MOD
  <1>1. /\ CYCLES_MOD \in Nat \ {0} /\ CYCLES \in Nat /\ truth.cycles \in Nat
        /\ meter.last_cycles \in Nat /\ truth \in TruthType
    BY MeterAssumption DEF MeterInv, MeterType, TruthType
  <1>2. /\ CYCLES' = (CYCLES + n) % CYCLES_MOD
        /\ truth' = [truth EXCEPT !.cycles = @ + n]
    BY DEF AddCycles
  <1>3. CYCLES' \in 0 .. CYCLES_MOD - 1
    BY <1>1, <1>2
  <1>4. /\ truth' \in TruthType /\ truth'.cycles = truth.cycles + n
        /\ truth'.skipped = truth.skipped /\ truth'.rate = truth.rate
    BY <1>1, <1>2 DEF TruthType
  <1>5. ASSUME meter.last_update
        PROVE  CYCLES' = (meter.last_cycles + truth'.cycles) % CYCLES_MOD
    <2> DEFINE x == meter.last_cycles + truth.cycles
    <2>1. CYCLES = x % CYCLES_MOD /\ x \in Nat
      BY <1>1, <1>5 DEF MeterInv
    <2> HIDE DEF x
    <2> DEFINE q == x \div CYCLES_MOD
               a == CYCLES + n
               r == a % CYCLES_MOD
               p == a \div CYCLES_MOD
    <2>2. q \in Int /\ x = CYCLES_MOD * q + CYCLES
      BY <1>1, <2>1
    <2>3. a \in Int
      BY <1>1
    <2>4. p \in Int /\ r \in 0 .. CYCLES_MOD - 1 /\ a = CYCLES_MOD * p + r
      <3> HIDE DEF a
      <3> QED
        BY <1>1, <2>3
    <2> HIDE DEF q, r, p
    <2> DEFINE y == x + n
               w == q + p
    <2>5. y \in Int /\ w \in Int /\ y = CYCLES_MOD * w + r
      BY <1>1, <2>1, <2>2, <2>4
    <2> HIDE DEF y, w
    <2>6. y % CYCLES_MOD = r
      BY <1>1, <2>4, <2>5, RemainderIs
    <2>7. meter.last_cycles + truth'.cycles = y
      BY <1>1, <1>4 DEF x, y
    <2> QED
      BY <1>2, <2>6, <2>7 DEF r
  <1> QED
    BY <1>3, <1>4, <1>5

\* Steps that leave the display, the CPU and the loop counter alone, and the
\* instruction loop too.
LEMMA MeterIdle ==
  ASSUME MeterInv, UNCHANGED <<CYCLES, meter, truth, i>>,
         phase' = "execute" <=> phase = "execute"
  PROVE  MeterInv'
  BY DEF MeterInv, MostCycles

\* A frame begins, perhaps with a reset.
LEMMA MeterFrame ==
  ASSUME MeterInv, FrameInv, NEW key \in Keys, Frame(key)
  PROVE  MeterInv'
  <1>1. /\ phase = "loop" /\ phase' = "execute" /\ i' = i /\ meter' = meter
        /\ \/ AddCycles(RESET_CYCLES)
           \/ CYCLES' = CYCLES /\ truth' = truth
    BY DEF Frame
  <1>2. /\ i = 0 /\ RESET_CYCLES \in Nat /\ Dearest \in Nat /\ FrameCycles \in Nat
        /\ truth \in TruthType /\ truth.cycles \in Nat
    BY <1>1, MonitorAssumption, FrameCost
    DEF FrameInv, Rested, MeterInv, TruthType
  <1>3. /\ MostCycles = IF truth.skipped THEN FrameCycles ELSE 0
        /\ MostCycles' = (IF truth'.skipped THEN FrameCycles ELSE 0)
                           + RESET_CYCLES
    BY <1>1, <1>2 DEF MostCycles
  <1>4. CASE AddCycles(RESET_CYCLES)
    <2>1. /\ CYCLES' \in 0 .. CYCLES_MOD - 1 /\ truth' \in TruthType
          /\ truth'.cycles = truth.cycles + RESET_CYCLES
          /\ truth'.skipped = truth.skipped /\ truth'.rate = truth.rate
          /\ meter.last_update =>
               CYCLES' = (meter.last_cycles + truth'.cycles) % CYCLES_MOD
      BY <1>2, <1>4, CyclesPass
    <2>2. truth'.cycles <= MostCycles'
      BY <1>2, <1>3, <2>1 DEF MeterInv
    <2> QED
      BY <1>1, <2>1, <2>2 DEF MeterInv
  <1>5. CASE CYCLES' = CYCLES /\ truth' = truth
    <2>1. truth'.cycles <= MostCycles'
      BY <1>2, <1>3, <1>5 DEF MeterInv
    <2> QED
      BY <1>1, <1>5, <2>1 DEF MeterInv
  <1> QED
    BY <1>1, <1>4, <1>5

\* An instruction adds what it costs.
LEMMA MeterExecute ==
  ASSUME MeterInv, FrameInv, Execute
  PROVE  MeterInv'
  <1>1. /\ phase = "execute" /\ phase' = "execute" /\ i' = i + 1
        /\ i < INSTRUCTIONS_PER_FRAME /\ meter' = meter
        /\ \E n \in StepCycles : AddCycles(n)
    BY DEF Execute, StepCpu, MoreToExecute
  <1>2. PICK n \in StepCycles : AddCycles(n)
    BY <1>1
  <1>3. /\ n \in Nat /\ n <= Dearest /\ Dearest \in Nat /\ FrameCycles \in Nat
        /\ RESET_CYCLES \in Nat /\ i \in Nat /\ truth.cycles \in Nat
        /\ INSTRUCTIONS_PER_FRAME \in Nat
    BY MonitorAssumption, FrameCost DEF FrameInv, MeterInv, TruthType
  <1>4. /\ CYCLES' \in 0 .. CYCLES_MOD - 1 /\ truth' \in TruthType
        /\ truth'.cycles = truth.cycles + n
        /\ truth'.skipped = truth.skipped /\ truth'.rate = truth.rate
        /\ meter.last_update =>
             CYCLES' = (meter.last_cycles + truth'.cycles) % CYCLES_MOD
    BY <1>2, <1>3, CyclesPass
  <1>5. (i + 1) * Dearest = i * Dearest + Dearest /\ i * Dearest \in Nat
    BY <1>3
  <1>6. MostCycles' = MostCycles + Dearest /\ MostCycles \in Nat
    BY <1>1, <1>3, <1>4, <1>5 DEF MostCycles
  <1>7. truth'.cycles <= MostCycles'
    BY <1>3, <1>4, <1>6 DEF MeterInv
  <1>8. i' <= INSTRUCTIONS_PER_FRAME
    BY <1>1, <1>3
  <1> QED
    BY <1>1, <1>4, <1>7, <1>8 DEF MeterInv

\* The end of a frame: the cycles since the last sample are those of at most
\* two frames.
LEMMA SinceSample ==
  ASSUME MeterInv, FrameInv, phase = "execute"
  PROVE  /\ truth.cycles \in 0 .. CYCLES_MOD - 1
         /\ ~ truth.skipped => truth.cycles <= FrameCycles
  <1>1. /\ i \in Nat /\ INSTRUCTIONS_PER_FRAME \in Nat /\ Dearest \in Nat
        /\ i <= INSTRUCTIONS_PER_FRAME /\ truth.cycles \in Nat
        /\ RESET_CYCLES \in Nat /\ FrameCycles \in Nat /\ CYCLES_MOD \in Nat
        /\ INSTRUCTIONS_PER_FRAME * Dearest \in Nat
        /\ 2 * FrameCycles < CYCLES_MOD
    BY MonitorAssumption, MeterAssumption, FrameCost
    DEF FrameInv, MeterInv, TruthType
  <1>2. PICK f \in Nat : INSTRUCTIONS_PER_FRAME = i + f
    <2>1. /\ INSTRUCTIONS_PER_FRAME - i \in Nat
          /\ INSTRUCTIONS_PER_FRAME = i + (INSTRUCTIONS_PER_FRAME - i)
      BY <1>1
    <2> QED
      BY <2>1
  <1>3. /\ INSTRUCTIONS_PER_FRAME * Dearest = i * Dearest + f * Dearest
        /\ i * Dearest \in Nat /\ f * Dearest \in Nat
    BY <1>1, <1>2
  <1>4. i * Dearest + RESET_CYCLES <= FrameCycles
    BY <1>1, <1>3 DEF FrameCycles
  <1>5. truth.cycles <= (IF truth.skipped THEN FrameCycles ELSE 0)
                          + (i * Dearest + RESET_CYCLES)
    BY DEF MeterInv, MostCycles
  <1> QED
    BY <1>1, <1>3, <1>4, <1>5

\* A sample and the average: the new sample is true or not valid.
LEMMA MeterSample ==
  ASSUME MeterInv, FrameInv, NEW elapsed_ms \in Elapsed, Update(elapsed_ms),
         meter.last_update, elapsed_ms >= SAMPLE_MS
  PROVE  MeterInv'
  <1> DEFINE new == Rate(CYCLES, meter.last_cycles, elapsed_ms)
             true == (truth.cycles * SECOND) \div elapsed_ms
             history == [meter.history EXCEPT ![meter.idx] = new]
             rate == [truth.rate EXCEPT ![meter.idx] = true]
             idx == (meter.idx + 1) % CYCLE_HISTORY_SIZE
  <1>1. /\ phase = "execute" /\ phase' = "loop" /\ i' = 0 /\ CYCLES' = CYCLES
        /\ meter' = [total_cycles |-> CYCLES, last_cycles |-> CYCLES,
                     last_update |-> TRUE, history |-> history,
                     idx |-> idx, current_mhz |-> Average(history, idx)]
        /\ truth' = [cycles |-> 0, skipped |-> FALSE, rate |-> rate]
    BY DEF Update
  <1>2. /\ elapsed_ms \in Nat \ {0} /\ elapsed_ms <= MAX_ELAPSED
        /\ SECOND \in Nat /\ CYCLES_MOD \in Nat \ {0}
        /\ CYCLE_HISTORY_SIZE \in Nat \ {0} /\ INSTRUCTIONS_PER_FRAME \in Nat
    BY MonitorAssumption, MeterAssumption
  <1>3. truth.cycles \in 0 .. CYCLES_MOD - 1
    BY <1>1, SinceSample
  <1>4. /\ CYCLES \in 0 .. CYCLES_MOD - 1
        /\ meter.last_cycles \in 0 .. CYCLES_MOD - 1
        /\ CYCLES = (meter.last_cycles + truth.cycles) % CYCLES_MOD
        /\ meter.history \in [Ring -> Nat] /\ meter.idx \in Ring
        /\ truth.rate \in [Ring -> Nat]
        /\ \A k \in Ring : Valid(meter.history[k]) =>
                             meter.history[k] = truth.rate[k]
    BY DEF MeterInv, MeterType, TruthType
  <1>5. new \in Nat /\ (Valid(new) => new = true)
    BY <1>2, <1>3, <1>4, RateIsTrue
  <1>6. true \in Nat
    <2> DEFINE y == truth.cycles * SECOND
    <2>1. y \in Nat
      BY <1>2, <1>3
    <2> HIDE DEF y
    <2>2. y \div elapsed_ms \in Nat
      BY <1>2, <2>1
    <2> QED
      BY <2>2 DEF y
  <1>7. idx \in Ring
    <2>1. \A n \in Int : n % CYCLE_HISTORY_SIZE \in 0 .. CYCLE_HISTORY_SIZE - 1
      BY <1>2
    <2>2. meter.idx + 1 \in Int
      BY <1>2, <1>4 DEF Ring
    <2> QED
      BY <2>1, <2>2 DEF Ring
  <1> HIDE DEF new, true
  <1>8. /\ history \in [Ring -> Nat] /\ rate \in [Ring -> Nat]
        /\ \A k \in Ring : Valid(history[k]) => history[k] = rate[k]
    BY <1>4, <1>5, <1>6
  <1> HIDE DEF history, rate, idx
  <1>9. /\ Average(history, idx) \in Nat
        /\ Average(history, idx) # 0 => Real(Average(history, idx), rate)
    BY <1>7, <1>8, AverageReal
  <1>10. meter' \in MeterType /\ truth' \in TruthType
    BY <1>1, <1>4, <1>7, <1>8, <1>9 DEF MeterType, TruthType
  <1>11. CYCLES' = (meter'.last_cycles + truth'.cycles) % CYCLES_MOD
    BY <1>1, <1>2, <1>4
  <1>12. MostCycles' = 0 /\ truth'.cycles = 0 /\ ~ truth'.skipped
    BY <1>1 DEF MostCycles
  <1>13. /\ \A k \in Ring : Valid(meter'.history[k]) =>
                              meter'.history[k] = truth'.rate[k]
         /\ meter'.current_mhz # 0 => Real(meter'.current_mhz, truth'.rate)
    BY <1>1, <1>8, <1>9
  <1> QED
    BY <1>1, <1>2, <1>4, <1>10, <1>11, <1>12, <1>13 DEF MeterInv

\* An update that comes too early, or the first one, takes no sample.
LEMMA MeterSkip ==
  ASSUME MeterInv, FrameInv, NEW elapsed_ms \in Elapsed, Update(elapsed_ms),
         ~ (meter.last_update /\ elapsed_ms >= SAMPLE_MS)
  PROVE  MeterInv'
  <1> DEFINE last == IF meter.last_update THEN meter.last_cycles ELSE CYCLES
             avg == Average(meter.history, meter.idx)
  <1>1. /\ phase = "execute" /\ phase' = "loop" /\ i' = 0 /\ CYCLES' = CYCLES
        /\ truth.skipped => elapsed_ms >= SAMPLE_MS
        /\ meter' = [meter EXCEPT !.total_cycles = CYCLES,
                       !.last_cycles = last, !.last_update = TRUE,
                       !.current_mhz = avg]
        /\ truth' = [truth EXCEPT !.skipped = meter.last_update,
                       !.cycles = IF meter.last_update THEN @ ELSE 0]
    BY DEF Update, MeterInv, MeterType
  <1>2. /\ CYCLES_MOD \in Nat \ {0} /\ INSTRUCTIONS_PER_FRAME \in Nat
        /\ FrameCycles \in Nat
    BY MonitorAssumption, MeterAssumption, FrameCost
  <1>3. /\ truth.cycles \in 0 .. CYCLES_MOD - 1
        /\ ~ truth.skipped => truth.cycles <= FrameCycles
    BY <1>1, SinceSample
  <1>4. ~ truth.skipped
    BY <1>1 DEF MeterInv
  <1>5. /\ meter \in MeterType /\ truth \in TruthType
        /\ CYCLES \in 0 .. CYCLES_MOD - 1
        /\ meter.history \in [Ring -> Nat] /\ meter.idx \in Ring
        /\ meter.last_cycles \in 0 .. CYCLES_MOD - 1
        /\ meter.last_update \in BOOLEAN
        /\ \A k \in Ring : Valid(meter.history[k]) =>
                             meter.history[k] = truth.rate[k]
    BY DEF MeterInv, MeterType, TruthType
  <1>6. avg \in Nat /\ (avg # 0 => Real(avg, truth.rate))
    BY <1>5, AverageReal
  <1> HIDE DEF avg
  <1>7. last \in 0 .. CYCLES_MOD - 1
    BY <1>5
  <1> HIDE DEF last
  <1>8. /\ meter' \in MeterType /\ meter'.history = meter.history
        /\ meter'.current_mhz = avg /\ meter'.last_cycles = last
        /\ meter'.last_update
    BY <1>1, <1>5, <1>6, <1>7 DEF MeterType
  <1>9. /\ truth' \in TruthType /\ truth'.rate = truth.rate
        /\ truth'.skipped = meter.last_update
        /\ truth'.cycles = IF meter.last_update THEN truth.cycles ELSE 0
    BY <1>1, <1>3, <1>5 DEF TruthType
  <1>10. CYCLES' = (meter'.last_cycles + truth'.cycles) % CYCLES_MOD
    <2>1. CASE meter.last_update
      BY <1>1, <1>8, <1>9, <2>1 DEF last, MeterInv
    <2>2. CASE ~ meter.last_update
      <3>1. meter'.last_cycles + truth'.cycles = CYCLES
        BY <1>5, <1>8, <1>9, <2>2 DEF last
      <3>2. CYCLES % CYCLES_MOD = CYCLES
        BY <1>2, <1>5
      <3> QED
        BY <1>1, <3>1, <3>2
    <2> QED
      BY <2>1, <2>2
  <1>11. truth'.cycles <= MostCycles'
    <2>1. MostCycles' = IF meter.last_update THEN FrameCycles ELSE 0
      BY <1>1, <1>2, <1>9 DEF MostCycles
    <2> QED
      BY <1>2, <1>3, <1>4, <1>9, <2>1
  <1> QED
    BY <1>1, <1>2, <1>5, <1>6, <1>8, <1>9, <1>10, <1>11 DEF MeterInv

\* Every step keeps the invariant of the display.
LEMMA MeterNext ==
  MeterInv /\ FrameInv /\ [MonitorNext]_monitorVars => MeterInv'
  <1> SUFFICES ASSUME MeterInv, FrameInv, [MonitorNext]_monitorVars
               PROVE  MeterInv'
    OBVIOUS
  <1>1. CASE Measure \/ Measured \/ Open \/ Install \/ Quit
    <2>1. /\ phase # "execute" /\ phase' # "execute"
          /\ UNCHANGED <<CYCLES, meter, truth, i>>
      BY <1>1 DEF Measure, Measured, Open, Install, Quit, tui_init, Idle,
                  controlVars
    <2> QED
      BY <2>1, MeterIdle
  <1>2. ASSUME NEW key \in Keys, Frame(key) PROVE MeterInv'
    BY <1>2, MeterFrame
  <1>3. CASE Execute
    BY <1>3, MeterExecute
  <1>4. ASSUME NEW elapsed_ms \in Elapsed, Update(elapsed_ms) PROVE MeterInv'
    BY <1>4, MeterSample, MeterSkip
  <1>5. CASE Signal
    <2>1. /\ UNCHANGED <<CYCLES, meter, truth, i>>
          /\ phase' = phase \/ (phase' = "killed" /\ ~ installed)
      BY <1>5 DEF Signal, controlVars
    <2>2. phase' = "execute" <=> phase = "execute"
      BY <2>1 DEF FrameInv
    <2> QED
      BY <2>1, <2>2, MeterIdle
  <1>6. CASE UNCHANGED monitorVars
    <2>1. UNCHANGED <<CYCLES, meter, truth, i, phase>>
      BY <1>6 DEF monitorVars, controlVars
    <2> QED
      BY <2>1, MeterIdle
  <1> QED
    BY <1>1, <1>2, <1>3, <1>4, <1>5, <1>6 DEF MonitorNext, Process

\* No displayed speed is an artefact of the 32-bit counter: for every length of
\* the history, every cost of instructions and every timing of the updates the
\* average, the current speed and the lows lie between true rates.
THEOREM SpeedCorrect == MonitorSpec => []SpeedIsReal
  <1>1. MonitorInit => FrameInv /\ MeterInv
    BY FrameInit, MeterInit
  <1>2. FrameInv /\ MeterInv /\ [MonitorNext]_monitorVars
          => FrameInv' /\ MeterInv'
    BY FrameNext, MeterNext
  <1>3. MeterInv => SpeedIsReal
    <2> SUFFICES ASSUME MeterInv PROVE SpeedIsReal
      OBVIOUS
    <2>1. /\ meter.history \in [Ring -> Nat] /\ meter.idx \in Ring
          /\ \A k \in Ring : Valid(meter.history[k]) =>
                               meter.history[k] = truth.rate[k]
          /\ meter.current_mhz # 0 => Real(meter.current_mhz, truth.rate)
      BY DEF MeterInv, MeterType
    <2>2. \A x \in Panel(meter.history, meter.idx) : Real(x, truth.rate)
      BY <2>1, PanelReal
    <2> QED
      BY <2>1, <2>2 DEF SpeedIsReal, Real
  <1> QED
    BY <1>1, <1>2, <1>3, PTL DEF MonitorSpec
=============================================================================
