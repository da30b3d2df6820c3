------------------------------ MODULE Debugger ------------------------------
(***************************************************************************)
(* src/debugger.c: the tables of breakpoints and watchpoints, the labels   *)
(* they own on the heap, the profiler and the debugger's switches, called  *)
(* by a host in any order while the CPU changes memory.                    *)
(*                                                                         *)
(* A table is the whole C array: slots behind the count keep what was last *)
(* in them.  A label is a pointer, 0 for NULL; heap holds the text behind  *)
(* each pointer malloc gave out and free has not taken back.               *)
(***************************************************************************)
EXTENDS Inspection, FiniteSets

CONSTANTS
  MAX_BREAKPOINTS, MAX_WATCHPOINTS,     \* 32 and 16
  Types,                                \* the BP_TYPEs the host uses
  Pointers,                             \* what malloc can return
  Name,                                 \* address |-> the label it is given
  Value,                                \* the bytes in memory
  MaxCount,                             \* where the profiler's counts stop
  Hosts                                 \* sets of features a host uses

ASSUME DebuggerAssumption ==
  /\ MAX_BREAKPOINTS \in Nat /\ MAX_WATCHPOINTS \in Nat
  /\ 0 \notin Pointers /\ 0 \in Value
  /\ DOMAIN Name \subseteq 0 .. SPACE - 1

VARIABLES
  breakpoints, breakpoint_count,
  watchpoints, watchpoint_count,
  heap,                         \* pointer |-> text
  leaked,                       \* history: blocks nothing points to any more
  profiling_enabled,
  prof_data,                    \* address_exec_counts
  interactive_mode, debugger_paused,
  memory,
  host                          \* the features this host uses

tableVars == <<breakpoints, breakpoint_count, watchpoints, watchpoint_count,
               heap, leaked>>
profVars == <<profiling_enabled, prof_data>>
modeVars == <<interactive_mode, debugger_paused>>
debuggerVars == <<tableVars, profVars, modeVars, memory, host>>

Space == 0 .. SPACE - 1

ZeroSlot == [enabled |-> 0, type |-> "EXEC", addr |-> 0, old_value |-> 0,
             label |-> 0]

ZeroTable(size) == [i \in 0 .. size - 1 |-> ZeroSlot]

ZeroCounts == [a \in Space |-> 0]

DebuggerInit ==
  /\ breakpoints = ZeroTable(MAX_BREAKPOINTS) /\ breakpoint_count = 0
  /\ watchpoints = ZeroTable(MAX_WATCHPOINTS) /\ watchpoint_count = 0
  /\ heap = << >> /\ leaked = {}
  /\ profiling_enabled = 0 /\ prof_data = ZeroCounts
  /\ interactive_mode = 0 /\ debugger_paused = 0
  /\ memory \in [Space -> {0}]
  /\ host \in Hosts

----------------------------------------------------------------------------
(* Labels and tables *)

LabelsOf(table, count) ==
  {table[i].label : i \in 0 .. count - 1} \ {0}

Without(blocks) == [p \in DOMAIN heap \ blocks |-> heap[p]]

\* _strdup: a new block, or NULL when malloc fails.
strdup(text, p) ==
  \/ /\ p \in Pointers \ DOMAIN heap
     /\ \A q \in Pointers \ DOMAIN heap : p <= q
     /\ heap' = [q \in DOMAIN heap \cup {p} |->
                   IF q = p THEN text ELSE heap[q]]
  \/ p = 0 /\ UNCHANGED heap

\* The label argument of an add: NULL, or a text to be copied.
NewLabel(addr, p) == (p = 0 /\ UNCHANGED heap) \/ strdup(Name[addr], p)

\* Mutant: the loop copies one slot too few.
ShiftDown_short(table, count, index) ==
  [i \in DOMAIN table |-> IF index <= i /\ i < count - 2 THEN table[i + 1]
                                                         ELSE table[i]]

\* The loop of a removal: slot count - 1 keeps its contents.
ShiftDown(table, count, index) ==
  [i \in DOMAIN table |-> IF index <= i /\ i < count - 1 THEN table[i + 1]
                                                         ELSE table[i]]

\* The loop of debugger_cleanup.
Unlabelled(table, count) ==
  [i \in DOMAIN table |-> IF i < count THEN [table[i] EXCEPT !.label = 0]
                                       ELSE table[i]]

----------------------------------------------------------------------------
(* Initialization and cleanup *)

debugger_init ==
  /\ breakpoints' = ZeroTable(MAX_BREAKPOINTS) /\ breakpoint_count' = 0
  /\ watchpoints' = ZeroTable(MAX_WATCHPOINTS) /\ watchpoint_count' = 0
  /\ leaked' = leaked \cup LabelsOf(breakpoints, breakpoint_count)
                      \cup LabelsOf(watchpoints, watchpoint_count)
  /\ profiling_enabled' = 1 /\ prof_data' = ZeroCounts
  /\ UNCHANGED <<heap, modeVars, memory, host>>

\* Mutant: the labels of the watchpoints are forgotten.
debugger_cleanup_breakpoints ==
  /\ heap' = Without(LabelsOf(breakpoints, breakpoint_count))
  /\ breakpoints' = Unlabelled(breakpoints, breakpoint_count)
  /\ watchpoints' = Unlabelled(watchpoints, watchpoint_count)
  /\ breakpoint_count' = 0 /\ watchpoint_count' = 0
  /\ UNCHANGED <<leaked, profVars, modeVars, memory, host>>

debugger_cleanup ==
  /\ heap' = Without(LabelsOf(breakpoints, breakpoint_count)
                     \cup LabelsOf(watchpoints, watchpoint_count))
  /\ breakpoints' = Unlabelled(breakpoints, breakpoint_count)
  /\ watchpoints' = Unlabelled(watchpoints, watchpoint_count)
  /\ breakpoint_count' = 0 /\ watchpoint_count' = 0
  /\ UNCHANGED <<leaked, profVars, modeVars, memory, host>>

----------------------------------------------------------------------------
(* Breakpoints *)

Untouched_by_breakpoints == <<watchpoints, watchpoint_count, leaked, profVars,
                              modeVars, memory, host>>

debugger_add_breakpoint(type, addr) ==
  /\ breakpoint_count < MAX_BREAKPOINTS
  /\ \E p \in Pointers \cup {0} :
       /\ NewLabel(addr, p)
       /\ breakpoints' = [breakpoints EXCEPT ![breakpoint_count] =
            [enabled |-> 1, type |-> type, addr |-> addr, old_value |-> 0,
             label |-> p]]
  /\ breakpoint_count' = breakpoint_count + 1
  /\ UNCHANGED Untouched_by_breakpoints

debugger_remove_breakpoint(index) ==
  /\ index < breakpoint_count
  /\ heap' = Without({breakpoints[index].label})
  /\ breakpoints' = ShiftDown(breakpoints, breakpoint_count, index)
  /\ breakpoint_count' = breakpoint_count - 1
  /\ UNCHANGED Untouched_by_breakpoints

debugger_enable_breakpoint(index, enabled) ==
  /\ index < breakpoint_count
  /\ breakpoints' = [breakpoints EXCEPT ![index].enabled = enabled]
  /\ UNCHANGED <<breakpoint_count, heap, Untouched_by_breakpoints>>

debugger_clear_breakpoints ==
  /\ heap' = Without(LabelsOf(breakpoints, breakpoint_count))
  /\ breakpoints' = ZeroTable(MAX_BREAKPOINTS) /\ breakpoint_count' = 0
  /\ UNCHANGED Untouched_by_breakpoints

\* Mutant: the loop looks at one slot too many.
debugger_check_breakpoint_stale(type, addr) ==
  LET hits == {i \in DOMAIN breakpoints :
                 /\ i <= breakpoint_count
                 /\ breakpoints[i].enabled # 0
                 /\ breakpoints[i].addr = addr
                 /\ breakpoints[i].type \in {type, "ACCESS"}}
  IN  IF hits = {} THEN -1 ELSE CHOOSE i \in hits : \A j \in hits : i <= j

\* The number of the breakpoint that is hit, -1 for none.
debugger_check_breakpoint(type, addr) ==
  LET hits == {i \in 0 .. breakpoint_count - 1 :
                 /\ breakpoints[i].enabled # 0
                 /\ breakpoints[i].addr = addr
                 /\ breakpoints[i].type \in {type, "ACCESS"}}
  IN  IF hits = {} THEN -1 ELSE CHOOSE i \in hits : \A j \in hits : i <= j

----------------------------------------------------------------------------
(* Watchpoints *)

Untouched_by_watchpoints == <<breakpoints, breakpoint_count, leaked, profVars,
                              modeVars, memory, host>>

debugger_add_watchpoint(addr) ==
  /\ watchpoint_count < MAX_WATCHPOINTS
  /\ \E p \in Pointers \cup {0} :
       /\ NewLabel(addr, p)
       /\ watchpoints' = [watchpoints EXCEPT ![watchpoint_count] =
            [enabled |-> 1, type |-> "EXEC", addr |-> addr,
             old_value |-> memory[addr], label |-> p]]
  /\ watchpoint_count' = watchpoint_count + 1
  /\ UNCHANGED Untouched_by_watchpoints

debugger_remove_watchpoint(index) ==
  /\ index < watchpoint_count
  /\ heap' = Without({watchpoints[index].label})
  /\ watchpoints' = ShiftDown(watchpoints, watchpoint_count, index)
  /\ watchpoint_count' = watchpoint_count - 1
  /\ UNCHANGED Untouched_by_watchpoints

debugger_enable_watchpoint(index, enabled) ==
  /\ index < watchpoint_count
  /\ watchpoints' = [watchpoints EXCEPT ![index].enabled = enabled]
  /\ UNCHANGED <<watchpoint_count, heap, Untouched_by_watchpoints>>

debugger_clear_watchpoints ==
  /\ heap' = Without(LabelsOf(watchpoints, watchpoint_count))
  /\ watchpoints' = ZeroTable(MAX_WATCHPOINTS) /\ watchpoint_count' = 0
  /\ UNCHANGED Untouched_by_watchpoints

\* Mutant: disabled watchpoints are brought up to date as well.
debugger_check_watchpoints_all ==
  /\ watchpoints' = [i \in DOMAIN watchpoints |->
       IF i < watchpoint_count
       THEN [watchpoints[i] EXCEPT !.old_value = memory[watchpoints[i].addr]]
       ELSE watchpoints[i]]
  /\ UNCHANGED <<watchpoint_count, heap, Untouched_by_watchpoints>>

\* Reports and remembers every new value.
debugger_check_watchpoints ==
  /\ watchpoints' = [i \in DOMAIN watchpoints |->
       IF i < watchpoint_count /\ watchpoints[i].enabled # 0
       THEN [watchpoints[i] EXCEPT !.old_value = memory[watchpoints[i].addr]]
       ELSE watchpoints[i]]
  /\ UNCHANGED <<watchpoint_count, heap, Untouched_by_watchpoints>>

----------------------------------------------------------------------------
(* Profiler and switches *)

profiler_record_instruction(pc) ==
  /\ prof_data[pc] < MaxCount
  /\ prof_data' = IF profiling_enabled = 0 THEN prof_data
                  ELSE [prof_data EXCEPT ![pc] = @ + 1]
  /\ UNCHANGED <<profiling_enabled, tableVars, modeVars, memory, host>>

profiler_reset ==
  /\ prof_data' = ZeroCounts
  /\ UNCHANGED <<profiling_enabled, tableVars, modeVars, memory, host>>

debugger_set_interactive(enabled) ==
  /\ interactive_mode' = enabled
  /\ UNCHANGED <<debugger_paused, tableVars, profVars, memory, host>>

\* debugger_step and debugger_continue
debugger_continue ==
  /\ debugger_paused' = 0
  /\ UNCHANGED <<interactive_mode, tableVars, profVars, memory, host>>

\* The CPU, or anyone else, changes a byte.
Poke(addr, v) ==
  /\ memory' = [memory EXCEPT ![addr] = v]
  /\ UNCHANGED <<tableVars, profVars, modeVars, host>>

----------------------------------------------------------------------------
Breaking ==
  \/ \E type \in Types, addr \in DOMAIN Name :
       debugger_add_breakpoint(type, addr)
  \/ \E index \in 0 .. MAX_BREAKPOINTS - 1 : debugger_remove_breakpoint(index)
  \/ debugger_clear_breakpoints

Watching ==
  \/ \E addr \in DOMAIN Name : debugger_add_watchpoint(addr)
  \/ \E index \in 0 .. MAX_WATCHPOINTS - 1 : debugger_remove_watchpoint(index)
  \/ debugger_clear_watchpoints

Toggling ==
  \E enabled \in {0, 1} :
    \/ \E index \in 0 .. MAX_BREAKPOINTS - 1 :
         debugger_enable_breakpoint(index, enabled)
    \/ \E index \in 0 .. MAX_WATCHPOINTS - 1 :
         debugger_enable_watchpoint(index, enabled)

Checking ==
  \/ debugger_check_watchpoints
  \/ \E addr \in DOMAIN Name, v \in Value : Poke(addr, v)

Profiling ==
  \/ \E pc \in Space : profiler_record_instruction(pc)
  \/ profiler_reset

Inspecting ==
  \/ \E addr \in Space, v \in Value : Poke(addr, v)
  \/ \E enabled \in {0, 1} : debugger_set_interactive(enabled)
  \/ debugger_continue

DebuggerNext ==
  \/ debugger_init
  \/ debugger_cleanup
  \/ "break" \in host /\ Breaking
  \/ "watch" \in host /\ Watching
  \/ "toggle" \in host /\ Toggling
  \/ "check" \in host /\ Checking
  \/ "profile" \in host /\ Profiling
  \/ "inspect" \in host /\ Inspecting

DebuggerSpec == DebuggerInit /\ [][DebuggerNext]_debuggerVars

----------------------------------------------------------------------------
(* Properties *)

\* The used part of a table, with the text a listing shows for each label.
Listed(table, count) ==
  [i \in 1 .. count |->
     LET s == table[i - 1]
     IN  [addr |-> s.addr, type |-> s.type, enabled |-> s.enabled,
          seen |-> s.old_value,
          label |-> IF s.label = 0 THEN "none"
                    ELSE IF s.label \in DOMAIN heap THEN heap[s.label]
                    ELSE "freed"]]

Breaks == INSTANCE PointList WITH
            MaxPoints <- MAX_BREAKPOINTS,
            points <- Listed(breakpoints, breakpoint_count),
            value <- ZeroCounts

Watches == INSTANCE PointList WITH
             MaxPoints <- MAX_WATCHPOINTS,
             points <- Listed(watchpoints, watchpoint_count),
             value <- memory

\* The shifting array is a numbered list: removing, disabling and clearing
\* breakpoints never changes, drops or relabels another one, whatever is left
\* behind in the slots, and the point that a call removes or switches is the
\* one whose number it gives.
ImplementsBreakpointList ==
  /\ Breaks!ListSpec
  /\ [][\A index \in 0 .. MAX_BREAKPOINTS - 1 :
          /\ debugger_remove_breakpoint(index) => Breaks!RemovePoint(index + 1)
          /\ \A enabled \in {0, 1} :
               debugger_enable_breakpoint(index, enabled)
                 => Breaks!EnablePoint(index + 1, enabled)]_debuggerVars

\* So is the array of watchpoints; a watchpoint reports against the value of
\* the moment it was set or last reported, also when it was disabled and its
\* slot moved in between.
ImplementsWatchpointList ==
  /\ Watches!ListSpec
  /\ [][\A index \in 0 .. MAX_WATCHPOINTS - 1 :
          /\ debugger_remove_watchpoint(index) => Watches!RemovePoint(index + 1)
          /\ \A enabled \in {0, 1} :
               debugger_enable_watchpoint(index, enabled)
                 => Watches!EnablePoint(index + 1, enabled)]_debuggerVars

\* Every label on the heap belongs to exactly one point in use, so no removal,
\* clear or cleanup frees a block twice, and none is lost but the ones that
\* debugger_init forgets.
LabelsOwned ==
  LET broken  == {<<"b", i>> : i \in 0 .. breakpoint_count - 1}
      watched == {<<"w", i>> : i \in 0 .. watchpoint_count - 1}
      label(s) == IF s[1] = "b" THEN breakpoints[s[2]].label
                                ELSE watchpoints[s[2]].label
      owners(p) == {s \in broken \cup watched : label(s) = p}
  IN  /\ \A s \in broken \cup watched : label(s) \in DOMAIN heap \cup {0}
      /\ \A p \in DOMAIN heap :
           IF p \in leaked THEN owners(p) = {}
                           ELSE \E s \in owners(p) : owners(p) = {s}

Stops(type, addr) == debugger_check_breakpoint(type, addr) # -1

\* Point number index lies at addr.
LiesAt(index, addr) ==
  index < breakpoint_count /\ breakpoints[index].addr = addr

\* What a check at an address answers changes only by a call about a point at
\* that address: it starts to stop when one is added or switched on there, and
\* no longer stops when one there is removed or switched off, or all are
\* cleared.  Points elsewhere may come, go and move through the slots.
ChecksFollowCalls ==
  [][\A type \in {"EXEC", "READ", "WRITE"}, addr \in Space :
       /\ ~ Stops(type, addr) /\ Stops(type, addr)' =>
            \/ \E t \in Types : debugger_add_breakpoint(t, addr)
            \/ \E index \in 0 .. MAX_BREAKPOINTS - 1 :
                 LiesAt(index, addr) /\ debugger_enable_breakpoint(index, 1)
       /\ Stops(type, addr) /\ ~ Stops(type, addr)' =>
            \/ debugger_clear_breakpoints \/ debugger_cleanup \/ debugger_init
            \/ \E index \in 0 .. MAX_BREAKPOINTS - 1 :
                 /\ LiesAt(index, addr)
                 /\ \/ debugger_remove_breakpoint(index)
                    \/ debugger_enable_breakpoint(index, 0)]_debuggerVars

\* The reading functions are tried by the hosts that inspect: the tables and
\* the profiler do not matter to them.
Reads == IF "inspect" \in host THEN Space ELSE {}

\* The places in start .. end where the pattern fits and matches.
Occurrences(start, end, pattern) ==
  {a \in start .. end : /\ a + Len(pattern) - 1 <= end
                        /\ Matches(memory, pattern, a)}

\* A search finds every occurrence inside the range, the one that ends at its
\* last byte included, and none outside, provided the pattern is no longer
\* than end + 1 bytes: beyond that the unsigned bound wraps.
SearchIsExact ==
  \A start, end \in Reads, n \in 1 .. 3 :
    \A pattern \in [1 .. n -> Value] :
      n <= end + 1 =>
        debugger_search_memory(memory, start, end, pattern)
          = Occurrences(start, end, pattern)

\* The first top_n passes of the exchange sort put the most executed addresses
\* in front, most executed first, each with its own count.
HotspotsAreTop ==
  \A top_n \in 0 .. SPACE :
    LET shown  == profiler_dump_hotspots(prof_data, top_n)
        active == {a \in Space : prof_data[a] > 0}
        listed == {shown[i].addr : i \in DOMAIN shown}
    IN  /\ Cardinality(listed) = Len(shown)
        /\ Len(shown) = IF top_n < Cardinality(active) THEN top_n
                                                       ELSE Cardinality(active)
        /\ \A i \in DOMAIN shown :
             /\ shown[i].count = prof_data[shown[i].addr]
             /\ \A a \in active \ {shown[k].addr : k \in 1 .. i} :
                  prof_data[a] <= shown[i].count
=============================================================================
