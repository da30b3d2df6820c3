----------------------------- MODULE Inspection -----------------------------
(***************************************************************************)
(* Two algorithms of src/debugger.c that only read: the search and the     *)
(* ranking of the profiler.  memory is a function on 0 .. SPACE - 1, where *)
(* SPACE is 0x10000; UINT32 is 2^32.                                       *)
(***************************************************************************)
EXTENDS Integers, Sequences

CONSTANTS
  SPACE,
  UINT32

ASSUME InspectionAssumption ==
  SPACE \in Nat \ {0} /\ UINT32 \in Nat /\ UINT32 >= 2 * SPACE

At(memory, a) == memory[a % SPACE]

\* pattern_len bytes from addr on, round the end of memory.
Matches(memory, pattern, addr) ==
  \A j \in DOMAIN pattern : At(memory, addr + j - 1) = pattern[j]

\* Mutant: the last place where the pattern fits is left out.
SearchBound_short(end, len) == (end - len) % UINT32

\* The last address tried; unsigned, so it wraps when the pattern is longer
\* than everything up to end.
SearchBound(end, len) == (end - len + 1) % UINT32

\* The addresses printed; their number is returned.
debugger_search_memory(memory, start, end, pattern) ==
  IF Len(pattern) = 0 THEN {}
  ELSE {i \in start .. SPACE - 1 :
          /\ i <= SearchBound(end, Len(pattern))
          /\ Matches(memory, pattern, i)}

----------------------------------------------------------------------------
(* profiler_dump_hotspots *)

\* The addresses that were executed, in ascending order, with their counts.
ActiveAddresses(counts) ==
  LET hotspots[k \in 0 .. SPACE] ==
        IF k = 0 THEN << >>
        ELSE IF counts[k - 1] > 0
        THEN Append(hotspots[k - 1], [addr |-> k - 1, count |-> counts[k - 1]])
        ELSE hotspots[k - 1]
  IN  hotspots[SPACE]

\* Mutant: the smaller count moves to the front.
Exchange_ascending(list, i, j) ==
  IF list[j].count < list[i].count
  THEN [list EXCEPT ![i] = list[j], ![j] = list[i]] ELSE list

Exchange(list, i, j) ==
  IF list[j].count > list[i].count
  THEN [list EXCEPT ![i] = list[j], ![j] = list[i]] ELSE list

\* The inner loop: entry i is compared with each of those behind it.
Pass(list, i) ==
  LET hotspots[k \in 0 .. Len(list) - i] ==
        IF k = 0 THEN list ELSE Exchange(hotspots[k - 1], i, i + k)
  IN  hotspots[Len(list) - i]

\* What is printed when malloc succeeds.
profiler_dump_hotspots(counts, top_n) ==
  LET active == ActiveAddresses(counts)
      limit  == IF top_n < Len(active) THEN top_n ELSE Len(active)
      hotspots[i \in 0 .. limit] ==
        IF i = 0 THEN active ELSE Pass(hotspots[i - 1], i)
  IN  SubSeq(hotspots[limit], 1, limit)
=============================================================================
