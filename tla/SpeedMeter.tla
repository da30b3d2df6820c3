----------------------------- MODULE SpeedMeter -----------------------------
(***************************************************************************)
(* The speed display of src/tui_monitor.c as operators: the sample of an   *)
(* interval, the average of monitor_state_update and the numbers of the    *)
(* Performance panel.  history is the array, idx where the next sample     *)
(* goes.  Rates are whole cycles per second.                               *)
(***************************************************************************)
EXTENDS Integers, Sequences, SequencesExt, FiniteSets

CONSTANTS
  CYCLES_MOD,           \* 2^32: CYCLES
  UINT64,               \* 2^64: the arithmetic of the samples
  SECOND,               \* 1000 ms
  RATE_LIMIT,           \* 100000000: rates from here on are not believed
  CYCLE_HISTORY_SIZE,   \* 300
  AVERAGED,             \* 30: samples_to_avg
  PERCENT,              \* 100
  MAX_ELAPSED           \* the longest time between two samples, in ms

\* A difference that wrapped is beyond the limit, for all intervals short of
\* years.
ASSUME MeterAssumption ==
  /\ CYCLE_HISTORY_SIZE \in Nat \ {0} /\ AVERAGED \in Nat
  /\ PERCENT \in Nat \ {0}
  /\ CYCLES_MOD \in Nat \ {0} /\ UINT64 \in Nat \ {0}
  /\ SECOND \in Nat \ {0} /\ RATE_LIMIT \in Nat \ {0} /\ MAX_ELAPSED \in Nat
  /\ UINT64 - (CYCLES_MOD - 1) * SECOND >= RATE_LIMIT * MAX_ELAPSED

Ring == 0 .. CYCLE_HISTORY_SIZE - 1

\* cycles_per_second; total and last are copies of the 32-bit CYCLES.
Rate(total, last, elapsed_ms) ==
  ((((total - last) % UINT64) * SECOND) % UINT64) \div elapsed_ms

\* Mutant: a rate beyond the limit is believed.
Valid_unbounded(rate) == rate > 0

Valid(rate) == rate > 0 /\ rate < RATE_LIMIT

\* The sample i places before the newest.
Back(idx, i) == (idx - 1 - i + CYCLE_HISTORY_SIZE) % CYCLE_HISTORY_SIZE

\* A loop over n samples: the sum and the number of the valid ones.
Tally(samples, n) ==
  LET t[k \in 0 .. n] ==
        IF k = 0 THEN [sum |-> 0, count |-> 0]
        ELSE IF Valid(samples[k])
        THEN [sum |-> t[k - 1].sum + samples[k], count |-> t[k - 1].count + 1]
        ELSE t[k - 1]
  IN  t[n]

\* Entry m of the sorted valid ones, from 1: the least that m do not exceed.
Sorted(samples, n, m) ==
  LET valid   == {k \in 1 .. n : Valid(samples[k])}
      UpTo(x) == {k \in valid : samples[k] <= x}
      enough  == {x \in {samples[k] : k \in valid} : Cardinality(UpTo(x)) >= m}
  IN  CHOOSE x \in enough : \A y \in enough : x <= y

\* current_mhz: the average of the newest valid samples, 0 without any.
Average(history, idx) ==
  LET n == IF AVERAGED < CYCLE_HISTORY_SIZE THEN AVERAGED
                                            ELSE CYCLE_HISTORY_SIZE
      t == Tally([k \in 1 .. n |-> history[Back(idx, k - 1)]], n)
  IN  IF t.count = 0 THEN 0 ELSE t.sum \div t.count

\* The numbers draw_execution_history shows: none without a valid sample.
\* The 0.1% low needs 1000 samples, more than there are, and is the minimum.
Panel(history, idx) ==
  LET samples == [k \in 1 .. CYCLE_HISTORY_SIZE |-> history[k - 1]]
      t       == Tally(samples, CYCLE_HISTORY_SIZE)
      Low(m)  == Sorted(samples, CYCLE_HISTORY_SIZE, m)
      newest  == history[Back(idx, 0)]
      one     == IF t.count < PERCENT THEN 1
                 ELSE IF t.count \div PERCENT < t.count
                      THEN (t.count \div PERCENT) + 1 ELSE t.count
  IN  IF t.count = 0 THEN {}
      ELSE {IF Valid(newest) THEN newest ELSE Low(t.count),     \* Curr
            t.sum \div t.count,                                 \* Avg
            Low(one),                                           \* 1%
            Low(1)}                                             \* .1%
=============================================================================
