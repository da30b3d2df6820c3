----------------------------- MODULE FlatMemory -----------------------------
(***************************************************************************)
(* What the memory system promises: an address space whose every cell is   *)
(* of one kind and, if it is RAM or ROM, holds one byte.  A kind is given  *)
(* to a run of unused cells and lost only when everything is cleared; a    *)
(* bus write reaches RAM only; loading reaches RAM and ROM, in a run.      *)
(***************************************************************************)
EXTENDS Integers

CONSTANTS AddrSpace, FlatByte

VARIABLES
  kind,         \* the kind of every cell
  val,          \* the byte of every RAM and ROM cell (255 elsewhere)
  op            \* the operation that made the last step

flatVars == <<kind, val, op>>

Cells == 0 .. AddrSpace - 1

FlatInit ==
  /\ kind = [a \in Cells |-> "none"]
  /\ val = [a \in Cells |-> 255]
  /\ op = "none"

\* A run of unused cells becomes RAM or ROM full of zeros, or I/O.
Map ==
  /\ op' = "add"
  /\ \E lo, hi \in Cells, k \in {"RAM", "ROM", "IO"} :
       /\ lo <= hi
       /\ \A a \in lo .. hi : kind[a] = "none"
       /\ kind' = [a \in Cells |-> IF a \in lo .. hi THEN k ELSE kind[a]]
       /\ val' = [a \in Cells |->
                    IF a \in lo .. hi /\ k # "IO" THEN 0 ELSE val[a]]

Clear ==
  /\ op' = "clear"
  /\ kind' = [a \in Cells |-> "none"]
  /\ val' = [a \in Cells |-> 255]

BusWrite ==
  /\ op' = "bus_write" /\ UNCHANGED kind
  /\ \E a \in Cells, b \in FlatByte :
       /\ kind[a] = "RAM"
       /\ val' = [val EXCEPT ![a] = b]

\* New bytes in a run of RAM and ROM cells; the run may wrap around.
Store ==
  /\ op' \in {"load", "set_vector", "load_bin"}
  /\ UNCHANGED kind
  /\ val' \in [Cells -> FlatByte \cup {255}]
  /\ \E a \in Cells, n \in 0 .. AddrSpace :
       LET run == {(a + k) % AddrSpace : k \in 0 .. n - 1}
       IN  /\ \A b \in run : kind[b] \in {"RAM", "ROM"}
           /\ \A b \in Cells \ run : val'[b] = val[b]

\* A rejected call, or a write that reaches nothing.
Rejected ==
  /\ op' \in {"add", "bus_write", "init", "set_vector", "load_bin"}
  /\ UNCHANGED <<kind, val>>

FlatNext == Rejected \/ Map \/ Clear \/ BusWrite \/ Store

FlatSpec == FlatInit /\ [][FlatNext]_flatVars
=============================================================================
