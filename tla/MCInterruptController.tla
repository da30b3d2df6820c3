----------------------- MODULE MCInterruptController -----------------------
(* A ring of 2 events, counters modulo 2, one program counter, I set or not. *)
EXTENDS InterruptController

MCPcs == {\h8000}
MCStatuses == {{}, {"I"}}
=============================================================================
