------------------------------- MODULE MCHost -------------------------------
(***************************************************************************)
(* A host that drives every entry point of the CPU between any two steps   *)
(* of a program that waits, breaks and stops:                              *)
(*   8000 TXS     X is 0: the frame of an interrupt wraps in page 1        *)
(*   8001 CLI                                                              *)
(*   8002 $CB     WAI on the 65C02, a NOP on the NMOS 6502                 *)
(*   8003 BRK                                                              *)
(*   8005 $DB     STP on the 65C02, a three-byte NOP on the NMOS 6502      *)
(*   8008 $42     KIL on the NMOS 6502, a two-byte NOP on the 65C02        *)
(*   800A JMP 8001                                                         *)
(*   8010 RTI     the handler of every vector                              *)
(***************************************************************************)
EXTENDS Cpu6502

CONSTANT StackFloor    \* the host rests while the stack is deeper

MCRAM == {\h0100} \cup (\h01F0 .. \h01FF)

MCROM == [a \in (\h8000 .. \h8010) \cup (\hFFFA .. \hFFFF) |->
  CASE a \in \h8000 .. \h800C ->
         << \h9A, \h58, \hCB, \h00, \hEA, \hDB, \hEA, \hEA, \h42, \hEA,
            \h4C, \h01, \h80 >>[a - \h7FFF]
    [] a \in \hFFFA .. \hFFFF ->
         << \h10, \h80, \h00, \h80, \h10, \h80 >>[a - \hFFF9]
    [] OTHER -> \h40]

MCImages == {[a \in MCRAM |-> 0]}

\* S counts down through 0 to 0xFF: half a page counts as above the floor.
HostNext == cpu_step \/ (MEM_WORD(REG.S - StackFloor) < 128 /\ Host)

HostSpec == Init /\ [][HostNext]_vars
=============================================================================
