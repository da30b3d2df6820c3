------------------------------ MODULE Programs ------------------------------
(***************************************************************************)
(* RAM images for single-instruction runs: a prologue that sets the        *)
(* registers, then the instruction.                                        *)
(*   0200 LDA #p    0203 LDX #x    0207 LDA #a     020A op b1 b2           *)
(*   0202 PHA       0205 LDY #y    0209 PLP                                *)
(* The zero page holds a pointer and its wrap-around, the stack page the   *)
(* cells the prologue and one interrupt use.                               *)
(***************************************************************************)
EXTENDS Types6502, Sequences

PrologueSteps == 6

ZeroPageCells == {\h00, \h10, \h11, \hFF}
StackCells == \h01FA .. \h01FF
CodeCells == \h0200 .. \h020C

ProgramRAM == ZeroPageCells \cup StackCells \cup CodeCells \cup {\h02FF, \h0310}

VectorROM == [a \in \hFFFA .. \hFFFF |-> IF a % 2 = 0 THEN \h00 ELSE \h02]

\* The pages the pointers point to: $0310 through ($10), $02FF through ($FF).
Cell(a) ==
  CASE a = \h10 -> \h10
    [] a = \h11 -> \h03
    [] a = \hFF -> \hFF
    [] a = \h00 -> \h02
    [] a = \h0310 -> \h80
    [] OTHER -> \h45

Image(op, p, a, x, operand) ==
  LET code == << \hA9, p, \h48, \hA2, x, \hA0, x, \hA9, a, \h28, op,
                 operand[1], operand[2] >>
  IN  [c \in ProgramRAM |->
         IF c \in CodeCells THEN code[c - \h01FF] ELSE Cell(c)]

\* Status bytes, accumulators, indices and operands that reach both outcomes
\* of every flag, page crossings, wrap-arounds and decimal mode.
ImagesOf(ops, ps, as, xs, operands) ==
  {Image(op, p, a, x, w) :
     op \in ops, p \in ps, a \in as, x \in xs, w \in operands}
=============================================================================
