---------------------------- MODULE Instructions ----------------------------
(***************************************************************************)
(* src/instructions_implementation.c: what a handler computes, as          *)
(* operators on the register file r and the operand byte m.  The handlers  *)
(* that only change registers return the new register file; those that     *)
(* read, modify and write memory return the byte written with it.  The     *)
(* handlers that touch the stack, the program counter or the halt flags    *)
(* are actions of Cpu6502.                                                 *)
(***************************************************************************)
EXTENDS Types6502

set_zn(p, v) == PutFlag(PutFlag(p, "Z", v = 0), "N", v >= 128)

Carry(r) == IF "C" \in r.P THEN 1 ELSE 0

SetA(r, v) == [r EXCEPT !.A = v, !.P = set_zn(@, v)]
SetX(r, v) == [r EXCEPT !.X = v, !.P = set_zn(@, v)]
SetY(r, v) == [r EXCEPT !.Y = v, !.P = set_zn(@, v)]

----------------------------------------------------------------------------
(* Addition and subtraction *)

\* Mutant: any change of sign is an overflow.
AdcOverflow_sign_change(a, v, sum) == Bit(a, 7) # Bit(sum, 7)

\* ~(a ^ v) & (a ^ sum) & 0x80
AdcOverflow(a, v, sum) == /\ Bit(a, 7) = Bit(v, 7)
                          /\ Bit(a, 7) # Bit(sum, 7)

\* (a ^ v) & (a ^ sub) & 0x80
SbcOverflow(a, v, sub) == /\ Bit(a, 7) # Bit(v, 7)
                          /\ Bit(a, 7) # Bit(sub, 7)

\* Mutant: N and Z always come from the adjusted result.
Arith_adjusted_zn(r, variant, res, binary, carry, overflow) ==
  LET p == PutFlag(PutFlag(r.P, "C", carry), "V", overflow)
  IN  [r EXCEPT !.A = res, !.P = set_zn(p, res)]

\* Mutant: the decimal adjustment is lost, the binary result is stored.
Arith_unadjusted(r, variant, res, binary, carry, overflow) ==
  LET p == PutFlag(PutFlag(r.P, "C", carry), "V", overflow)
  IN  [r EXCEPT !.A = MEM_WORD(binary), !.P = set_zn(p, MEM_WORD(binary))]

\* Mutant: in NMOS decimal mode C is the binary carry.
Arith_binary_carry(r, variant, res, binary, carry, overflow) ==
  LET nmos == "D" \in r.P /\ variant = NMOS
      p == PutFlag(PutFlag(r.P, "C", IF nmos THEN binary > 255 ELSE carry),
                   "V", overflow)
  IN  [r EXCEPT !.A = res,
                !.P = set_zn(p, IF nmos THEN MEM_WORD(binary) ELSE res)]

\* The tail both cores share: A := res, C and V as given, N and Z from the
\* adjusted result except in NMOS decimal mode (from the binary one).
Arith(r, variant, res, binary, carry, overflow) ==
  LET zn == IF "D" \in r.P /\ variant = NMOS THEN MEM_WORD(binary) ELSE res
      p  == PutFlag(PutFlag(r.P, "C", carry), "V", overflow)
  IN  [r EXCEPT !.A = res, !.P = set_zn(p, zn)]

adc_core(r, v, variant) ==
  LET a   == r.A
      sum == a + v + Carry(r)
      \* decimal digits, the low one carrying into the high one
      al0 == (a % 16) + (v % 16) + Carry(r)
      al  == IF al0 >= 10 THEN (al0 + 6) % 16 ELSE al0
      ah0 == (a \div 16) + (v \div 16) + (IF al0 >= 10 THEN 1 ELSE 0)
      ah  == IF ah0 >= 10 THEN ah0 + 6 ELSE ah0
      ovf == AdcOverflow(a, v, sum)
  IN  IF "D" \notin r.P
      THEN Arith(r, variant, MEM_WORD(sum), sum, sum > 255, ovf)
      ELSE Arith(r, variant, 16 * (ah % 16) + (al % 16), sum, ah >= 16, ovf)

sbc_core(r, v, variant) ==
  LET a   == r.A
      sub == a + (255 - v) + Carry(r)               \* v ^ 0xFF = 255 - v
      al0 == (a % 16) - (v % 16) - (1 - Carry(r))
      al  == IF al0 < 0 THEN (al0 - 6) % 16 ELSE al0
      ah0 == (a \div 16) - (v \div 16) - (IF al0 < 0 THEN 1 ELSE 0)
      ah  == IF ah0 < 0 THEN (ah0 - 6) % 16 ELSE ah0
      ovf == SbcOverflow(a, v, sub)
  IN  IF "D" \notin r.P
      THEN Arith(r, variant, MEM_WORD(sub), sub, sub > 255, ovf)
      ELSE Arith(r, variant, 16 * (ah % 16) + (al % 16), sub, sub > 255, ovf)

----------------------------------------------------------------------------
(* Compares, bit tests and the undocumented immediate operations *)

Compare(r, reg, m) ==
  [r EXCEPT !.P = set_zn(PutFlag(@, "C", reg >= m), MEM_WORD(reg - m))]

BIT(r, m, op) ==
  LET z == PutFlag(r.P, "Z", And8(r.A, m) = 0)
  IN  [r EXCEPT !.P = IF op = \h89 THEN z
                      ELSE PutFlag(PutFlag(z, "N", Bit(m, 7)), "V", Bit(m, 6))]

LAX(r, m) == [SetA(r, m) EXCEPT !.X = m]

ANC(r, m) == LET s == SetA(r, And8(r.A, m))
             IN  [s EXCEPT !.P = PutFlag(@, "C", Bit(s.A, 7))]

ALR(r, m) == LET a == And8(r.A, m)
                 s == SetA(r, a \div 2)
             IN  [s EXCEPT !.P = PutFlag(@, "C", Bit(a, 0))]

ARR(r, m) == LET s == SetA(r, (And8(r.A, m) \div 2) + 128 * Carry(r))
             IN  [s EXCEPT !.P = PutFlag(PutFlag(@, "C", Bit(s.A, 6)),
                                         "V", Bit(s.A, 6) # Bit(s.A, 5))]

----------------------------------------------------------------------------
\* The handlers that change registers only; m is HAS_EA ? bus_read(EA) : EA.
RegisterHandlers ==
  {"LDA", "LDX", "LDY", "LAX", "TAX", "TXA", "TAY", "TYA", "TSX", "TXS",
   "INX", "DEX", "INY", "DEY", "INC_A", "DEC_A", "AND", "ORA", "EOR",
   "ADC", "SBC", "ALT_SBC", "CLC", "SEC", "CLI", "SEI", "CLD", "SED", "CLV",
   "CMP", "CPX", "CPY", "BIT", "ANC", "ALR", "ARR",
   "NOP", "NOP_READ", "op_illegal"}

RegisterResult(h, r, m, op, variant) ==
  CASE h = "LDA" -> SetA(r, m)
    [] h = "LDX" -> SetX(r, m)
    [] h = "LDY" -> SetY(r, m)
    [] h = "LAX" -> LAX(r, m)
    [] h = "TAX" -> SetX(r, r.A)
    [] h = "TXA" -> SetA(r, r.X)
    [] h = "TAY" -> SetY(r, r.A)
    [] h = "TYA" -> SetA(r, r.Y)
    [] h = "TSX" -> SetX(r, r.S)
    [] h = "TXS" -> [r EXCEPT !.S = r.X]
    [] h = "INX" -> SetX(r, MEM_WORD(r.X + 1))
    [] h = "DEX" -> SetX(r, MEM_WORD(r.X - 1))
    [] h = "INY" -> SetY(r, MEM_WORD(r.Y + 1))
    [] h = "DEY" -> SetY(r, MEM_WORD(r.Y - 1))
    [] h = "INC_A" -> SetA(r, MEM_WORD(r.A + 1))
    [] h = "DEC_A" -> SetA(r, MEM_WORD(r.A - 1))
    [] h = "AND" -> SetA(r, And8(r.A, m))
    [] h = "ORA" -> SetA(r, Or8(r.A, m))
    [] h = "EOR" -> SetA(r, Xor8(r.A, m))
    [] h = "ADC" -> adc_core(r, m, variant)
    [] h \in {"SBC", "ALT_SBC"} -> sbc_core(r, m, variant)
    [] h = "CLC" -> [r EXCEPT !.P = @ \ {"C"}]
    [] h = "SEC" -> [r EXCEPT !.P = @ \cup {"C"}]
    [] h = "CLI" -> [r EXCEPT !.P = @ \ {"I"}]
    [] h = "SEI" -> [r EXCEPT !.P = @ \cup {"I"}]
    [] h = "CLD" -> [r EXCEPT !.P = @ \ {"D"}]
    [] h = "SED" -> [r EXCEPT !.P = @ \cup {"D"}]
    [] h = "CLV" -> [r EXCEPT !.P = @ \ {"V"}]
    [] h = "CMP" -> Compare(r, r.A, m)
    [] h = "CPX" -> Compare(r, r.X, m)
    [] h = "CPY" -> Compare(r, r.Y, m)
    [] h = "BIT" -> BIT(r, m, op)
    [] h = "ANC" -> ANC(r, m)
    [] h = "ALR" -> ALR(r, m)
    [] h = "ARR" -> ARR(r, m)
    [] OTHER -> r                        \* NOP, NOP_READ, op_illegal

----------------------------------------------------------------------------
(* Read-modify-write: v is the byte written back, r the registers after it *)

Rmw(v, r) == [v |-> v, r |-> r]

Shifted(r, v, carry) ==
  Rmw(v, [r EXCEPT !.P = set_zn(PutFlag(@, "C", carry), v)])

ASL(r, m) == Shifted(r, MEM_WORD(2 * m), Bit(m, 7))
LSR(r, m) == Shifted(r, m \div 2, Bit(m, 0))
ROL(r, m) == Shifted(r, MEM_WORD(2 * m) + Carry(r), Bit(m, 7))
ROR(r, m) == Shifted(r, (m \div 2) + 128 * Carry(r), Bit(m, 0))

INC(r, m) == LET v == MEM_WORD(m + 1) IN Rmw(v, [r EXCEPT !.P = set_zn(@, v)])
DEC(r, m) == LET v == MEM_WORD(m - 1) IN Rmw(v, [r EXCEPT !.P = set_zn(@, v)])

DCP(r, m) == LET v == MEM_WORD(m - 1) IN Rmw(v, Compare(r, r.A, v))
ISC(r, m, variant) ==
  LET v == MEM_WORD(m + 1) IN Rmw(v, sbc_core(r, v, variant))

\* The shift's carry stays; N and Z come from the accumulator.
SLO(r, m) == LET s == ASL(r, m) IN Rmw(s.v, SetA(s.r, Or8(r.A, s.v)))
RLA(r, m) == LET s == ROL(r, m) IN Rmw(s.v, SetA(s.r, And8(r.A, s.v)))
SRE(r, m) == LET s == LSR(r, m) IN Rmw(s.v, SetA(s.r, Xor8(r.A, s.v)))

\* ROR without its set_zn, then adc_core with the carry shifted out.
RRA(r, m, variant) ==
  LET v == (m \div 2) + 128 * Carry(r)
  IN  Rmw(v, adc_core([r EXCEPT !.P = PutFlag(@, "C", Bit(m, 0))], v, variant))

TestBits(r, m) == [r EXCEPT !.P = PutFlag(@, "Z", And8(r.A, m) = 0)]
TRB(r, m) == Rmw(AndNot8(m, r.A), TestBits(r, m))
TSB(r, m) == Rmw(Or8(m, r.A), TestBits(r, m))

\* The bit RMB, SMB, BBR and BBS work on: (OPCODE >> 4) & 7.
OpcodeBit(op) == (op \div 16) % 8
RMB(r, m, op) == Rmw(AndNot8(m, 2^OpcodeBit(op)), r)
SMB(r, m, op) == Rmw(Or8(m, 2^OpcodeBit(op)), r)

\* ASL, LSR, ROL and ROR also have an accumulator form.
ShiftHandlers == {"ASL", "LSR", "ROL", "ROR"}

RmwHandlers ==
  ShiftHandlers \cup {"INC", "DEC", "DCP", "ISC", "SLO", "RLA", "SRE", "RRA",
                      "TRB", "TSB", "RMB", "SMB"}

RmwResult(h, r, m, op, variant) ==
  CASE h = "ASL" -> ASL(r, m)
    [] h = "LSR" -> LSR(r, m)
    [] h = "ROL" -> ROL(r, m)
    [] h = "ROR" -> ROR(r, m)
    [] h = "INC" -> INC(r, m)
    [] h = "DEC" -> DEC(r, m)
    [] h = "DCP" -> DCP(r, m)
    [] h = "ISC" -> ISC(r, m, variant)
    [] h = "SLO" -> SLO(r, m)
    [] h = "RLA" -> RLA(r, m)
    [] h = "SRE" -> SRE(r, m)
    [] h = "RRA" -> RRA(r, m, variant)
    [] h = "TRB" -> TRB(r, m)
    [] h = "TSB" -> TSB(r, m)
    [] h = "RMB" -> RMB(r, m, op)
    [] h = "SMB" -> SMB(r, m, op)

----------------------------------------------------------------------------
(* Conditions and values the remaining handlers use *)

\* Does the conditional branch h go to its target?  m is the byte BBR and
\* BBS test.
Taken(h, p, m, op) ==
  CASE h = "BPL_" -> "N" \notin p
    [] h = "BMI_" -> "N" \in p
    [] h = "BVC_" -> "V" \notin p
    [] h = "BVS_" -> "V" \in p
    [] h = "BCC_" -> "C" \notin p
    [] h = "BCS_" -> "C" \in p
    [] h = "BNE_" -> "Z" \notin p
    [] h = "BEQ_" -> "Z" \in p
    [] h = "BRA_" -> TRUE
    [] h = "BBR_" -> ~ Bit(m, OpcodeBit(op))
    [] h = "BBS_" -> Bit(m, OpcodeBit(op))

BranchHandlers == {"BPL_", "BMI_", "BVC_", "BVS_", "BCC_", "BCS_", "BNE_",
                   "BEQ_", "BRA_", "BBR_", "BBS_"}

StoreHandlers == {"STA", "STX", "STY", "STZ", "SAX"}

StoredByte(h, r) ==
  CASE h = "STA" -> r.A
    [] h = "STX" -> r.X
    [] h = "STY" -> r.Y
    [] h = "STZ" -> 0
    [] h = "SAX" -> And8(r.A, r.X)

PushHandlers == {"PHA", "PHX", "PHY", "PHP"}

PushedByte(h, r) ==
  CASE h = "PHA" -> r.A
    [] h = "PHX" -> r.X
    [] h = "PHY" -> r.Y
    [] h = "PHP" -> PByte(r.P \cup {"B", "U"})

PullHandlers == {"PLA", "PLX", "PLY", "PLP"}

Pulled(h, r, b) ==
  CASE h = "PLA" -> SetA(r, b)
    [] h = "PLX" -> SetX(r, b)
    [] h = "PLY" -> SetY(r, b)
    [] h = "PLP" -> [r EXCEPT !.P = (PFlags(b) \ {"B"}) \cup {"U"}]
=============================================================================
