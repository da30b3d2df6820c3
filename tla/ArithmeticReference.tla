------------------------ MODULE ArithmeticReference ------------------------
(***************************************************************************)
(* The arithmetic of Instructions against a reference: the integers.  A    *)
(* behaviour fixes an accumulator and counts the operand through all       *)
(* bytes; the properties quantify over the carry and the variant.          *)
(***************************************************************************)
EXTENDS Instructions

VARIABLES accumulator, operand

avars == <<accumulator, operand>>

ArithmeticInit == accumulator \in Byte /\ operand = 0

NextOperand ==
  operand < 255 /\ operand' = operand + 1 /\ UNCHANGED accumulator

ArithmeticSpec == ArithmeticInit /\ [][NextOperand]_avars

----------------------------------------------------------------------------
(* The reference *)

\* Registers with the accumulator x and the flags p.
Registers(x, p) == [PC |-> 0, A |-> x, X |-> 0, Y |-> 0, S |-> 0, P |-> p]

Carries == {{}, {"C"}}
IsSet(p, f) == IF f \in p THEN 1 ELSE 0

IsBCD(b) == b % 16 < 10 /\ b \div 16 < 10
Decimal(b) == 10 * (b \div 16) + (b % 16)

ZNof(b) == {f \in {"Z", "N"} : (f = "Z" /\ b = 0) \/ (f = "N" /\ b >= 128)}

----------------------------------------------------------------------------
(* Properties *)

\* ADC, SBC and CMP of the bytes a and v with the flags c.
Binary(a, v, c, variant) ==
  LET cin  == IsSet(c, "C")
      add  == adc_core(Registers(a, c), v, variant)
      sub  == sbc_core(Registers(a, c), v, variant)
      sa   == SIGNED_MEM_WORD(a)
      sv   == SIGNED_MEM_WORD(v)
      Signed == -128 .. 127
  IN  /\ add.A + 256 * IsSet(add.P, "C") = a + v + cin
      /\ sub.A - 256 * (1 - IsSet(sub.P, "C")) = a - v - (1 - cin)
      /\ "V" \in add.P <=> sa + sv + cin \notin Signed
      /\ "V" \in sub.P <=> sa - sv - (1 - cin) \notin Signed
      /\ add.P \cap {"Z", "N"} = ZNof(add.A)
      /\ sub.P \cap {"Z", "N"} = ZNof(sub.A)
      /\ c = {"C"} =>
           \A p \in SUBSET {"C", "D"} :
             Compare(Registers(a, p), a, v).P \cap {"C", "Z", "N"}
               = sub.P \cap {"C", "Z", "N"}

\* Without decimal mode ADC and SBC are addition and subtraction of unsigned
\* numbers with carry and borrow, V is the overflow of signed ones, and N and
\* Z describe the result, on both variants.  CMP sets C, Z and N as an SBC
\* without borrow would, whatever the carry and the decimal flag are.
BinaryArithmetic ==
  \A c \in Carries, variant \in CPU_VARIANT :
    Binary(accumulator, operand, c, variant)

\* ADC and SBC of the decimal numbers a and v.
Digital(a, v, c, variant) ==
  LET cin == IsSet(c, "C")
      add == adc_core(Registers(a, c \cup {"D"}), v, variant)
      sub == sbc_core(Registers(a, c \cup {"D"}), v, variant)
  IN  /\ IsBCD(add.A) /\ IsBCD(sub.A)
      /\ Decimal(add.A) + 100 * IsSet(add.P, "C")
           = Decimal(a) + Decimal(v) + cin
      /\ Decimal(sub.A) - 100 * (1 - IsSet(sub.P, "C"))
           = Decimal(a) - Decimal(v) - (1 - cin)

\* In decimal mode, on digits, ADC and SBC are decimal addition and subtraction.
DecimalArithmetic ==
  IsBCD(accumulator) /\ IsBCD(operand) =>
    \A c \in Carries, variant \in CPU_VARIANT :
      Digital(accumulator, operand, c, variant)

\* What the result d of decimal arithmetic shares with the binary one, b.
Agree(b, d, variant) ==
  /\ d.P \cap {"V"} = b.P \cap {"V"}
  /\ d.P \cap {"Z", "N"} = ZNof(IF variant = NMOS THEN b.A ELSE d.A)
  /\ d.A \in Byte

\* README, "BCD (Decimal) Mode Flags": on the NMOS 6502 N and Z reflect the
\* binary result, on the 65C02 the adjusted one; V is that of the binary
\* operation on both.  This holds for invalid digits too.
DecimalFlags ==
  \A c \in Carries, variant \in CPU_VARIANT :
    LET binary  == Registers(accumulator, c)
        decimal == Registers(accumulator, c \cup {"D"})
    IN  /\ Agree(adc_core(binary, operand, variant),
                 adc_core(decimal, operand, variant), variant)
        /\ Agree(sbc_core(binary, operand, variant),
                 sbc_core(decimal, operand, variant), variant)
=============================================================================
