-------------------------- MODULE Variants_proofs ---------------------------
(***************************************************************************)
(* Proofs about what the two variants compute: the arithmetic of both is   *)
(* that of the integers, and in lockstep they differ only where the manual *)
(* says so.                                                                *)
(***************************************************************************)
EXTENDS VariantLockstep, ArithmeticReference, Cpu6502_proofs

----------------------------------------------------------------------------
(* Arithmetic *)

\* The accumulator the shared tail of ADC and SBC leaves.
LEMMA ArithResult ==
  ASSUME NEW x, NEW p, NEW variant, NEW res, NEW binary, NEW carry, NEW ovf
  PROVE  Arith(Registers(x, p), variant, res, binary, carry, ovf).A = res
  BY DEF Arith, Registers

\* The N and Z it leaves: of the binary result on an NMOS part in decimal mode,
\* of the stored one otherwise.
LEMMA ArithZN ==
  ASSUME NEW x, NEW p, NEW variant, NEW res, NEW binary, NEW carry, NEW ovf
  PROVE  LET y == Arith(Registers(x, p), variant, res, binary, carry, ovf)
         IN  /\ "D" \in p /\ variant = NMOS
                  => y.P \cap {"Z", "N"} = ZNof(MEM_WORD(binary))
             /\ ~("D" \in p /\ variant = NMOS)
                  => y.P \cap {"Z", "N"} = ZNof(res)
  <1> DEFINE zn == IF "D" \in p /\ variant = NMOS THEN MEM_WORD(binary) ELSE res
             q  == PutFlag(PutFlag(p, "C", carry), "V", ovf)
             y  == Arith(Registers(x, p), variant, res, binary, carry, ovf)
  <1>1. y.P = set_zn(q, zn)
    BY DEF Arith, Registers
  <1> HIDE DEF q, zn, y
  <1>2. set_zn(q, zn) \cap {"Z", "N"} = ZNof(zn)
    BY DEF set_zn, PutFlag, ZNof
  <1> QED
    BY <1>1, <1>2 DEF y, zn

\* The C and V it leaves.
LEMMA ArithCV ==
  ASSUME NEW x, NEW p, NEW variant, NEW res, NEW binary, NEW carry, NEW ovf
  PROVE  LET y == Arith(Registers(x, p), variant, res, binary, carry, ovf)
             q == PutFlag(PutFlag(p, "C", carry), "V", ovf)
         IN  ("C" \in y.P <=> "C" \in q) /\ ("V" \in y.P <=> "V" \in q)
  <1> DEFINE zn == IF "D" \in p /\ variant = NMOS THEN MEM_WORD(binary) ELSE res
             q  == PutFlag(PutFlag(p, "C", carry), "V", ovf)
             y  == Arith(Registers(x, p), variant, res, binary, carry, ovf)
  <1>1. y.P = set_zn(q, zn)
    BY DEF Arith, Registers
  <1> HIDE DEF q, zn, y
  <1>2. /\ "C" \in set_zn(q, zn) <=> "C" \in q
        /\ "V" \in set_zn(q, zn) <=> "V" \in q
    BY DEF set_zn, PutFlag
  <1> QED
    BY <1>1, <1>2 DEF y, q

\* The sign bit of a sum of two bytes.
LEMMA SignBit ==
  ASSUME NEW n \in 0 .. 511
  PROVE  Bit(n, 7) <=> (n >= 128 /\ n < 256) \/ n >= 384
  BY DEF Bit

\* The sum and the difference of signed bytes are no signed bytes.
SumOverflows(a, v, cin) ==
  SIGNED_MEM_WORD(a) + SIGNED_MEM_WORD(v) + cin \notin -128 .. 127
DifferenceOverflows(a, v, cin) ==
  SIGNED_MEM_WORD(a) - SIGNED_MEM_WORD(v) - (1 - cin) \notin -128 .. 127

\* The overflow tests are overflows of signed numbers.
LEMMA Overflows ==
  ASSUME NEW a \in Byte, NEW v \in Byte, NEW cin \in {0, 1}
  PROVE  /\ AdcOverflow(a, v, a + v + cin) <=> SumOverflows(a, v, cin)
         /\ SbcOverflow(a, v, a + (255 - v) + cin)
              <=> DifferenceOverflows(a, v, cin)
  <1> DEFINE s == a + v + cin
             d == a + (255 - v) + cin
  <1> DEFINE sa == SIGNED_MEM_WORD(a)
             sv == SIGNED_MEM_WORD(v)
  <1>1. /\ a \in 0 .. 511 /\ v \in 0 .. 511 /\ s \in 0 .. 511 /\ d \in 0 .. 511
        /\ a < 256 /\ v < 256
    BY DEF Byte
  <1>2. /\ sa = IF a < 128 THEN a ELSE a - 256
        /\ sv = IF v < 128 THEN v ELSE v - 256
    BY DEF SIGNED_MEM_WORD
  <1> DEFINE add == sa + sv + cin
             sub == sa - sv - (1 - cin)
  <1>3. /\ SumOverflows(a, v, cin) <=> add < -128 \/ add > 127
        /\ DifferenceOverflows(a, v, cin) <=> sub < -128 \/ sub > 127
    BY <1>1, <1>2 DEF SumOverflows, DifferenceOverflows
  <1>4. (Bit(a, 7) <=> a >= 128) /\ (Bit(v, 7) <=> v >= 128)
    BY <1>1, SignBit
  <1>5. s = a + v + cin /\ d = a + (255 - v) + cin
    OBVIOUS
  <1> HIDE DEF sa, sv, s, d
  <1>6. /\ Bit(s, 7) <=> (s >= 128 /\ s < 256) \/ s >= 384
        /\ Bit(d, 7) <=> (d >= 128 /\ d < 256) \/ d >= 384
    BY <1>1, SignBit
  <1>7. /\ Bit(a, 7) \in BOOLEAN /\ Bit(v, 7) \in BOOLEAN
        /\ Bit(s, 7) \in BOOLEAN /\ Bit(d, 7) \in BOOLEAN
    BY DEF Bit
  <1>8. /\ AdcOverflow(a, v, s)
             <=> (Bit(a, 7) <=> Bit(v, 7)) /\ ~(Bit(a, 7) <=> Bit(s, 7))
        /\ SbcOverflow(a, v, d)
             <=> ~(Bit(a, 7) <=> Bit(v, 7)) /\ ~(Bit(a, 7) <=> Bit(d, 7))
    BY <1>7 DEF AdcOverflow, SbcOverflow
  <1>9. /\ AdcOverflow(a, v, s) <=> add < -128 \/ add > 127
        /\ SbcOverflow(a, v, d) <=> sub < -128 \/ sub > 127
    <2>1. CASE a < 128 /\ v < 128
      BY <2>1, <1>5, <1>1, <1>2, <1>4, <1>6, <1>8
    <2>2. CASE a < 128 /\ v >= 128
      BY <2>2, <1>5, <1>1, <1>2, <1>4, <1>6, <1>8
    <2>3. CASE a >= 128 /\ v < 128
      BY <2>3, <1>5, <1>1, <1>2, <1>4, <1>6, <1>8
    <2>4. CASE a >= 128 /\ v >= 128
      BY <2>4, <1>5, <1>1, <1>2, <1>4, <1>6, <1>8
    <2> QED
      BY <1>1, <2>1, <2>2, <2>3, <2>4
  <1> QED
    BY <1>3, <1>9 DEF s, d

\* The sum and the difference, low and high digits as the code computes them.
AddLow(a, v, cin) == (a % 16) + (v % 16) + cin
AddHigh(a, v, cin) ==
  (a \div 16) + (v \div 16) + (IF AddLow(a, v, cin) >= 10 THEN 1 ELSE 0)
SubLow(a, v, cin) == (a % 16) - (v % 16) - (1 - cin)
SubHigh(a, v, cin) ==
  (a \div 16) - (v \div 16) - (IF SubLow(a, v, cin) < 0 THEN 1 ELSE 0)
AddDigit(n) == IF n >= 10 THEN n + 6 ELSE n
SubDigit(n) == IF n < 0 THEN (n - 6) % 16 ELSE n

\* The flags an operation starts with: the carry as a number, and D.
LEMMA FlagsIn ==
  ASSUME NEW x, NEW c \in Carries, NEW p, p = c \/ p = c \cup {"D"}
  PROVE  /\ Carry(Registers(x, p)) = IsSet(c, "C")
         /\ IsSet(c, "C") \in {0, 1}
         /\ Registers(x, p).A = x /\ Registers(x, p).P = p
         /\ "D" \in p <=> p = c \cup {"D"}
  BY DEF Carry, Registers, IsSet, Carries

\* ADC: its result and its flags.
LEMMA AdcFields ==
  ASSUME NEW a \in Byte, NEW v \in Byte, NEW c \in Carries,
         NEW p, p = c \/ p = c \cup {"D"}, NEW variant
  PROVE  LET cin == IsSet(c, "C")
             s   == a + v + cin
             lo  == AddLow(a, v, cin)
             hi  == AddHigh(a, v, cin)
             add == adc_core(Registers(a, p), v, variant)
         IN  /\ "D" \notin p => add.A = s % 256 /\ ("C" \in add.P <=> s > 255)
             /\ "D" \in p => /\ add.A = 16 * (AddDigit(hi) % 16)
                                          + (AddDigit(lo) % 16)
                             /\ "C" \in add.P <=> AddDigit(hi) >= 16
             /\ "V" \in add.P <=> AdcOverflow(a, v, s)
             /\ add.P \cap {"Z", "N"}
                  = ZNof(IF "D" \in p /\ variant = NMOS THEN s % 256 ELSE add.A)
  <1> DEFINE cin == IsSet(c, "C")
             s   == a + v + cin
             lo  == AddLow(a, v, cin)
             hi  == AddHigh(a, v, cin)
             r   == Registers(a, p)
             al  == IF lo >= 10 THEN (lo + 6) % 16 ELSE lo
             ah  == AddDigit(hi)
             res == 16 * (ah % 16) + (al % 16)
             ovf == AdcOverflow(a, v, s)
  <1>1. /\ Carry(r) = cin /\ r.A = a /\ r.P = p /\ cin \in {0, 1}
    BY FlagsIn
  <1>2. adc_core(r, v, variant) =
          IF "D" \notin p
          THEN Arith(r, variant, MEM_WORD(s), s, s > 255, ovf)
          ELSE Arith(r, variant, res, s, ah >= 16, ovf)
    <2> HIDE DEF r, cin
    <2> QED
      BY <1>1 DEF adc_core, AddLow, AddHigh, AddDigit
  <1>3. lo \in 0 .. 31 /\ al % 16 = AddDigit(lo) % 16
    BY <1>1 DEF AddLow, AddDigit, Byte
  <1>4. MEM_WORD(s) = s % 256
    BY DEF MEM_WORD
  <1> HIDE DEF s, cin, al, ah
  <1>5. CASE "D" \notin p
    <2>1. adc_core(r, v, variant)
            = Arith(r, variant, MEM_WORD(s), s, s > 255, ovf)
      BY <1>2, <1>5
    <2>2. adc_core(r, v, variant).A = MEM_WORD(s)
      BY <2>1, ArithResult
    <2>3. /\ "C" \in adc_core(r, v, variant).P <=> s > 255
          /\ "V" \in adc_core(r, v, variant).P <=> ovf
      <3> DEFINE q == PutFlag(PutFlag(p, "C", s > 255), "V", ovf)
      <3>1. ("C" \in q <=> s > 255) /\ ("V" \in q <=> ovf)
        BY DEF PutFlag
      <3>2. /\ "C" \in adc_core(r, v, variant).P <=> "C" \in q
            /\ "V" \in adc_core(r, v, variant).P <=> "V" \in q
        BY <2>1, ArithCV
      <3> QED
        BY <3>1, <3>2
    <2>4. adc_core(r, v, variant).P \cap {"Z", "N"} = ZNof(MEM_WORD(s))
      BY <2>1, <1>5, ArithZN
    <2> QED
      BY <2>2, <2>3, <2>4, <1>4, <1>5 DEF s, cin
  <1>6. CASE "D" \in p
    <2>1. adc_core(r, v, variant) = Arith(r, variant, res, s, ah >= 16, ovf)
      BY <1>2, <1>6
    <2>2. adc_core(r, v, variant).A = res
      <3> HIDE DEF res
      <3> QED
        BY <2>1, ArithResult
    <2>3. /\ "C" \in adc_core(r, v, variant).P <=> ah >= 16
          /\ "V" \in adc_core(r, v, variant).P <=> ovf
      <3> DEFINE q == PutFlag(PutFlag(p, "C", ah >= 16), "V", ovf)
      <3>1. ("C" \in q <=> ah >= 16) /\ ("V" \in q <=> ovf)
        BY DEF PutFlag
      <3> HIDE DEF res
      <3>2. /\ "C" \in adc_core(r, v, variant).P <=> "C" \in q
            /\ "V" \in adc_core(r, v, variant).P <=> "V" \in q
        BY <2>1, ArithCV
      <3> QED
        BY <3>1, <3>2
    <2>4. /\ variant = NMOS =>
               adc_core(r, v, variant).P \cap {"Z", "N"} = ZNof(MEM_WORD(s))
          /\ variant # NMOS =>
               adc_core(r, v, variant).P \cap {"Z", "N"} = ZNof(res)
      <3> HIDE DEF res
      <3> QED
        BY <2>1, <1>6, ArithZN
    <2> QED
      BY <2>2, <2>3, <2>4, <1>3, <1>4, <1>6 DEF s, cin, ah
  <1> QED
    BY <1>5, <1>6

\* SBC: its result and its flags; C is that of the binary difference.
LEMMA SbcFields ==
  ASSUME NEW a \in Byte, NEW v \in Byte, NEW c \in Carries,
         NEW p, p = c \/ p = c \cup {"D"}, NEW variant
  PROVE  LET cin == IsSet(c, "C")
             d   == a + (255 - v) + cin
             lo  == SubLow(a, v, cin)
             hi  == SubHigh(a, v, cin)
             sub == sbc_core(Registers(a, p), v, variant)
         IN  /\ "D" \notin p => sub.A = d % 256
             /\ "D" \in p => sub.A = 16 * (SubDigit(hi) % 16)
                                       + (SubDigit(lo) % 16)
             /\ "C" \in sub.P <=> d > 255
             /\ "V" \in sub.P <=> SbcOverflow(a, v, d)
             /\ sub.P \cap {"Z", "N"}
                  = ZNof(IF "D" \in p /\ variant = NMOS THEN d % 256 ELSE sub.A)
  <1> DEFINE cin == IsSet(c, "C")
             d   == a + (255 - v) + cin
             lo  == SubLow(a, v, cin)
             hi  == SubHigh(a, v, cin)
             r   == Registers(a, p)
             res == 16 * (SubDigit(hi) % 16) + (SubDigit(lo) % 16)
             ovf == SbcOverflow(a, v, d)
  <1>1. /\ Carry(r) = cin /\ r.A = a /\ r.P = p /\ cin \in {0, 1}
    BY FlagsIn
  <1>2. sbc_core(r, v, variant) =
          IF "D" \notin p
          THEN Arith(r, variant, MEM_WORD(d), d, d > 255, ovf)
          ELSE Arith(r, variant, res, d, d > 255, ovf)
    <2> HIDE DEF r, cin
    <2> QED
      BY <1>1 DEF sbc_core, SubLow, SubHigh, SubDigit
  <1>3. MEM_WORD(d) = d % 256
    BY DEF MEM_WORD
  <1> HIDE DEF d, cin
  <1>4. CASE "D" \notin p
    <2>1. sbc_core(r, v, variant)
            = Arith(r, variant, MEM_WORD(d), d, d > 255, ovf)
      BY <1>2, <1>4
    <2>2. sbc_core(r, v, variant).A = MEM_WORD(d)
      BY <2>1, ArithResult
    <2>3. /\ "C" \in sbc_core(r, v, variant).P <=> d > 255
          /\ "V" \in sbc_core(r, v, variant).P <=> ovf
      <3> DEFINE q == PutFlag(PutFlag(p, "C", d > 255), "V", ovf)
      <3>1. ("C" \in q <=> d > 255) /\ ("V" \in q <=> ovf)
        BY DEF PutFlag
      <3>2. /\ "C" \in sbc_core(r, v, variant).P <=> "C" \in q
            /\ "V" \in sbc_core(r, v, variant).P <=> "V" \in q
        BY <2>1, ArithCV
      <3> QED
        BY <3>1, <3>2
    <2>4. sbc_core(r, v, variant).P \cap {"Z", "N"} = ZNof(MEM_WORD(d))
      BY <2>1, <1>4, ArithZN
    <2> QED
      BY <2>2, <2>3, <2>4, <1>3, <1>4 DEF d, cin
  <1>5. CASE "D" \in p
    <2>1. sbc_core(r, v, variant) = Arith(r, variant, res, d, d > 255, ovf)
      BY <1>2, <1>5
    <2>2. sbc_core(r, v, variant).A = res
      <3> HIDE DEF res
      <3> QED
        BY <2>1, ArithResult
    <2>3. /\ "C" \in sbc_core(r, v, variant).P <=> d > 255
          /\ "V" \in sbc_core(r, v, variant).P <=> ovf
      <3> DEFINE q == PutFlag(PutFlag(p, "C", d > 255), "V", ovf)
      <3>1. ("C" \in q <=> d > 255) /\ ("V" \in q <=> ovf)
        BY DEF PutFlag
      <3> HIDE DEF res
      <3>2. /\ "C" \in sbc_core(r, v, variant).P <=> "C" \in q
            /\ "V" \in sbc_core(r, v, variant).P <=> "V" \in q
        BY <2>1, ArithCV
      <3> QED
        BY <3>1, <3>2
    <2>4. /\ variant = NMOS =>
               sbc_core(r, v, variant).P \cap {"Z", "N"} = ZNof(MEM_WORD(d))
          /\ variant # NMOS =>
               sbc_core(r, v, variant).P \cap {"Z", "N"} = ZNof(res)
      <3> HIDE DEF res
      <3> QED
        BY <2>1, <1>5, ArithZN
    <2> QED
      BY <2>2, <2>3, <2>4, <1>3, <1>5 DEF d, cin
  <1> QED
    BY <1>4, <1>5

\* CMP is a subtraction without borrow.
LEMMA CompareFields ==
  ASSUME NEW a \in Byte, NEW v \in Byte, NEW p
  PROVE  LET q == Compare(Registers(a, p), a, v).P
         IN  /\ "C" \in q <=> a >= v
             /\ q \cap {"Z", "N"} = ZNof((a - v) % 256)
  <1> DEFINE d == (a - v) % 256
             w == PutFlag(p, "C", a >= v)
  <1>1. Compare(Registers(a, p), a, v).P = set_zn(w, d)
    BY DEF Compare, Registers, MEM_WORD
  <1>2. "C" \in w <=> a >= v
    BY DEF PutFlag
  <1> HIDE DEF w, d
  <1>3. "C" \in set_zn(w, d) <=> "C" \in w
    BY DEF set_zn, PutFlag
  <1>4. set_zn(w, d) \cap {"Z", "N"} = ZNof(d)
    BY DEF set_zn, PutFlag, ZNof
  <1> QED
    BY <1>1, <1>2, <1>3, <1>4 DEF d

\* ADC, SBC and CMP in binary mode, for all bytes, carries and variants.
LEMMA BinaryForAll ==
  ASSUME NEW a \in Byte, NEW v \in Byte, NEW c \in Carries, NEW variant
  PROVE  Binary(a, v, c, variant)
  <1> DEFINE cin == IsSet(c, "C")
             add == adc_core(Registers(a, c), v, variant)
             sub == sbc_core(Registers(a, c), v, variant)
             s   == a + v + cin
             d   == a + (255 - v) + cin
  <1>1. cin \in {0, 1} /\ "D" \notin c
    BY FlagsIn DEF Carries
  <1>2. /\ add.A = s % 256 /\ ("C" \in add.P <=> s > 255)
        /\ "V" \in add.P <=> AdcOverflow(a, v, s)
        /\ add.P \cap {"Z", "N"} = ZNof(add.A)
    BY <1>1, AdcFields
  <1>3. /\ sub.A = d % 256 /\ ("C" \in sub.P <=> d > 255)
        /\ "V" \in sub.P <=> SbcOverflow(a, v, d)
        /\ sub.P \cap {"Z", "N"} = ZNof(sub.A)
    BY <1>1, SbcFields
  <1>4. /\ IsSet(add.P, "C") = IF s > 255 THEN 1 ELSE 0
        /\ IsSet(sub.P, "C") = IF d > 255 THEN 1 ELSE 0
    BY <1>2, <1>3 DEF IsSet
  <1>5. /\ s \in 0 .. 511 /\ s % 256 = IF s > 255 THEN s - 256 ELSE s
        /\ d \in 0 .. 511 /\ d % 256 = IF d > 255 THEN d - 256 ELSE d
        /\ a \in Int /\ v \in Int
    <2>1. \A n \in 0 .. 511 : n % 256 = IF n > 255 THEN n - 256 ELSE n
      OBVIOUS
    <2>2. a \in 0 .. 255 /\ v \in 0 .. 255
      BY DEF Byte
    <2> HIDE DEF cin
    <2>3. s \in 0 .. 511 /\ d \in 0 .. 511
      BY <1>1, <2>2
    <2> HIDE DEF s, d
    <2> QED
      BY <2>1, <2>2, <2>3
  <1> HIDE DEF cin, add, sub
  <1>6. /\ add.A + 256 * IsSet(add.P, "C") = a + v + cin
        /\ sub.A - 256 * (1 - IsSet(sub.P, "C")) = a - v - (1 - cin)
    BY <1>1, <1>2, <1>3, <1>4, <1>5
  <1>7. /\ AdcOverflow(a, v, s) <=> SumOverflows(a, v, cin)
        /\ SbcOverflow(a, v, d) <=> DifferenceOverflows(a, v, cin)
    BY <1>1, Overflows
  <1>8. ASSUME c = {"C"}, NEW p
        PROVE  Compare(Registers(a, p), a, v).P \cap {"C", "Z", "N"}
                 = sub.P \cap {"C", "Z", "N"}
    <2> DEFINE q == Compare(Registers(a, p), a, v).P
    <2>1. cin = 1
      BY <1>8 DEF cin, IsSet
    <2>2. (a - v) % 256 = IF a < v THEN a - v + 256 ELSE a - v
      BY DEF Byte
    <2>3. sub.A = (a - v) % 256 /\ (d > 255 <=> a >= v)
      BY <1>3, <1>5, <2>1, <2>2
    <2>4. /\ "C" \in q <=> a >= v
          /\ q \cap {"Z", "N"} = ZNof((a - v) % 256)
      BY CompareFields
    <2>5. /\ "C" \in q <=> "C" \in sub.P
          /\ q \cap {"Z", "N"} = sub.P \cap {"Z", "N"}
      BY <1>3, <2>3, <2>4
    <2> HIDE DEF q
    <2>6. q \cap {"C", "Z", "N"} = sub.P \cap {"C", "Z", "N"}
      BY <2>5
    <2> QED
      BY <2>6 DEF q
  <1>9. /\ "V" \in add.P <=> SumOverflows(a, v, cin)
        /\ "V" \in sub.P <=> DifferenceOverflows(a, v, cin)
    <2> HIDE DEF s, d
    <2> QED
      BY <1>2, <1>3, <1>7
  <1> QED
    BY <1>2, <1>3, <1>6, <1>8, <1>9
    DEF Binary, cin, add, sub, SumOverflows, DifferenceOverflows

\* The decimal digits of a sum.
LEMMA DigitsOfSum ==
  ASSUME NEW a \in Byte, NEW v \in Byte, NEW cin \in {0, 1}, IsBCD(a), IsBCD(v)
  PROVE  LET al == AddDigit(AddLow(a, v, cin))
             ah == AddDigit(AddHigh(a, v, cin))
             b  == 16 * (ah % 16) + (al % 16)
         IN  /\ IsBCD(b)
             /\ Decimal(b) + 100 * (IF ah >= 16 THEN 1 ELSE 0)
                  = Decimal(a) + Decimal(v) + cin
  <1> DEFINE lo == AddLow(a, v, cin)
             hi == AddHigh(a, v, cin)
             x  == AddDigit(lo) % 16
             y  == AddDigit(hi) % 16
             b  == 16 * y + x
             a0 == a % 16
             a1 == a \div 16
             v0 == v % 16
             v1 == v \div 16
  <1>1. /\ a0 \in 0 .. 9 /\ a1 \in 0 .. 9
        /\ v0 \in 0 .. 9 /\ v1 \in 0 .. 9
    BY DEF Byte, IsBCD
  <1>2. lo \in 0 .. 19 /\ hi \in 0 .. 19
    BY <1>1 DEF AddLow, AddHigh
  <1>3. \A n \in 0 .. 19 : /\ AddDigit(n) % 16 = IF n >= 10 THEN n - 10 ELSE n
                           /\ AddDigit(n) >= 16 <=> n >= 10
    BY DEF AddDigit
  <1>4. /\ x = IF lo >= 10 THEN lo - 10 ELSE lo
        /\ y = IF hi >= 10 THEN hi - 10 ELSE hi
        /\ AddDigit(hi) >= 16 <=> hi >= 10
    BY <1>2, <1>3
  <1>5. x \in 0 .. 9 /\ y \in 0 .. 9
    BY <1>2, <1>4
  <1>6. /\ lo = a0 + v0 + cin
        /\ hi = a1 + v1 + (IF lo >= 10 THEN 1 ELSE 0)
    BY DEF AddLow, AddHigh
  <1> HIDE DEF lo, hi, x, y, a0, a1, v0, v1
  <1>7. b % 16 = x /\ b \div 16 = y
    BY <1>5
  <1>8. IsBCD(b) /\ Decimal(b) = 10 * y + x
    BY <1>5, <1>7 DEF IsBCD, Decimal
  <1>9. Decimal(a) = 10 * a1 + a0 /\ Decimal(v) = 10 * v1 + v0
    BY DEF Decimal, a0, a1, v0, v1
  <1>10. Decimal(b) + 100 * (IF AddDigit(hi) >= 16 THEN 1 ELSE 0)
           = Decimal(a) + Decimal(v) + cin
    BY <1>1, <1>2, <1>4, <1>6, <1>8, <1>9
  <1> QED
    BY <1>8, <1>10 DEF x, y, lo, hi

\* The decimal digits of a difference, and its borrow: that of the binary one.
LEMMA DigitsOfDifference ==
  ASSUME NEW a \in Byte, NEW v \in Byte, NEW cin \in {0, 1}, IsBCD(a), IsBCD(v)
  PROVE  LET al == SubDigit(SubLow(a, v, cin))
             ah == SubDigit(SubHigh(a, v, cin))
             b  == 16 * (ah % 16) + (al % 16)
         IN  /\ IsBCD(b)
             /\ Decimal(b) - 100 * (IF a + (255 - v) + cin > 255 THEN 0 ELSE 1)
                  = Decimal(a) - Decimal(v) - (1 - cin)
  <1> DEFINE lo == SubLow(a, v, cin)
             hi == SubHigh(a, v, cin)
             x  == SubDigit(lo) % 16
             y  == SubDigit(hi) % 16
             b  == 16 * y + x
             a0 == a % 16
             a1 == a \div 16
             v0 == v % 16
             v1 == v \div 16
  <1>1. /\ a0 \in 0 .. 9 /\ a1 \in 0 .. 9
        /\ v0 \in 0 .. 9 /\ v1 \in 0 .. 9
        /\ a = 16 * a1 + a0 /\ v = 16 * v1 + v0
    BY DEF Byte, IsBCD
  <1>2. lo \in -10 .. 9 /\ hi \in -10 .. 9
    BY <1>1 DEF SubLow, SubHigh
  <1>3. \A n \in -10 .. 9 : SubDigit(n) % 16 = IF n < 0 THEN n + 10 ELSE n
    BY DEF SubDigit
  <1>4. /\ x = IF lo < 0 THEN lo + 10 ELSE lo
        /\ y = IF hi < 0 THEN hi + 10 ELSE hi
    BY <1>2, <1>3
  <1>5. x \in 0 .. 9 /\ y \in 0 .. 9
    BY <1>2, <1>4
  <1>6. /\ lo = a0 - v0 - (1 - cin)
        /\ hi = a1 - v1 - (IF lo < 0 THEN 1 ELSE 0)
    BY DEF SubLow, SubHigh
  <1> HIDE DEF lo, hi, x, y, a0, a1, v0, v1
  <1>7. b % 16 = x /\ b \div 16 = y
    BY <1>5
  <1>8. IsBCD(b) /\ Decimal(b) = 10 * y + x
    BY <1>5, <1>7 DEF IsBCD, Decimal
  <1>9. /\ Decimal(a) = 10 * a1 + a0
        /\ Decimal(v) = 10 * v1 + v0
    BY DEF Decimal, a0, a1, v0, v1
  <1>10. a + (255 - v) + cin > 255 <=> hi >= 0
    BY <1>1, <1>2, <1>6
  <1>11. Decimal(b) - 100 * (IF a + (255 - v) + cin > 255 THEN 0 ELSE 1)
           = Decimal(a) - Decimal(v) - (1 - cin)
    BY <1>1, <1>2, <1>4, <1>6, <1>8, <1>9, <1>10
  <1> QED
    BY <1>8, <1>11 DEF x, y, lo, hi

\* ADC and SBC of digits, for all digits, carries and variants.
LEMMA DigitalForAll ==
  ASSUME NEW a \in Byte, NEW v \in Byte, IsBCD(a), IsBCD(v),
         NEW c \in Carries, NEW variant
  PROVE  Digital(a, v, c, variant)
  <1> DEFINE cin == IsSet(c, "C")
             p   == c \cup {"D"}
             add == adc_core(Registers(a, p), v, variant)
             sub == sbc_core(Registers(a, p), v, variant)
             ah  == AddDigit(AddHigh(a, v, cin))
             d   == a + (255 - v) + cin
             x   == 16 * (ah % 16) + (AddDigit(AddLow(a, v, cin)) % 16)
             y   == 16 * (SubDigit(SubHigh(a, v, cin)) % 16)
                      + (SubDigit(SubLow(a, v, cin)) % 16)
  <1>1. cin \in {0, 1} /\ "D" \in p
    BY FlagsIn
  <1>2. add.A = x /\ ("C" \in add.P <=> ah >= 16)
    BY <1>1, AdcFields
  <1>3. sub.A = y /\ ("C" \in sub.P <=> d > 255)
    BY <1>1, SbcFields
  <1>4. /\ IsBCD(x)
        /\ Decimal(x) + 100 * (IF ah >= 16 THEN 1 ELSE 0)
             = Decimal(a) + Decimal(v) + cin
    BY <1>1, DigitsOfSum
  <1>5. /\ IsBCD(y)
        /\ Decimal(y) - 100 * (IF d > 255 THEN 0 ELSE 1)
             = Decimal(a) - Decimal(v) - (1 - cin)
    BY <1>1, DigitsOfDifference
  <1>6. /\ IsSet(add.P, "C") = IF ah >= 16 THEN 1 ELSE 0
        /\ 1 - IsSet(sub.P, "C") = IF d > 255 THEN 0 ELSE 1
    <2> HIDE DEF add, sub, ah, d
    <2> QED
      BY <1>2, <1>3 DEF IsSet
  <1> HIDE DEF cin, add, sub, ah, d, x, y
  <1>7. /\ IsBCD(add.A) /\ IsBCD(sub.A)
        /\ Decimal(add.A) + 100 * IsSet(add.P, "C")
             = Decimal(a) + Decimal(v) + cin
        /\ Decimal(sub.A) - 100 * (1 - IsSet(sub.P, "C"))
             = Decimal(a) - Decimal(v) - (1 - cin)
    BY <1>2, <1>3, <1>4, <1>5, <1>6
  <1> QED
    BY <1>7 DEF Digital, cin, add, sub

\* V, N and Z after decimal arithmetic on any bytes.
LEMMA AgreeForAll ==
  ASSUME NEW a \in Byte, NEW v \in Byte, NEW c \in Carries, NEW variant
  PROVE  LET b == Registers(a, c)
             d == Registers(a, c \cup {"D"})
         IN  /\ Agree(adc_core(b, v, variant), adc_core(d, v, variant), variant)
             /\ Agree(sbc_core(b, v, variant), sbc_core(d, v, variant), variant)
  <1> DEFINE cin == IsSet(c, "C")
             p   == c \cup {"D"}
             ba  == adc_core(Registers(a, c), v, variant)
             da  == adc_core(Registers(a, p), v, variant)
             bs  == sbc_core(Registers(a, c), v, variant)
             ds  == sbc_core(Registers(a, p), v, variant)
             s   == a + v + cin
             d   == a + (255 - v) + cin
             al  == AddDigit(AddLow(a, v, cin))
             ah  == AddDigit(AddHigh(a, v, cin))
             sl  == SubDigit(SubLow(a, v, cin))
             sh  == SubDigit(SubHigh(a, v, cin))
  <1>1. cin \in {0, 1} /\ "D" \notin c /\ "D" \in p
    BY FlagsIn DEF Carries
  <1>2. ba.A = s % 256 /\ ("V" \in ba.P <=> AdcOverflow(a, v, s))
    BY <1>1, AdcFields
  <1>3. /\ da.A = 16 * (ah % 16) + (al % 16)
        /\ "V" \in da.P <=> AdcOverflow(a, v, s)
        /\ da.P \cap {"Z", "N"}
             = ZNof(IF "D" \in p /\ variant = NMOS THEN s % 256 ELSE da.A)
    BY <1>1, AdcFields
  <1>4. bs.A = d % 256 /\ ("V" \in bs.P <=> SbcOverflow(a, v, d))
    BY <1>1, SbcFields
  <1>5. /\ ds.A = 16 * (sh % 16) + (sl % 16)
        /\ "V" \in ds.P <=> SbcOverflow(a, v, d)
        /\ ds.P \cap {"Z", "N"}
             = ZNof(IF "D" \in p /\ variant = NMOS THEN d % 256 ELSE ds.A)
    BY <1>1, SbcFields
  <1>6. al \in Int /\ ah \in Int /\ sl \in Int /\ sh \in Int
    BY <1>1 DEF AddLow, AddHigh, SubLow, SubHigh, AddDigit, SubDigit, Byte
  <1> HIDE DEF ba, da, bs, ds, s, d, al, ah, sl, sh
  <1>7. da.A \in Byte /\ ds.A \in Byte
    BY <1>3, <1>5, <1>6, Digits
  <1>8. /\ da.P \cap {"V"} = ba.P \cap {"V"}
        /\ ds.P \cap {"V"} = bs.P \cap {"V"}
    BY <1>2, <1>3, <1>4, <1>5
  <1>9. /\ (IF "D" \in p /\ variant = NMOS THEN s % 256 ELSE da.A)
             = (IF variant = NMOS THEN ba.A ELSE da.A)
        /\ (IF "D" \in p /\ variant = NMOS THEN d % 256 ELSE ds.A)
             = (IF variant = NMOS THEN bs.A ELSE ds.A)
    BY <1>1, <1>2, <1>4
  <1>10. Agree(ba, da, variant) /\ Agree(bs, ds, variant)
    BY <1>3, <1>5, <1>7, <1>8, <1>9 DEF Agree
  <1> QED
    BY <1>10 DEF ba, da, bs, ds

\* The registers of the reference are bytes.
LEMMA OperandsAreBytes ==
  ArithmeticSpec => [](accumulator \in Byte /\ operand \in Byte)
  <1> DEFINE Inv == accumulator \in Byte /\ operand \in Byte
  <1>1. ArithmeticInit => Inv
    BY DEF ArithmeticInit, Byte
  <1>2. Inv /\ [NextOperand]_avars => Inv'
    BY DEF NextOperand, avars, Byte
  <1> QED
    BY <1>1, <1>2, PTL DEF ArithmeticSpec

\* Without decimal mode ADC, SBC and CMP compute with unsigned and with signed
\* integers: for every accumulator, operand, carry and variant.
THEOREM BinaryCorrect == ArithmeticSpec => []BinaryArithmetic
  <1>1. accumulator \in Byte /\ operand \in Byte => BinaryArithmetic
    BY BinaryForAll DEF BinaryArithmetic
  <1> QED
    BY <1>1, OperandsAreBytes, PTL

\* On decimal digits ADC and SBC are decimal addition and subtraction.
THEOREM DecimalCorrect == ArithmeticSpec => []DecimalArithmetic
  <1>1. accumulator \in Byte /\ operand \in Byte => DecimalArithmetic
    BY DigitalForAll DEF DecimalArithmetic
  <1> QED
    BY <1>1, OperandsAreBytes, PTL

\* In decimal mode V is that of the binary operation, and N and Z are those of
\* the binary result on the NMOS part and of the adjusted one on the 65C02.
THEOREM DecimalFlagsCorrect == ArithmeticSpec => []DecimalFlags
  <1>1. accumulator \in Byte /\ operand \in Byte => DecimalFlags
    BY AgreeForAll, Zenon DEF DecimalFlags
  <1> QED
    BY <1>1, OperandsAreBytes, PTL
----------------------------------------------------------------------------
(* The decode tables on documented opcodes *)

\* No override of either variant is about a documented opcode.
LEMMA NotOverridden ==
  ASSUME NEW op \in Official
  PROVE  /\ op \in Byte
         /\ NMOS_HANDLER(op) = "NULL" /\ nmos_addr_override(op) = "NONE"
         /\ op \notin cmos_addr_override /\ cy65_cycle(op) = 0
  <1>1. op \in Byte
    BY DEF Official, Byte
  <1>2. NMOS_HANDLER(op) = "NULL"
    BY DEF Official, Byte, NMOS_HANDLER
  <1>3. nmos_addr_override(op) = "NONE"
    BY DEF Official, Byte, nmos_addr_override
  <1>4. op \notin cmos_addr_override
    BY DEF Official, Byte, cmos_addr_override
  <1>5. cy65_cycle(op) = 0
    BY DEF Official, Byte, cy65_cycle
  <1> QED
    BY <1>1, <1>2, <1>3, <1>4, <1>5

\* So both variants decode it alike.
LEMMA DecodedAlike ==
  ASSUME NEW op \in Official
  PROVE  /\ instr_dispatch(op, NMOS) = Entry(INSTR_HANDLERS, op)
         /\ instr_dispatch(op, CMOS) = Entry(INSTR_HANDLERS, op)
         /\ AddrMode(op, NMOS) = Entry(INST_TABLE, op)
         /\ AddrMode(op, CMOS) = Entry(INST_TABLE, op)
         /\ BaseCycles(op, NMOS) = Entry(CYCLE_BASE, op)
         /\ BaseCycles(op, CMOS) = Entry(CYCLE_BASE, op)
  <1>1. NMOS # CMOS
    BY DEF NMOS, CMOS
  <1> QED
    BY <1>1, NotOverridden DEF instr_dispatch, AddrMode, BaseCycles

VariantHandlers == {"ISC", "RRA", "ALT_SBC", "WAI", "STP", "op_kil"}

\* BRK and JMP have their own opcodes, only JMP ($nnnn) is indirect, and the
\* other handlers that depend on the variant have no documented opcode.
LEMMA OfficialEntries ==
  ASSUME NEW op \in Official
  PROVE  /\ Entry(INSTR_HANDLERS, op) \notin VariantHandlers
         /\ Entry(INSTR_HANDLERS, op) = "BRK" => op = \h00
         /\ op = \h6C => Entry(INSTR_HANDLERS, op) = "JMP"
         /\ Entry(INST_TABLE, op) = "IND" <=> op = \h6C
  <1> DEFINE i == (op \div 16) + 1
             j == (op % 16) + 1
  <1>1. /\ i \in 1 .. 16 /\ j \in 1 .. 16 /\ op = 16 * (i - 1) + (j - 1)
    BY NotOverridden DEF Byte
  <1>2. /\ Entry(INST_TABLE, op) = INST_TABLE[i][j]
        /\ Entry(INSTR_HANDLERS, op) = INSTR_HANDLERS[i][j]
    BY DEF Entry
  <1>3. ~ (i = 13 /\ j = 12) /\ ~ (i = 14 /\ j = 12)
    BY <1>1, NotOverridden DEF cmos_addr_override, Official
  <1> HIDE DEF i, j
  <1>4. INSTR_HANDLERS[i][j] \notin VariantHandlers
    BY <1>1, <1>3 DEF INSTR_HANDLERS, VariantHandlers
  <1>5. INSTR_HANDLERS[i][j] = "BRK" => i = 1 /\ j = 1
    BY <1>1 DEF INSTR_HANDLERS
  <1>6. i = 7 /\ j = 13 => INSTR_HANDLERS[i][j] = "JMP"
    BY <1>1 DEF INSTR_HANDLERS
  <1>7. INST_TABLE[i][j] = "IND" <=> i = 7 /\ j = 13
    BY <1>1 DEF INST_TABLE, INST_ROW_0, INST_ROW_1, INST_ROW_2, INST_ROW_3,
       INST_ROW_4, INST_ROW_5, INST_ROW_6, INST_ROW_7, INST_ROW_8, INST_ROW_9,
       INST_ROW_A, INST_ROW_B, INST_ROW_C, INST_ROW_D, INST_ROW_E, INST_ROW_F
  <1>8. op = \h6C <=> i = 7 /\ j = 13
    BY <1>1
  <1> QED
    BY <1>1, <1>2, <1>4, <1>5, <1>6, <1>7, <1>8
----------------------------------------------------------------------------
(* Operators of the second CPU that depend on no variable *)

\* Both CPUs read the same tables.
LEMMA SameTables ==
  ASSUME NEW op, NEW variant
  PROVE  /\ Cmos!instr_dispatch(op, variant) = instr_dispatch(op, variant)
         /\ Cmos!AddrMode(op, variant) = AddrMode(op, variant)
         /\ Cmos!BaseCycles(op, variant) = BaseCycles(op, variant)
         /\ Cmos!op_suppresses_pagecross = op_suppresses_pagecross
  <1>1. \A table : Cmos!Entry(table, op) = Entry(table, op)
    BY DEF Cmos!Entry, Entry
  <1>2. Cmos!NMOS = NMOS /\ Cmos!CMOS = CMOS
    BY DEF Cmos!NMOS, NMOS, Cmos!CMOS, CMOS
  <1>3. Cmos!instr_dispatch(op, variant) = instr_dispatch(op, variant)
    <2>1. Cmos!NMOS_HANDLER(op) = NMOS_HANDLER(op)
      BY DEF Cmos!NMOS_HANDLER, NMOS_HANDLER
    <2>2. Cmos!INSTR_HANDLERS = INSTR_HANDLERS
      BY DEF Cmos!INSTR_HANDLERS, INSTR_HANDLERS
    <2> QED
      BY <1>1, <1>2, <2>1, <2>2 DEF Cmos!instr_dispatch, instr_dispatch
  <1>4. Cmos!AddrMode(op, variant) = AddrMode(op, variant)
    <2>1. /\ Cmos!nmos_addr_override(op) = nmos_addr_override(op)
          /\ Cmos!cmos_addr_override = cmos_addr_override
      BY DEF Cmos!nmos_addr_override, nmos_addr_override,
             Cmos!cmos_addr_override, cmos_addr_override
    <2>2. Cmos!INST_TABLE = INST_TABLE
      BY DEF Cmos!INST_TABLE, INST_TABLE, Cmos!INST_ROW_0, INST_ROW_0,
           Cmos!INST_ROW_1, INST_ROW_1, Cmos!INST_ROW_2, INST_ROW_2,
           Cmos!INST_ROW_3, INST_ROW_3, Cmos!INST_ROW_4, INST_ROW_4,
           Cmos!INST_ROW_5, INST_ROW_5, Cmos!INST_ROW_6, INST_ROW_6,
           Cmos!INST_ROW_7, INST_ROW_7, Cmos!INST_ROW_8, INST_ROW_8,
           Cmos!INST_ROW_9, INST_ROW_9, Cmos!INST_ROW_A, INST_ROW_A,
           Cmos!INST_ROW_B, INST_ROW_B, Cmos!INST_ROW_C, INST_ROW_C,
           Cmos!INST_ROW_D, INST_ROW_D, Cmos!INST_ROW_E, INST_ROW_E,
           Cmos!INST_ROW_F, INST_ROW_F
    <2> QED
      BY <1>1, <1>2, <2>1, <2>2 DEF Cmos!AddrMode, AddrMode
  <1>5. Cmos!BaseCycles(op, variant) = BaseCycles(op, variant)
    <2>1. Cmos!cy65_cycle(op) = cy65_cycle(op)
      BY DEF Cmos!cy65_cycle, cy65_cycle
    <2>2. Cmos!CYCLE_BASE = CYCLE_BASE
      BY DEF Cmos!CYCLE_BASE, CYCLE_BASE, Cmos!CYCLE_ROW_0, CYCLE_ROW_0,
           Cmos!CYCLE_ROW_1, CYCLE_ROW_1, Cmos!CYCLE_ROW_2, CYCLE_ROW_2,
           Cmos!CYCLE_ROW_3, CYCLE_ROW_3, Cmos!CYCLE_ROW_4, CYCLE_ROW_4,
           Cmos!CYCLE_ROW_5, CYCLE_ROW_5, Cmos!CYCLE_ROW_6, CYCLE_ROW_6,
           Cmos!CYCLE_ROW_7, CYCLE_ROW_7, Cmos!CYCLE_ROW_8, CYCLE_ROW_8,
           Cmos!CYCLE_ROW_9, CYCLE_ROW_9, Cmos!CYCLE_ROW_A, CYCLE_ROW_A,
           Cmos!CYCLE_ROW_B, CYCLE_ROW_B, Cmos!CYCLE_ROW_C, CYCLE_ROW_C,
           Cmos!CYCLE_ROW_D, CYCLE_ROW_D, Cmos!CYCLE_ROW_E, CYCLE_ROW_E,
           Cmos!CYCLE_ROW_F, CYCLE_ROW_F
    <2> QED
      BY <1>1, <1>2, <2>1, <2>2 DEF Cmos!BaseCycles, BaseCycles
  <1> QED
    BY <1>3, <1>4, <1>5
       DEF Cmos!op_suppresses_pagecross, op_suppresses_pagecross

\* Both compute with the same conversions, bits and flags.
LEMMA SameBasics ==
  ASSUME NEW x, NEW y, NEW z
  PROVE  /\ Cmos!MEM_WORD(x) = MEM_WORD(x)
         /\ Cmos!MEM_TWO_WORDS(x) = MEM_TWO_WORDS(x)
         /\ Cmos!SIGNED_MEM_WORD(x) = SIGNED_MEM_WORD(x)
         /\ Cmos!Word16(x, y) = Word16(x, y)
         /\ Cmos!Page(x) = Page(x)
         /\ Cmos!Bit(x, y) = Bit(x, y)
         /\ Cmos!And8(x, y) = And8(x, y)
         /\ Cmos!Or8(x, y) = Or8(x, y)
         /\ Cmos!Xor8(x, y) = Xor8(x, y)
         /\ Cmos!AndNot8(x, y) = AndNot8(x, y)
         /\ Cmos!PByte(x) = PByte(x)
         /\ Cmos!PFlags(x) = PFlags(x)
         /\ Cmos!PutFlag(x, y, z) = PutFlag(x, y, z)
         /\ Cmos!STACK_START = STACK_START
  BY DEF Cmos!MEM_WORD, MEM_WORD, Cmos!MEM_TWO_WORDS, MEM_TWO_WORDS,
         Cmos!SIGNED_MEM_WORD, SIGNED_MEM_WORD, Cmos!Word16, Word16,
         Cmos!Page, Page, Cmos!Bit, Bit, Cmos!And8, And8, Cmos!Or8, Or8,
         Cmos!Xor8, Xor8, Cmos!AndNot8, AndNot8, Cmos!OfBits, OfBits,
         Cmos!PByte, PByte, Cmos!PFlags, PFlags, Cmos!FLAG, FLAG,
         Cmos!FLAG_BIT, FLAG_BIT, Cmos!PutFlag, PutFlag, Cmos!STACK_START,
         STACK_START
\* Both run the same handlers.
LEMMA SameHandlers ==
  ASSUME NEW h, NEW r, NEW m, NEW op, NEW variant
  PROVE  /\ Cmos!RegisterResult(h, r, m, op, variant)
              = RegisterResult(h, r, m, op, variant)
         /\ Cmos!RmwResult(h, r, m, op, variant)
              = RmwResult(h, r, m, op, variant)
         /\ Cmos!StoredByte(h, r) = StoredByte(h, r)
         /\ Cmos!PushedByte(h, r) = PushedByte(h, r)
         /\ Cmos!Pulled(h, r, m) = Pulled(h, r, m)
         /\ Cmos!Taken(h, r.P, m, op) = Taken(h, r.P, m, op)
  <1>1. Cmos!RegisterResult(h, r, m, op, variant)
          = RegisterResult(h, r, m, op, variant)
    BY DEF Cmos!RegisterResult, RegisterResult, Cmos!SetA, SetA, Cmos!SetX,
           SetX, Cmos!SetY, SetY, Cmos!set_zn, set_zn, Cmos!LAX, LAX,
           Cmos!ANC, ANC, Cmos!ALR, ALR, Cmos!ARR, ARR, Cmos!BIT, BIT,
           Cmos!Compare, Compare, Cmos!Carry, Carry, Cmos!adc_core, adc_core,
           Cmos!sbc_core, sbc_core, Cmos!Arith, Arith, Cmos!AdcOverflow,
           AdcOverflow, Cmos!SbcOverflow, SbcOverflow, Cmos!NMOS, NMOS,
           Cmos!MEM_WORD, MEM_WORD, Cmos!MEM_TWO_WORDS, MEM_TWO_WORDS,
           Cmos!SIGNED_MEM_WORD, SIGNED_MEM_WORD, Cmos!Bit, Bit, Cmos!And8,
           And8, Cmos!Or8, Or8, Cmos!Xor8, Xor8, Cmos!AndNot8, AndNot8,
           Cmos!OfBits, OfBits, Cmos!PByte, PByte, Cmos!PFlags, PFlags,
           Cmos!FLAG, FLAG, Cmos!FLAG_BIT, FLAG_BIT, Cmos!PutFlag, PutFlag
  <1>2. Cmos!RmwResult(h, r, m, op, variant) = RmwResult(h, r, m, op, variant)
    BY Zenon DEF Cmos!RmwResult, RmwResult, Cmos!Rmw, Rmw, Cmos!Shifted, Shifted,
           Cmos!ASL, ASL, Cmos!LSR, LSR, Cmos!ROL, ROL, Cmos!ROR, ROR,
           Cmos!INC, INC, Cmos!DEC, DEC, Cmos!DCP, DCP, Cmos!ISC, ISC,
           Cmos!SLO, SLO, Cmos!RLA, RLA, Cmos!SRE, SRE, Cmos!RRA, RRA,
           Cmos!TestBits, TestBits, Cmos!TRB, TRB, Cmos!TSB, TSB,
           Cmos!OpcodeBit, OpcodeBit, Cmos!RMB, RMB, Cmos!SMB, SMB,
           Cmos!SetA, SetA, Cmos!set_zn, set_zn, Cmos!Compare, Compare,
           Cmos!Carry, Carry, Cmos!adc_core, adc_core, Cmos!sbc_core,
           sbc_core, Cmos!Arith, Arith, Cmos!AdcOverflow, AdcOverflow,
           Cmos!SbcOverflow, SbcOverflow, Cmos!NMOS, NMOS, Cmos!MEM_WORD,
           MEM_WORD, Cmos!MEM_TWO_WORDS, MEM_TWO_WORDS, Cmos!SIGNED_MEM_WORD,
           SIGNED_MEM_WORD, Cmos!Bit, Bit, Cmos!And8, And8, Cmos!Or8, Or8,
           Cmos!Xor8, Xor8, Cmos!AndNot8, AndNot8, Cmos!OfBits, OfBits,
           Cmos!PByte, PByte, Cmos!PFlags, PFlags, Cmos!FLAG, FLAG,
           Cmos!FLAG_BIT, FLAG_BIT, Cmos!PutFlag, PutFlag
  <1>3. /\ Cmos!StoredByte(h, r) = StoredByte(h, r)
        /\ Cmos!PushedByte(h, r) = PushedByte(h, r)
        /\ Cmos!Pulled(h, r, m) = Pulled(h, r, m)
    BY DEF Cmos!StoredByte, StoredByte, Cmos!PushedByte, PushedByte,
           Cmos!Pulled, Pulled, Cmos!SetA, SetA, Cmos!SetX, SetX, Cmos!SetY,
           SetY, Cmos!set_zn, set_zn, Cmos!MEM_WORD, MEM_WORD,
           Cmos!MEM_TWO_WORDS, MEM_TWO_WORDS, Cmos!SIGNED_MEM_WORD,
           SIGNED_MEM_WORD, Cmos!Bit, Bit, Cmos!And8, And8, Cmos!Or8, Or8,
           Cmos!Xor8, Xor8, Cmos!AndNot8, AndNot8, Cmos!OfBits, OfBits,
           Cmos!PByte, PByte, Cmos!PFlags, PFlags, Cmos!FLAG, FLAG,
           Cmos!FLAG_BIT, FLAG_BIT, Cmos!PutFlag, PutFlag
  <1>4. Cmos!Taken(h, r.P, m, op) = Taken(h, r.P, m, op)
    BY DEF Cmos!Taken, Taken, Cmos!OpcodeBit, OpcodeBit, Cmos!Bit, Bit
  <1> QED
    BY <1>1, <1>2, <1>3, <1>4

----------------------------------------------------------------------------
(* Operators that read the registers or the memory: the two CPUs agree in  *)
(* a state where they are the same                                         *)

\* The bus and the stack.
LEMMA SameBus ==
  ASSUME Same, NEW m, NEW a, NEW b, NEW w
  PROVE  /\ Cmos!bus_read(a) = bus_read(a)
         /\ Cmos!bus_read16(a) = bus_read16(a)
         /\ Cmos!bus_write(m, a, b) = bus_write(m, a, b)
         /\ Cmos!push8(m, a, b) = push8(m, a, b)
         /\ Cmos!push16(m, a, w) = push16(m, a, w)
         /\ Cmos!pop8(a, b) = pop8(a, b)
         /\ Cmos!pop16(a, b) = pop16(a, b)
  BY DEF Same, Cmos!bus_read, bus_read, Cmos!bus_read16, bus_read16,
               Cmos!bus_write, bus_write, Cmos!push8, push8, Cmos!push16,
               push16, Cmos!pop8, pop8, Cmos!pop16, pop16, Cmos!Word16,
               Word16, Cmos!MEM_WORD, MEM_WORD, Cmos!MEM_TWO_WORDS,
               MEM_TWO_WORDS, Cmos!STACK_START, STACK_START

\* Operands, but that of JMP ($nnnn).
LEMMA SameOperand ==
  ASSUME Same, NEW mode, mode # "IND", NEW pc
  PROVE  Cmos!addr_resolve(mode, pc) = addr_resolve(mode, pc)
  <1>1. /\ \A a : Cmos!bus_read(a) = bus_read(a)
        /\ \A a : Cmos!bus_read16(a) = bus_read16(a)
        /\ \A a : Cmos!ZeroPagePointer(a) = ZeroPagePointer(a)
    BY SameBus, SameBasics DEF Cmos!ZeroPagePointer, ZeroPagePointer
  <1>2. /\ \A ea, n : Cmos!AtAddress(ea, n) = AtAddress(ea, n)
        /\ \A v, n : Cmos!Immediate(v, n) = Immediate(v, n)
        /\ \A base, i, n : Cmos!AtIndexed(base, i, n) = AtIndexed(base, i, n)
    BY DEF Cmos!AtAddress, AtAddress, Cmos!Immediate, Immediate,
           Cmos!AtIndexed, AtIndexed, Cmos!MEM_TWO_WORDS, MEM_TWO_WORDS,
           Cmos!Page, Page
  <1> QED
    BY <1>1, <1>2, SameBasics DEF Same, Cmos!addr_resolve, addr_resolve

\* What the remaining handlers read.
LEMMA SameReads ==
  ASSUME Same, NEW h, NEW e, NEW r
  PROVE  /\ Cmos!Data(e) = Data(e)
         /\ Cmos!BranchTarget(h, e, r) = BranchTarget(h, e, r)
         /\ Cmos!OneIf(h) = OneIf(h)
         /\ Cmos!VectorOf(h) = VectorOf(h)
  BY SameBus, SameBasics
     DEF Cmos!Data, Data, Cmos!BranchTarget, BranchTarget, Cmos!OneIf, OneIf,
         Cmos!VectorOf, VectorOf, Cmos!NMI_VECTOR, NMI_VECTOR,
         Cmos!IRQ_VECTOR, IRQ_VECTOR
----------------------------------------------------------------------------
(* Both CPUs run the same kind of handler *)

\* The dispatch of Instruction, for each CPU.
Executes(op, h, e, r) ==
  \/ RegisterOp(op, h, e, r)
  \/ AccumulatorOp(op, h, e, r)
  \/ RmwOp(op, h, e, r)
  \/ StoreOp(op, h, e, r)
  \/ PushOp(op, h, e, r)
  \/ PullOp(op, h, e, r)
  \/ BranchOp(op, h, e, r)
  \/ JMP(op, h, e, r)
  \/ JSR(op, h, e, r)
  \/ RTS(op, h, e, r)
  \/ RTI(op, h, e, r)
  \/ BRK(op, h, e, r)
  \/ WAI(op, h, e, r)
  \/ Stop(op, h, e, r)

CmosExecutes(op, h, e, r) ==
  \/ Cmos!RegisterOp(op, h, e, r)
  \/ Cmos!AccumulatorOp(op, h, e, r)
  \/ Cmos!RmwOp(op, h, e, r)
  \/ Cmos!StoreOp(op, h, e, r)
  \/ Cmos!PushOp(op, h, e, r)
  \/ Cmos!PullOp(op, h, e, r)
  \/ Cmos!BranchOp(op, h, e, r)
  \/ Cmos!JMP(op, h, e, r)
  \/ Cmos!JSR(op, h, e, r)
  \/ Cmos!RTS(op, h, e, r)
  \/ Cmos!RTI(op, h, e, r)
  \/ Cmos!BRK(op, h, e, r)
  \/ Cmos!WAI(op, h, e, r)
  \/ Cmos!Stop(op, h, e, r)

\* The kind of handler h is, by the disjunct of Executes that takes it.
Kind(h, e) ==
  CASE h \in RegisterHandlers -> "RegisterOp"
    [] h \in ShiftHandlers /\ ~ e.HAS_EA -> "AccumulatorOp"
    [] h \in RmwHandlers /\ (h \in ShiftHandlers => e.HAS_EA) -> "RmwOp"
    [] h \in StoreHandlers -> "StoreOp"
    [] h \in PushHandlers -> "PushOp"
    [] h \in PullHandlers -> "PullOp"
    [] h \in BranchHandlers -> "BranchOp"
    [] h \in {"STP", "op_kil"} -> "Stop"
    [] OTHER -> h

\* The sets of handlers have no member in common.
LEMMA KindOf ==
  ASSUME NEW h, NEW e
  PROVE  /\ h \in RegisterHandlers => Kind(h, e) = "RegisterOp"
         /\ h \in ShiftHandlers /\ ~ e.HAS_EA => Kind(h, e) = "AccumulatorOp"
         /\ h \in RmwHandlers /\ (h \in ShiftHandlers => e.HAS_EA)
              => Kind(h, e) = "RmwOp"
         /\ h \in StoreHandlers => Kind(h, e) = "StoreOp"
         /\ h \in PushHandlers => Kind(h, e) = "PushOp"
         /\ h \in PullHandlers => Kind(h, e) = "PullOp"
         /\ h \in BranchHandlers => Kind(h, e) = "BranchOp"
         /\ h \in {"STP", "op_kil"} => Kind(h, e) = "Stop"
         /\ h \in {"JMP", "JSR", "RTS", "RTI", "BRK", "WAI"} => Kind(h, e) = h
  BY DEF Kind, RegisterHandlers, ShiftHandlers, RmwHandlers, StoreHandlers,
         PushHandlers, PullHandlers, BranchHandlers

\* The guards of the handlers.
LEMMA KindExecuted ==
  ASSUME NEW op, NEW h, NEW e, NEW r
  PROVE  /\ RegisterOp(op, h, e, r) => Kind(h, e) = "RegisterOp"
         /\ AccumulatorOp(op, h, e, r) => Kind(h, e) = "AccumulatorOp"
         /\ RmwOp(op, h, e, r) => Kind(h, e) = "RmwOp"
         /\ StoreOp(op, h, e, r) => Kind(h, e) = "StoreOp"
         /\ PushOp(op, h, e, r) => Kind(h, e) = "PushOp"
         /\ PullOp(op, h, e, r) => Kind(h, e) = "PullOp"
         /\ BranchOp(op, h, e, r) => Kind(h, e) = "BranchOp"
         /\ JMP(op, h, e, r) => Kind(h, e) = "JMP"
         /\ JSR(op, h, e, r) => Kind(h, e) = "JSR"
         /\ RTS(op, h, e, r) => Kind(h, e) = "RTS"
         /\ RTI(op, h, e, r) => Kind(h, e) = "RTI"
         /\ BRK(op, h, e, r) => Kind(h, e) = "BRK"
         /\ WAI(op, h, e, r) => Kind(h, e) = "WAI"
         /\ Stop(op, h, e, r) => Kind(h, e) = "Stop"
         /\ Cmos!RegisterOp(op, h, e, r) => Kind(h, e) = "RegisterOp"
         /\ Cmos!AccumulatorOp(op, h, e, r) => Kind(h, e) = "AccumulatorOp"
         /\ Cmos!RmwOp(op, h, e, r) => Kind(h, e) = "RmwOp"
         /\ Cmos!StoreOp(op, h, e, r) => Kind(h, e) = "StoreOp"
         /\ Cmos!PushOp(op, h, e, r) => Kind(h, e) = "PushOp"
         /\ Cmos!PullOp(op, h, e, r) => Kind(h, e) = "PullOp"
         /\ Cmos!BranchOp(op, h, e, r) => Kind(h, e) = "BranchOp"
         /\ Cmos!JMP(op, h, e, r) => Kind(h, e) = "JMP"
         /\ Cmos!JSR(op, h, e, r) => Kind(h, e) = "JSR"
         /\ Cmos!RTS(op, h, e, r) => Kind(h, e) = "RTS"
         /\ Cmos!RTI(op, h, e, r) => Kind(h, e) = "RTI"
         /\ Cmos!BRK(op, h, e, r) => Kind(h, e) = "BRK"
         /\ Cmos!WAI(op, h, e, r) => Kind(h, e) = "WAI"
         /\ Cmos!Stop(op, h, e, r) => Kind(h, e) = "Stop"
  <1> USE KindOf
  <1>1. RegisterOp(op, h, e, r) => Kind(h, e) = "RegisterOp"
    BY DEF RegisterOp
  <1>2. AccumulatorOp(op, h, e, r) => Kind(h, e) = "AccumulatorOp"
    BY DEF AccumulatorOp
  <1>3. RmwOp(op, h, e, r) => Kind(h, e) = "RmwOp"
    BY DEF RmwOp
  <1>4. StoreOp(op, h, e, r) => Kind(h, e) = "StoreOp"
    BY DEF StoreOp
  <1>5. PushOp(op, h, e, r) => Kind(h, e) = "PushOp"
    BY DEF PushOp
  <1>6. PullOp(op, h, e, r) => Kind(h, e) = "PullOp"
    BY DEF PullOp
  <1>7. BranchOp(op, h, e, r) => Kind(h, e) = "BranchOp"
    BY DEF BranchOp
  <1>8. JMP(op, h, e, r) => Kind(h, e) = "JMP"
    BY DEF JMP
  <1>9. JSR(op, h, e, r) => Kind(h, e) = "JSR"
    BY DEF JSR
  <1>10. RTS(op, h, e, r) => Kind(h, e) = "RTS"
    BY DEF RTS
  <1>11. RTI(op, h, e, r) => Kind(h, e) = "RTI"
    BY DEF RTI
  <1>12. BRK(op, h, e, r) => Kind(h, e) = "BRK"
    BY DEF BRK
  <1>13. WAI(op, h, e, r) => Kind(h, e) = "WAI"
    BY DEF WAI
  <1>14. Stop(op, h, e, r) => Kind(h, e) = "Stop"
    BY DEF Stop
  <1>15. Cmos!RegisterOp(op, h, e, r) => Kind(h, e) = "RegisterOp"
    BY DEF Cmos!RegisterOp, Cmos!RegisterHandlers, RegisterHandlers
  <1>16. Cmos!AccumulatorOp(op, h, e, r) => Kind(h, e) = "AccumulatorOp"
    BY DEF Cmos!AccumulatorOp, Cmos!ShiftHandlers, ShiftHandlers
  <1>17. Cmos!RmwOp(op, h, e, r) => Kind(h, e) = "RmwOp"
    BY DEF Cmos!RmwOp, Cmos!RmwHandlers, RmwHandlers, Cmos!ShiftHandlers,
                       ShiftHandlers
  <1>18. Cmos!StoreOp(op, h, e, r) => Kind(h, e) = "StoreOp"
    BY DEF Cmos!StoreOp, Cmos!StoreHandlers, StoreHandlers
  <1>19. Cmos!PushOp(op, h, e, r) => Kind(h, e) = "PushOp"
    BY DEF Cmos!PushOp, Cmos!PushHandlers, PushHandlers
  <1>20. Cmos!PullOp(op, h, e, r) => Kind(h, e) = "PullOp"
    BY DEF Cmos!PullOp, Cmos!PullHandlers, PullHandlers
  <1>21. Cmos!BranchOp(op, h, e, r) => Kind(h, e) = "BranchOp"
    BY DEF Cmos!BranchOp, Cmos!BranchHandlers, BranchHandlers
  <1>22. Cmos!JMP(op, h, e, r) => Kind(h, e) = "JMP"
    BY DEF Cmos!JMP
  <1>23. Cmos!JSR(op, h, e, r) => Kind(h, e) = "JSR"
    BY DEF Cmos!JSR
  <1>24. Cmos!RTS(op, h, e, r) => Kind(h, e) = "RTS"
    BY DEF Cmos!RTS
  <1>25. Cmos!RTI(op, h, e, r) => Kind(h, e) = "RTI"
    BY DEF Cmos!RTI
  <1>26. Cmos!BRK(op, h, e, r) => Kind(h, e) = "BRK"
    BY DEF Cmos!BRK
  <1>27. Cmos!WAI(op, h, e, r) => Kind(h, e) = "WAI"
    BY DEF Cmos!WAI
  <1>28. Cmos!Stop(op, h, e, r) => Kind(h, e) = "Stop"
    BY DEF Cmos!Stop
  <1> QED
    BY <1>1, <1>2, <1>3, <1>4, <1>5, <1>6, <1>7, <1>8, <1>9, <1>10, <1>11, <1>12, <1>13, <1>14, <1>15, <1>16, <1>17, <1>18, <1>19, <1>20, <1>21, <1>22, <1>23, <1>24, <1>25, <1>26, <1>27, <1>28

\* So the two CPUs run a handler of the same kind.
LEMMA SameKind ==
  ASSUME NEW op, NEW h, NEW e, NEW f, NEW r, e.HAS_EA = f.HAS_EA,
         Executes(op, h, e, r), CmosExecutes(op, h, f, r)
  PROVE  \/ RegisterOp(op, h, e, r) /\ Cmos!RegisterOp(op, h, f, r)
         \/ AccumulatorOp(op, h, e, r) /\ Cmos!AccumulatorOp(op, h, f, r)
         \/ RmwOp(op, h, e, r) /\ Cmos!RmwOp(op, h, f, r)
         \/ StoreOp(op, h, e, r) /\ Cmos!StoreOp(op, h, f, r)
         \/ PushOp(op, h, e, r) /\ Cmos!PushOp(op, h, f, r)
         \/ PullOp(op, h, e, r) /\ Cmos!PullOp(op, h, f, r)
         \/ BranchOp(op, h, e, r) /\ Cmos!BranchOp(op, h, f, r)
         \/ JMP(op, h, e, r) /\ Cmos!JMP(op, h, f, r)
         \/ JSR(op, h, e, r) /\ Cmos!JSR(op, h, f, r)
         \/ RTS(op, h, e, r) /\ Cmos!RTS(op, h, f, r)
         \/ RTI(op, h, e, r) /\ Cmos!RTI(op, h, f, r)
         \/ BRK(op, h, e, r) /\ Cmos!BRK(op, h, f, r)
         \/ WAI(op, h, e, r) /\ Cmos!WAI(op, h, f, r)
         \/ Stop(op, h, e, r) /\ Cmos!Stop(op, h, f, r)
  <1>1. Kind(h, e) = Kind(h, f)
    BY DEF Kind
  <1> QED
    BY <1>1, KindExecuted DEF Executes, CmosExecutes
----------------------------------------------------------------------------
(* One step of both, handler by handler *)

\* The two CPUs before a step: equal, running and not interrupted.
Ready ==
  /\ Same /\ CpuInv
  /\ CPU_VARIANT_MODE = NMOS /\ cVARIANT = CMOS
  /\ CPU_STOPPED = 0 /\ CPU_WAITING = 0 /\ cSTOPPED = 0 /\ cWAITING = 0
  /\ ic.nmi_pending = 0 /\ ic.irq_line = 0
  /\ cPolls = global_cycle_count

\* Nothing halts and no interrupt is raised.
KeepRunning ==
  /\ CPU_STOPPED' = 0 /\ CPU_WAITING' = 0 /\ cSTOPPED' = 0 /\ cWAITING' = 0
  /\ ic'.nmi_pending = 0 /\ ic'.irq_line = 0

\* Both CPUs have done the same.
Alike == REG' = cREG' /\ mem' = cMem' /\ CYCLES' = cCYCLES' /\ KeepRunning

\* They are charged the same.
LEMMA SameCharge ==
  ASSUME Ready, NEW op \in Official, NEW e, NEW extra,
         Charge(op, e, extra), Cmos!Charge(op, e, extra)
  PROVE  CYCLES' = cCYCLES'
  BY DecodedAlike, SameTables, SameReads
     DEF Ready, Same, Charge, Cmos!Charge

\* Running leaves the flags and the controllers alone.
LEMMA BothRunning ==
  ASSUME Ready, Running, Cmos!Running PROVE KeepRunning
  BY DEF Ready, Same, Running, Cmos!Running, KeepRunning

\* The variant matters to ADC and SBC only.
LEMMA RegisterVariant ==
  ASSUME NEW h, h \notin {"ADC", "SBC", "ALT_SBC"}, NEW r, NEW m, NEW op, NEW v,
         NEW w
  PROVE  RegisterResult(h, r, m, op, v) = RegisterResult(h, r, m, op, w)
  BY DEF RegisterResult

\* And to the undocumented ISC and RRA.
LEMMA RmwVariant ==
  ASSUME NEW h, h \notin {"ISC", "RRA"}, NEW r, NEW m, NEW op, NEW v, NEW w
  PROVE  RmwResult(h, r, m, op, v) = RmwResult(h, r, m, op, w)
  BY DEF RmwResult

\* Register handlers but ADC and SBC.
LEMMA RegisterAlike ==
  ASSUME Ready, NEW op \in Official, NEW h, h \notin {"ADC", "SBC", "ALT_SBC"},
         NEW e, NEW r,
         RegisterOp(op, h, e, r), Cmos!RegisterOp(op, h, e, r)
  PROVE  Alike
  <1>1. CYCLES' = cCYCLES' /\ KeepRunning
    BY SameCharge, BothRunning DEF RegisterOp, Cmos!RegisterOp
  <1>2. REG' = cREG'
    BY SameHandlers, SameReads, RegisterVariant
       DEF Ready, RegisterOp, Cmos!RegisterOp
  <1>3. mem' = cMem'
    BY DEF Ready, Same, RegisterOp, Cmos!RegisterOp
  <1> QED
    BY <1>1, <1>2, <1>3 DEF Alike

\* The shifts of the accumulator.
LEMMA AccumulatorAlike ==
  ASSUME Ready, NEW op \in Official, NEW h, NEW e, NEW r,
         AccumulatorOp(op, h, e, r), Cmos!AccumulatorOp(op, h, e, r)
  PROVE  Alike
  <1>1. CYCLES' = cCYCLES' /\ KeepRunning
    BY SameCharge, BothRunning DEF AccumulatorOp, Cmos!AccumulatorOp
  <1>2. h \notin {"ISC", "RRA"}
    BY DEF AccumulatorOp, ShiftHandlers
  <1>3. REG' = cREG'
    BY <1>2, SameHandlers, RmwVariant
       DEF Ready, AccumulatorOp, Cmos!AccumulatorOp
  <1>4. mem' = cMem'
    BY DEF Ready, Same, AccumulatorOp, Cmos!AccumulatorOp
  <1> QED
    BY <1>1, <1>3, <1>4 DEF Alike

\* Read-modify-write handlers.
LEMMA RmwAlike ==
  ASSUME Ready, NEW op \in Official, NEW h, h \notin {"ISC", "RRA"},
         NEW e, NEW r,
         RmwOp(op, h, e, r), Cmos!RmwOp(op, h, e, r)
  PROVE  Alike
  <1>1. CYCLES' = cCYCLES' /\ KeepRunning
    BY SameCharge, BothRunning DEF RmwOp, Cmos!RmwOp
  <1>2. Cmos!RmwResult(h, r, Cmos!bus_read(e.EA), op, cVARIANT)
          = RmwResult(h, r, bus_read(e.EA), op, CPU_VARIANT_MODE)
    BY SameHandlers, SameBus, RmwVariant DEF Ready
  <1>3. REG' = cREG'
    BY <1>2 DEF RmwOp, Cmos!RmwOp
  <1>4. mem' = cMem'
    BY <1>2, SameBus DEF Ready, Same, RmwOp, Cmos!RmwOp
  <1> QED
    BY <1>1, <1>3, <1>4 DEF Alike

\* Stores.
LEMMA StoreAlike ==
  ASSUME Ready, NEW op \in Official, NEW h, NEW e, NEW r,
         StoreOp(op, h, e, r), Cmos!StoreOp(op, h, e, r)
  PROVE  Alike
  <1>1. CYCLES' = cCYCLES' /\ KeepRunning
    BY SameCharge, BothRunning DEF StoreOp, Cmos!StoreOp
  <1>2. REG' = cREG' /\ mem' = cMem'
    BY SameBus, SameHandlers DEF Ready, Same, StoreOp, Cmos!StoreOp
  <1> QED
    BY <1>1, <1>2 DEF Alike

\* The stack handlers.
LEMMA StackAlike ==
  ASSUME Ready, NEW op \in Official, NEW h, NEW e, NEW r,
         \/ PushOp(op, h, e, r) /\ Cmos!PushOp(op, h, e, r)
         \/ PullOp(op, h, e, r) /\ Cmos!PullOp(op, h, e, r)
         \/ JSR(op, h, e, r) /\ Cmos!JSR(op, h, e, r)
         \/ RTS(op, h, e, r) /\ Cmos!RTS(op, h, e, r)
         \/ RTI(op, h, e, r) /\ Cmos!RTI(op, h, e, r)
  PROVE  Alike
  <1>0. mem = cMem /\ \A x : Cmos!MEM_WORD(x) = MEM_WORD(x)
    BY SameBasics DEF Ready, Same
  <1>1. ASSUME PushOp(op, h, e, r), Cmos!PushOp(op, h, e, r) PROVE Alike
    <2>1. CYCLES' = cCYCLES' /\ KeepRunning
      BY <1>1, SameCharge, BothRunning DEF PushOp, Cmos!PushOp
    <2>2. REG' = cREG'
      BY <1>0, <1>1 DEF PushOp, Cmos!PushOp
    <2>3. mem' = cMem'
      BY <1>0, <1>1, SameBus, SameHandlers DEF Ready, PushOp, Cmos!PushOp
    <2> QED
      BY <2>1, <2>2, <2>3 DEF Alike
  <1>2. ASSUME PullOp(op, h, e, r), Cmos!PullOp(op, h, e, r) PROVE Alike
    <2>1. CYCLES' = cCYCLES' /\ KeepRunning
      BY <1>2, SameCharge, BothRunning DEF PullOp, Cmos!PullOp
    <2>2. REG' = cREG'
      BY <1>0, <1>2, SameBus, SameHandlers DEF Ready, PullOp, Cmos!PullOp
    <2>3. mem' = cMem'
      BY <1>0, <1>2 DEF PullOp, Cmos!PullOp
    <2> QED
      BY <2>1, <2>2, <2>3 DEF Alike
  <1>3. ASSUME JSR(op, h, e, r), Cmos!JSR(op, h, e, r) PROVE Alike
    <2>1. CYCLES' = cCYCLES' /\ KeepRunning
      BY <1>3, SameCharge, BothRunning DEF JSR, Cmos!JSR
    <2>2. REG' = cREG'
      BY <1>0, <1>3 DEF JSR, Cmos!JSR
    <2>3. mem' = cMem'
      BY <1>0, <1>3, SameBus, SameBasics DEF Ready, JSR, Cmos!JSR
    <2> QED
      BY <2>1, <2>2, <2>3 DEF Alike
  <1>4. ASSUME RTS(op, h, e, r), Cmos!RTS(op, h, e, r) PROVE Alike
    <2>1. CYCLES' = cCYCLES' /\ KeepRunning
      BY <1>4, SameCharge, BothRunning DEF RTS, Cmos!RTS
    <2>2. REG' = cREG'
      BY <1>0, <1>4, SameBus, SameBasics DEF Ready, RTS, Cmos!RTS
    <2>3. mem' = cMem'
      BY <1>0, <1>4 DEF RTS, Cmos!RTS
    <2> QED
      BY <2>1, <2>2, <2>3 DEF Alike
  <1>5. ASSUME RTI(op, h, e, r), Cmos!RTI(op, h, e, r) PROVE Alike
    <2>1. CYCLES' = cCYCLES' /\ KeepRunning
      BY <1>5, SameCharge, BothRunning DEF RTI, Cmos!RTI
    <2>2. REG' = cREG'
      BY <1>0, <1>5, SameBus, SameBasics DEF Ready, RTI, Cmos!RTI
    <2>3. mem' = cMem'
      BY <1>0, <1>5 DEF RTI, Cmos!RTI
    <2> QED
      BY <2>1, <2>2, <2>3 DEF Alike
  <1> QED
    BY <1>1, <1>2, <1>3, <1>4, <1>5

\* Branches.
LEMMA BranchAlike ==
  ASSUME Ready, NEW op \in Official, NEW h, NEW e, NEW r,
         BranchOp(op, h, e, r), Cmos!BranchOp(op, h, e, r)
  PROVE  Alike
  <1> DEFINE taken  == Taken(h, r.P, bus_read(e.EA), op)
             target == BranchTarget(h, e, r)
             extra  == OneIf(taken) + OneIf(taken /\ Page(r.PC) # Page(target))
  <1>1. /\ Cmos!Taken(h, r.P, Cmos!bus_read(e.EA), op) = taken
        /\ Cmos!BranchTarget(h, e, r) = target
    BY SameHandlers, SameBus, SameReads DEF Ready
  <1>2. /\ \A x : Cmos!OneIf(x) = OneIf(x)
        /\ \A x : Cmos!Page(x) = Page(x)
    BY SameReads, SameBasics DEF Ready
  <1>3. Charge(op, e, extra) /\ Cmos!Charge(op, e, extra)
    BY <1>1, <1>2 DEF BranchOp, Cmos!BranchOp
  <1>4. CYCLES' = cCYCLES' /\ KeepRunning
    BY <1>3, SameCharge, BothRunning DEF BranchOp, Cmos!BranchOp
  <1>5. REG' = cREG' /\ mem' = cMem'
    BY <1>1 DEF Ready, Same, BranchOp, Cmos!BranchOp
  <1> QED
    BY <1>4, <1>5 DEF Alike
\* Registers x and y differ only in flags of fs.
DifferIn(x, y, fs) == [x EXCEPT !.P = @ \ fs] = [y EXCEPT !.P = @ \ fs]

\* N and Z are all that the variants disagree on after decimal arithmetic.
LEMMA ArithVariant ==
  ASSUME NEW r \in LiveRegister, NEW res, NEW binary, NEW carry, NEW ovf
  PROVE  LET x == Arith(r, NMOS, res, binary, carry, ovf)
             y == Arith(r, CMOS, res, binary, carry, ovf)
         IN  DifferIn(x, y, {"N", "Z"}) /\ ("D" \notin r.P => x = y)
  <1> DEFINE p == PutFlag(PutFlag(r.P, "C", carry), "V", ovf)
             zn(variant) == IF "D" \in r.P /\ variant = NMOS
                            THEN MEM_WORD(binary) ELSE res
             x == [r EXCEPT !.A = res, !.P = set_zn(p, zn(NMOS))]
             y == [r EXCEPT !.A = res, !.P = set_zn(p, zn(CMOS))]
  <1>1. /\ Arith(r, NMOS, res, binary, carry, ovf) = x
        /\ Arith(r, CMOS, res, binary, carry, ovf) = y
    BY DEF Arith
  <1>2. \A v : set_zn(p, v) \ {"N", "Z"} = p \ {"N", "Z"}
    <2> HIDE DEF p
    <2> QED
      BY DEF set_zn, PutFlag
  <1>3. "D" \notin r.P => zn(NMOS) = zn(CMOS)
    OBVIOUS
  <1>4. set_zn(p, zn(NMOS)) \ {"N", "Z"} = set_zn(p, zn(CMOS)) \ {"N", "Z"}
    BY <1>2
  <1> HIDE DEF p, zn
  <1>5. DifferIn(x, y, {"N", "Z"})
    BY <1>4 DEF DifferIn, LiveRegister
  <1> QED
    BY <1>1, <1>3, <1>5

\* ADC and SBC.
LEMMA ArithmeticAlike ==
  ASSUME Ready, NEW op \in Official, NEW h \in {"ADC", "SBC"}, NEW e,
         NEW r \in LiveRegister,
         RegisterOp(op, h, e, r), Cmos!RegisterOp(op, h, e, r)
  PROVE  /\ mem' = cMem' /\ CYCLES' = cCYCLES' /\ KeepRunning
         /\ REG' = cREG' \/ ("D" \in r.P /\ DifferIn(REG', cREG', {"N", "Z"}))
  <1>1. CYCLES' = cCYCLES' /\ KeepRunning
    BY SameCharge, BothRunning DEF RegisterOp, Cmos!RegisterOp
  <1>2. mem' = cMem'
    BY DEF Ready, Same, RegisterOp, Cmos!RegisterOp
  <1>3. /\ REG' = RegisterResult(h, r, Data(e), op, NMOS)
        /\ cREG' = RegisterResult(h, r, Data(e), op, CMOS)
    BY SameHandlers, SameReads DEF Ready, RegisterOp, Cmos!RegisterOp
  <1>4. ASSUME NEW v
        PROVE  LET x == adc_core(r, v, NMOS)
                   y == adc_core(r, v, CMOS)
               IN  x = y \/ ("D" \in r.P /\ DifferIn(x, y, {"N", "Z"}))
    BY ArithVariant DEF adc_core
  <1>5. ASSUME NEW v
        PROVE  LET x == sbc_core(r, v, NMOS)
                   y == sbc_core(r, v, CMOS)
               IN  x = y \/ ("D" \in r.P /\ DifferIn(x, y, {"N", "Z"}))
    BY ArithVariant DEF sbc_core
  <1>6. h = "ADC" => /\ REG' = adc_core(r, Data(e), NMOS)
                     /\ cREG' = adc_core(r, Data(e), CMOS)
    BY <1>3 DEF RegisterResult
  <1>7. h = "SBC" => /\ REG' = sbc_core(r, Data(e), NMOS)
                     /\ cREG' = sbc_core(r, Data(e), CMOS)
    BY <1>3 DEF RegisterResult
  <1> QED
    BY <1>1, <1>2, <1>4, <1>5, <1>6, <1>7

\* A recorded BRK leaves the lines alone.
LEMMA BrkLines ==
  ASSUME NEW c \in INTERRUPT_CONTROLLER, NEW pc, NEW p, NEW n
  PROVE  LET d == Acknowledge(c, "INT_BRK", pc, p, n)
         IN  d.nmi_pending = c.nmi_pending /\ d.irq_line = c.irq_line
  BY DEF Acknowledge, record_interrupt, INTERRUPT_CONTROLLER

\* BRK: the 65C02 clears D.
LEMMA BrkAlike ==
  ASSUME Ready, NEW op \in Official, NEW h, NEW e, NEW r \in LiveRegister,
         BRK(op, h, e, r), Cmos!BRK(op, h, e, r)
  PROVE  /\ mem' = cMem' /\ CYCLES' = cCYCLES' /\ KeepRunning
         /\ DifferIn(REG', cREG', {"D"})
  <1>1. CYCLES' = cCYCLES'
    BY SameCharge DEF BRK, Cmos!BRK
  <1>2. ic \in INTERRUPT_CONTROLLER
    BY DEF Ready, CpuInv
  <1>3. KeepRunning
    BY <1>2, BrkLines
       DEF Ready, BRK, Cmos!BRK, InterruptSequence, Cmos!InterruptSequence,
           KeepRunning
  <1>4. mem' = cMem'
    BY SameBus, SameBasics
       DEF Ready, Same, BRK, Cmos!BRK, InterruptSequence,
           Cmos!InterruptSequence
  <1> DEFINE s == MEM_WORD(r.S - 3)
             v == bus_read16(VectorOf("INT_BRK"))
             x == [r EXCEPT !.S = s, !.P = (r.P \cup {"I"}) \ {}, !.PC = v]
             y == [r EXCEPT !.S = s, !.P = (r.P \cup {"I"}) \ {"D"}, !.PC = v]
  <1>5. REG' = x
    <2>1. CPU_VARIANT_MODE # CMOS
      BY DEF Ready, NMOS, CMOS
    <2> QED
      BY <2>1 DEF BRK, InterruptSequence
  <1>6. cREG' = y
    <2>1. cVARIANT = Cmos!CMOS
      BY DEF Ready, CMOS, Cmos!CMOS
    <2>2. /\ Cmos!bus_read16(Cmos!VectorOf("INT_BRK")) = v
          /\ Cmos!MEM_WORD(r.S - 3) = s
      BY SameBus, SameReads, SameBasics DEF Ready
    <2> QED
      BY <2>1, <2>2 DEF Cmos!BRK, Cmos!InterruptSequence
  <1>7. ((r.P \cup {"I"}) \ {}) \ {"D"} = ((r.P \cup {"I"}) \ {"D"}) \ {"D"}
    OBVIOUS
  <1> HIDE DEF s, v
  <1>8. DifferIn(x, y, {"D"})
    BY <1>7 DEF DifferIn, LiveRegister
  <1> QED
    BY <1>1, <1>3, <1>4, <1>5, <1>6, <1>8

\* JMP, whose operands e and f may differ: the 65C02 takes a cycle more for
\* JMP ($nnnn).
LEMMA JmpAlike ==
  ASSUME Ready, NEW op \in Official, NEW h, NEW e, NEW f,
         NEW r \in LiveRegister, e.PAGE_CROSS = f.PAGE_CROSS,
         JMP(op, h, e, r), Cmos!JMP(op, h, f, r)
  PROVE  /\ mem' = cMem' /\ KeepRunning
         /\ e.EA = f.EA => REG' = cREG'
         /\ [REG' EXCEPT !.PC = 0] = [cREG' EXCEPT !.PC = 0]
         /\ cCYCLES' = (CYCLES' + OneIf(op = \h6C)) % CYCLES_MOD
  <1>1. mem' = cMem' /\ KeepRunning
    BY BothRunning DEF Ready, Same, JMP, Cmos!JMP
  <1>2. REG' = [r EXCEPT !.PC = e.EA] /\ cREG' = [r EXCEPT !.PC = f.EA]
    BY DEF JMP, Cmos!JMP
  <1>3. [REG' EXCEPT !.PC = 0] = [cREG' EXCEPT !.PC = 0]
    BY <1>2 DEF LiveRegister
  <1> DEFINE n == CYCLES + Entry(CYCLE_BASE, op)
                   + OneIf(e.PAGE_CROSS /\ op \notin op_suppresses_pagecross)
  <1>4. n \in Int
    BY NotOverridden, CycleTable DEF OneIf, Ready, CpuInv
  <1>5. CYCLES' = (n + 0) % CYCLES_MOD
    <2>1. ~ (CPU_VARIANT_MODE = CMOS)
      BY DEF Ready, NMOS, CMOS
    <2> QED
      BY <2>1, DecodedAlike DEF Ready, JMP, Charge, OneIf
  <1>6. cCYCLES' = (n + OneIf(op = \h6C)) % CYCLES_MOD
    <2>1. cVARIANT = Cmos!CMOS
      BY DEF Ready, CMOS, Cmos!CMOS
    <2>2. \A x : Cmos!OneIf(x) = OneIf(x)
      BY SameReads DEF Ready
    <2> QED
      BY <2>1, <2>2, DecodedAlike, SameTables
         DEF Ready, Same, Cmos!JMP, Cmos!Charge
  <1> HIDE DEF n
  <1>7. OneIf(op = \h6C) \in {0, 1} /\ CYCLES_MOD \in Nat \ {0}
    BY CpuAssumption DEF OneIf
  <1>8. \A k \in {0, 1} :
          (n + k) % CYCLES_MOD = ((n % CYCLES_MOD) + k) % CYCLES_MOD
    <2>1. n % CYCLES_MOD \in 0 .. CYCLES_MOD - 1
      BY <1>4, <1>7
    <2>2. (n % CYCLES_MOD) % CYCLES_MOD = n % CYCLES_MOD
      BY <1>7, <2>1
    <2>3. (n + 1) % CYCLES_MOD = ((n % CYCLES_MOD) + 1) % CYCLES_MOD
      BY <1>4, <1>7, NextRemainder
    <2> QED
      BY <1>4, <2>1, <2>2, <2>3
  <1> QED
    BY <1>1, <1>2, <1>3, <1>4, <1>5, <1>6, <1>7, <1>8
----------------------------------------------------------------------------
(* The invariant *)

\* What a step may leave different, the opcode, flags and pointer being those
\* it started from.
StepDiffers(op, p, pointer) ==
  /\ mem' = cMem'
  /\ \/ REG' = cREG'
     \/ /\ Entry(INSTR_HANDLERS, op) \in {"ADC", "SBC"}
        /\ "D" \in p
        /\ DifferIn(REG', cREG', {"N", "Z"})
     \/ /\ op = \h6C /\ pointer % 256 = 255
        /\ [REG' EXCEPT !.PC = 0] = [cREG' EXCEPT !.PC = 0]
     \/ op = \h00 /\ DifferIn(REG', cREG', {"D"})
  /\ cCYCLES' = (CYCLES' + OneIf(op = \h6C)) % CYCLES_MOD
  /\ KeepRunning

\* The operands of one opcode on both CPUs.
LEMMA OperandsAlike ==
  ASSUME Ready, NEW op \in Official, NEW pc
  PROVE  LET e == addr_resolve(Entry(INST_TABLE, op), pc)
             f == Cmos!addr_resolve(Entry(INST_TABLE, op), pc)
         IN  /\ e.HAS_EA = f.HAS_EA /\ e.PAGE_CROSS = f.PAGE_CROSS
             /\ e.len = f.len
             /\ op # \h6C => e = f
             /\ bus_read16(pc) % 256 # 255 => e = f
  <1> DEFINE e == addr_resolve(Entry(INST_TABLE, op), pc)
             f == Cmos!addr_resolve(Entry(INST_TABLE, op), pc)
  <1>1. CASE op # \h6C
    <2>1. e = f
      BY <1>1, OfficialEntries, SameOperand DEF Ready
    <2> QED
      BY <1>1, <2>1
  <1>2. CASE op = \h6C
    <2> DEFINE w == bus_read16(pc)
    <2>1. Entry(INST_TABLE, op) = "IND"
      BY <1>2, OfficialEntries
    <2>2. /\ e = AtAddress(addr_ind(w), 2)
          /\ f = Cmos!AtAddress(Cmos!addr_ind(Cmos!bus_read16(pc)), 2)
      BY <2>1 DEF addr_resolve, Cmos!addr_resolve
    <2>3. Cmos!bus_read16(pc) = w /\ Cmos!bus_read16(w) = bus_read16(w)
      BY SameBus DEF Ready
    <2>4. \A ea : Cmos!AtAddress(ea, 2) = AtAddress(ea, 2)
      BY DEF Cmos!AtAddress, AtAddress
    <2>5. Cmos!addr_ind(w) = bus_read16(w)
      <3>1. cVARIANT # Cmos!NMOS
        BY DEF Ready, CMOS, Cmos!NMOS
      <3> QED
        BY <2>3, <3>1 DEF Cmos!addr_ind
    <2>6. w % 256 # 255 => addr_ind(w) = bus_read16(w)
      BY DEF addr_ind
    <2>7. e = AtAddress(addr_ind(w), 2) /\ f = AtAddress(bus_read16(w), 2)
      BY <2>2, <2>3, <2>4, <2>5
    <2> HIDE DEF e, f, w
    <2>8. /\ e.HAS_EA = f.HAS_EA /\ e.PAGE_CROSS = f.PAGE_CROSS
          /\ e.len = f.len
      BY <2>7 DEF AtAddress
    <2> QED
      BY <1>2, <2>6, <2>7, <2>8 DEF e, f, w
  <1> QED
    BY <1>1, <1>2

\* One instruction of each.
LEMMA InstructionAlike ==
  ASSUME Ready, CpuInv', bus_read(REG.PC) \in Official,
         Instruction, Cmos!Instruction
  PROVE  StepDiffers(bus_read(REG.PC), REG.P,
                     bus_read16(MEM_TWO_WORDS(REG.PC + 1)))
  <1> DEFINE op == bus_read(REG.PC)
             h  == Entry(INSTR_HANDLERS, op)
             pc == MEM_TWO_WORDS(REG.PC + 1)
             e  == addr_resolve(Entry(INST_TABLE, op), pc)
             f  == Cmos!addr_resolve(Entry(INST_TABLE, op), pc)
             r  == [REG EXCEPT !.PC = MEM_TWO_WORDS(pc + e.len)]
  <1>1. Executes(op, h, e, r)
    <2>1. /\ instr_dispatch(op, CPU_VARIANT_MODE) = h
          /\ AddrMode(op, CPU_VARIANT_MODE) = Entry(INST_TABLE, op)
      BY DecodedAlike DEF Ready
    <2> QED
      BY <2>1 DEF Instruction, Executes
  <1>2. /\ e.HAS_EA = f.HAS_EA /\ e.PAGE_CROSS = f.PAGE_CROSS
        /\ e.len = f.len
        /\ op # \h6C => e = f
        /\ bus_read16(pc) % 256 # 255 => e = f
    BY OperandsAlike
  <1>3. CmosExecutes(op, h, f, r)
    <2>1. Cmos!bus_read(cREG.PC) = op /\ cREG = REG
      BY SameBus DEF Ready, Same
    <2>2. /\ Cmos!instr_dispatch(op, cVARIANT) = h
          /\ Cmos!AddrMode(op, cVARIANT) = Entry(INST_TABLE, op)
      BY SameTables, DecodedAlike DEF Ready
    <2>3. \A x : Cmos!MEM_TWO_WORDS(x) = MEM_TWO_WORDS(x)
      BY SameBasics
    <2>4. r = [REG EXCEPT !.PC = MEM_TWO_WORDS(pc + f.len)]
      BY <1>2
    <2> HIDE DEF h, f, r
    <2> QED
      BY <2>1, <2>2, <2>3, <2>4 DEF Cmos!Instruction, CmosExecutes, f
  <1>4. r \in LiveRegister /\ r.P = REG.P
    <2>1. REG \in LiveRegister /\ pc \in Word /\ pc \in Int
      BY WordOf, WordIsInt DEF Ready, CpuInv, LiveRegister
    <2>2. e.len \in Int
      <3>1. IsOperand(e)
        BY <2>1, OperandType DEF Ready
      <3> QED
        BY <3>1 DEF IsOperand
    <2>3. MEM_TWO_WORDS(pc + e.len) \in Word
      BY <2>1, <2>2, WordOf
    <2> HIDE DEF e, pc
    <2> QED
      BY <2>1, <2>3 DEF LiveRegister
  <1>5. h \notin VariantHandlers /\ (h = "BRK" => op = \h00)
        /\ (op = \h6C => h = "JMP")
    BY OfficialEntries
  <1>6. CYCLES' \in 0 .. CYCLES_MOD - 1 /\ CYCLES_MOD \in Nat \ {0}
    BY CpuAssumption DEF CpuInv
  <1>7. op # \h6C => (CYCLES' + OneIf(op = \h6C)) % CYCLES_MOD = CYCLES'
    <2>1. \A c \in 0 .. CYCLES_MOD - 1 : (c + 0) % CYCLES_MOD = c
      BY <1>6
    <2>2. op # \h6C => OneIf(op = \h6C) = 0
      BY DEF OneIf
    <2> HIDE DEF op
    <2> QED
      BY <1>6, <2>1, <2>2
  <1> HIDE DEF op, h, pc, e, f, r
  <1> DEFINE Goal == StepDiffers(op, REG.P, bus_read16(pc))
  <1> SUFFICES Goal
    BY DEF op, pc
  <1>8. ASSUME Alike, op # \h6C PROVE Goal
    BY <1>7, <1>8 DEF Alike, StepDiffers
  <1>9. ASSUME JMP(op, h, e, r), Cmos!JMP(op, h, f, r) PROVE Goal
    <2>1. /\ mem' = cMem' /\ KeepRunning
          /\ e.EA = f.EA => REG' = cREG'
          /\ [REG' EXCEPT !.PC = 0] = [cREG' EXCEPT !.PC = 0]
          /\ cCYCLES' = (CYCLES' + OneIf(op = \h6C)) % CYCLES_MOD
      BY <1>2, <1>4, <1>9, JmpAlike DEF op
    <2> QED
      BY <1>2, <2>1 DEF StepDiffers
  <1>10. CASE op = \h6C
    <2>1. h = "JMP" /\ Kind(h, e) = "JMP"
      BY <1>5, <1>10, KindOf
    <2>2. JMP(op, h, e, r) /\ Cmos!JMP(op, h, f, r)
      BY <1>1, <1>2, <1>3, <2>1, SameKind, KindExecuted
    <2> QED
      BY <1>9, <2>2
  <1>11. CASE op # \h6C
    <2>1. e = f
      BY <1>2, <1>11
    <2>2. ASSUME RegisterOp(op, h, e, r), Cmos!RegisterOp(op, h, e, r)
          PROVE  Goal
      <3>1. CASE h \in {"ADC", "SBC"}
        <4>1. /\ mem' = cMem' /\ CYCLES' = cCYCLES' /\ KeepRunning
              /\ \/ REG' = cREG'
                 \/ "D" \in r.P /\ DifferIn(REG', cREG', {"N", "Z"})
          BY <1>4, <2>2, <3>1, ArithmeticAlike DEF op
        <4> QED
          BY <1>4, <1>7, <1>11, <3>1, <4>1 DEF StepDiffers, h
      <3>2. CASE h \notin {"ADC", "SBC"}
        <4>1. h \notin {"ADC", "SBC", "ALT_SBC"}
          BY <1>5, <3>2 DEF VariantHandlers
        <4> QED
          BY <1>8, <1>11, <2>2, <4>1, RegisterAlike DEF op
      <3> QED
        BY <3>1, <3>2
    <2>3. ASSUME AccumulatorOp(op, h, e, r), Cmos!AccumulatorOp(op, h, e, r)
          PROVE  Goal
      BY <1>8, <1>11, <2>3, AccumulatorAlike DEF op
    <2>4. ASSUME RmwOp(op, h, e, r), Cmos!RmwOp(op, h, e, r) PROVE Goal
      <3>1. h \notin {"ISC", "RRA"}
        BY <1>5 DEF VariantHandlers
      <3> QED
        BY <1>8, <1>11, <2>4, <3>1, RmwAlike DEF op
    <2>5. ASSUME StoreOp(op, h, e, r), Cmos!StoreOp(op, h, e, r) PROVE Goal
      BY <1>8, <1>11, <2>5, StoreAlike DEF op
    <2>6. ASSUME \/ PushOp(op, h, e, r) /\ Cmos!PushOp(op, h, e, r)
                 \/ PullOp(op, h, e, r) /\ Cmos!PullOp(op, h, e, r)
                 \/ JSR(op, h, e, r) /\ Cmos!JSR(op, h, e, r)
                 \/ RTS(op, h, e, r) /\ Cmos!RTS(op, h, e, r)
                 \/ RTI(op, h, e, r) /\ Cmos!RTI(op, h, e, r)
          PROVE  Goal
      <3>1. op \in Official
        BY DEF op
      <3>2. Alike
        BY <2>6, <3>1, StackAlike
      <3> QED
        BY <1>8, <1>11, <3>2
    <2>7. ASSUME BranchOp(op, h, e, r), Cmos!BranchOp(op, h, e, r) PROVE Goal
      BY <1>8, <1>11, <2>7, BranchAlike DEF op
    <2>8. ASSUME BRK(op, h, e, r), Cmos!BRK(op, h, e, r) PROVE Goal
      <3>1. op = \h00
        BY <1>5, <2>8 DEF BRK
      <3>2. /\ mem' = cMem' /\ CYCLES' = cCYCLES' /\ KeepRunning
            /\ DifferIn(REG', cREG', {"D"})
        BY <1>4, <2>8, BrkAlike DEF op
      <3> QED
        BY <1>7, <1>11, <3>1, <3>2 DEF StepDiffers
    <2>9. ~ WAI(op, h, e, r) /\ ~ Stop(op, h, e, r)
      BY <1>5 DEF WAI, Stop, VariantHandlers
    <2> QED
      BY <1>1, <1>3, <1>9, <2>1, <2>2, <2>3, <2>4, <2>5, <2>6, <2>7, <2>8,
         <2>9, SameKind
  <1> QED
    BY <1>10, <1>11
\* The two CPUs are one variant each, run and are not interrupted; what they
\* may differ in is what the README documents.
LInv ==
  /\ CpuInv
  /\ CPU_VARIANT_MODE = NMOS /\ cVARIANT = CMOS
  /\ cSTOPPED = 0 /\ cWAITING = 0
  /\ ic.nmi_pending = 0 /\ ic.irq_line = 0
  /\ cPolls = global_cycle_count
  /\ before \in [op : Byte, P : SUBSET FLAG, pointer : Word]
  /\ VariantsDifferAsDocumented

\* Without an interrupt a running CPU executes an instruction.
LEMMA BothExecute ==
  ASSUME Ready, cpu_step, Cmos!cpu_step
  PROVE  Instruction /\ Cmos!Instruction
  <1>1. interrupt_poll(ic, REG.P) = "INT_NONE"
    BY DEF Ready, interrupt_poll
  <1>2. Cmos!interrupt_poll(cIc, cREG.P) = "INT_NONE"
    BY DEF Ready, Same, Cmos!interrupt_poll
  <1>3. Instruction
    BY <1>1 DEF Ready, cpu_step, ServiceInterrupt, Halted
  <1>4. Cmos!Instruction
    BY <1>2 DEF Ready, Cmos!cpu_step, Cmos!ServiceInterrupt, Cmos!Halted
  <1> QED
    BY <1>3, <1>4

\* A step of both CPUs preserves the invariant.
LEMMA LockstepInv ==
  ASSUME LInv, Lockstep PROVE LInv'
  <1>1. Ready
    BY DEF LInv, Lockstep, Ready, VariantsDifferAsDocumented
  <1>2. cpu_step /\ Cmos!cpu_step /\ bus_read(REG.PC) \in Official
    BY DEF Lockstep
  <1>3. CpuInv'
    BY <1>1, <1>2, StepType DEF Ready
  <1>4. StepDiffers(bus_read(REG.PC), REG.P,
                    bus_read16(MEM_TWO_WORDS(REG.PC + 1)))
    BY <1>1, <1>2, <1>3, BothExecute, InstructionAlike
  <1>5. /\ before' \in [op : Byte, P : SUBSET FLAG, pointer : Word]
        /\ before'.op = bus_read(REG.PC) /\ before'.P = REG.P
        /\ before'.pointer = bus_read16(MEM_TWO_WORDS(REG.PC + 1))
    <2>1. REG.P \in SUBSET FLAG /\ mem \in [RAM -> Byte]
      BY <1>1 DEF Ready, CpuInv, LiveRegister, LiveP
    <2> QED
      BY <2>1, ReadIsByte, Read16IsWord DEF Lockstep
  <1>6. VariantsDifferAsDocumented' /\ KeepRunning
    BY <1>4, <1>5
       DEF StepDiffers, KeepRunning, VariantsDifferAsDocumented, OnlyFlags,
           DifferIn
  <1>7. CPU_VARIANT_MODE' = NMOS /\ cVARIANT' = CMOS
    BY <1>1, <1>2 DEF Ready, cpu_step, Cmos!cpu_step
  <1>8. cPolls' = global_cycle_count'
    BY <1>1, <1>2 DEF Ready, cpu_step, Cmos!cpu_step, Bump, Cmos!Bump
  <1> QED
    BY <1>3, <1>5, <1>6, <1>7, <1>8 DEF LInv, KeepRunning

\* Sync makes the CPUs equal again.
LEMMA SyncInv ==
  ASSUME LInv, Sync PROVE LInv'
  <1>1. CpuInv'
    BY DEF LInv, Sync, vars, CpuInv
  <1>2. /\ before' \in [op : Byte, P : SUBSET FLAG, pointer : Word]
        /\ before'.op = \hEA
    BY DEF LInv, Sync, Byte
  <1>3. cCYCLES' = (CYCLES' + OneIf(before'.op = \h6C)) % CYCLES_MOD
    <2>1. \A c \in 0 .. CYCLES_MOD - 1 : (c + 0) % CYCLES_MOD = c
      BY CpuAssumption
    <2>2. OneIf(before'.op = \h6C) = 0
      BY <1>2 DEF OneIf
    <2> QED
      BY <1>1, <2>1, <2>2 DEF Sync, vars, CpuInv
  <1>4. VariantsDifferAsDocumented'
    BY <1>3 DEF LInv, Sync, vars, VariantsDifferAsDocumented
  <1> QED
    BY <1>1, <1>2, <1>4 DEF LInv, Sync, vars

\* The CPUs start equal.
LEMMA LockstepStarts == ASSUME LInit PROVE LInv
  <1>1. CpuInv
    BY InitType DEF LInit
  <1>2. /\ before \in [op : Byte, P : SUBSET FLAG, pointer : Word]
        /\ before.op = \hEA
    <2>1. 0 \in Word /\ \hEA \in Byte /\ REG.P \in SUBSET FLAG
      BY <1>1, WordIntro DEF Byte, CpuInv, LiveRegister, LiveP
    <2> QED
      BY <2>1 DEF LInit
  <1>3. cCYCLES = (CYCLES + OneIf(before.op = \h6C)) % CYCLES_MOD
    <2>1. \A c \in 0 .. CYCLES_MOD - 1 : (c + 0) % CYCLES_MOD = c
      BY CpuAssumption
    <2>2. OneIf(before.op = \h6C) = 0
      BY <1>2 DEF OneIf
    <2> QED
      BY <1>1, <2>1, <2>2 DEF LInit, CpuInv
  <1>4. VariantsDifferAsDocumented
    BY <1>3 DEF LInit, Init, VariantsDifferAsDocumented
  <1>5. ic.nmi_pending = 0 /\ ic.irq_line = 0
    BY DEF LInit, Init, interrupt_init
  <1> QED
    BY <1>1, <1>2, <1>4, <1>5 DEF LInit, LInv

\* For every program of documented opcodes, every memory map and any number
\* of steps, the NMOS 6502 and the 65C02 differ where the README's table of
\* variant differences says and nowhere else.
THEOREM VariantsCorrect == LSpec => []VariantsDifferAsDocumented
  <1>1. LInit => LInv
    BY LockstepStarts
  <1>2. LInv /\ [LNext]_lvars => LInv'
    <2> SUFFICES ASSUME LInv, [LNext]_lvars PROVE LInv'
      OBVIOUS
    <2>1. CASE Lockstep
      BY <2>1, LockstepInv
    <2>2. CASE Sync
      BY <2>2, SyncInv
    <2>3. CASE UNCHANGED lvars
      BY <2>3 DEF lvars, vars, cvars, LInv, CpuInv,
                  VariantsDifferAsDocumented, OnlyFlags
    <2> QED
      BY <2>1, <2>2, <2>3 DEF LNext
  <1>3. LInv => VariantsDifferAsDocumented
    BY DEF LInv
  <1> QED
    BY <1>1, <1>2, <1>3, PTL DEF LSpec
=============================================================================
