-------------------------- MODULE Operators_proofs --------------------------
(***************************************************************************)
(* Facts about the operators of Instructions and Interrupt that the proofs *)
(* about the controller and the CPU share: remainders, the handlers (from  *)
(* registers that keep their C types and do not show FLAG_B they compute   *)
(* such registers and bytes) and the operations on a controller.           *)
(***************************************************************************)
EXTENDS Instructions, Interrupt, TLAPS

----------------------------------------------------------------------------
(* Remainders *)

\* Counting to m and then a remainder r is a number with remainder r.
LEMMA Remainder ==
  ASSUME NEW m \in Nat \ {0}, NEW q \in Int, NEW r \in 0 .. m - 1,
         NEW n \in Int, n = m * q + r
  PROVE  n % m = r
  OBVIOUS

\* Every number is a multiple of m and a remainder.
LEMMA Division ==
  ASSUME NEW m \in Nat \ {0}, NEW n \in Int
  PROVE  \E q \in Int, r \in 0 .. m - 1 : n = m * q + r /\ n % m = r
  <1>1. n = m * (n \div m) + (n % m)
    OBVIOUS
  <1>2. n \div m \in Int /\ n % m \in 0 .. m - 1
    OBVIOUS
  <1> QED
    BY <1>1, <1>2

\* Multiples of the modulus do not matter.
LEMMA MultipleDrops ==
  ASSUME NEW m \in Nat \ {0}, NEW n \in Int, NEW k \in Int
  PROVE  (n + m * k) % m = n % m
  <1>1. PICK q \in Int, r \in 0 .. m - 1 : n = m * q + r /\ n % m = r
    BY Division
  <1> DEFINE t == n + m * k
             u == q + k
  <1>2. t \in Int /\ u \in Int /\ t = m * u + r
    BY <1>1
  <1> HIDE DEF t, u
  <1>3. t % m = r
    BY <1>2, Remainder
  <1> QED
    BY <1>1, <1>3 DEF t

\* Adding one before or after taking the remainder is the same.
LEMMA NextRemainder ==
  ASSUME NEW m \in Nat \ {0}, NEW n \in Int
  PROVE  (n + 1) % m = ((n % m) + 1) % m
  <1>1. PICK q \in Int, r \in 0 .. m - 1 : n = m * q + r /\ n % m = r
    BY Division
  <1>2. r + 1 \in Int /\ n + 1 \in Int /\ n + 1 = (r + 1) + m * q
    BY <1>1
  <1>3. ((r + 1) + m * q) % m = (r + 1) % m
    BY <1>2, MultipleDrops
  <1> QED
    BY <1>1, <1>2, <1>3

----------------------------------------------------------------------------
(* Live registers *)

LiveP == SUBSET (FLAG \ {"B"})

LiveRegister ==
  [PC : Word, A : Byte, P : LiveP, S : Byte, X : Byte, Y : Byte]

----------------------------------------------------------------------------
(* Conversions and flags *)

\* Bytes are integers.
LEMMA ByteIsInt == ASSUME NEW b \in Byte PROVE b \in Int
  BY DEF Byte

\* Words are integers of 16 bits.
LEMMA WordRange ==
  ASSUME NEW w \in Word PROVE w \in Int /\ 0 <= w /\ w <= 65535
  <1>1. UINT16_MAX \in Int /\ UINT16_MAX = 65535
    BY DEF UINT16_MAX
  <1>2. w \in Int /\ 0 <= w /\ w <= UINT16_MAX
    BY <1>1 DEF Word
  <1> QED
    BY <1>1, <1>2

\* A word is a number.
LEMMA WordIsInt == ASSUME NEW w \in Word PROVE w \in Int
  BY WordRange

\* Every integer of 16 bits is a word.
LEMMA WordIntro ==
  ASSUME NEW n \in Int, 0 <= n, n <= 65535 PROVE n \in Word
  <1>1. UINT16_MAX \in Int /\ n <= UINT16_MAX
    BY DEF UINT16_MAX
  <1> QED
    BY <1>1 DEF Word

\* The conversion to unsigned char gives a byte.
LEMMA ByteOf == ASSUME NEW n \in Int PROVE MEM_WORD(n) \in Byte
  BY DEF MEM_WORD, Byte

\* The conversion to unsigned short gives a word.
LEMMA WordOf == ASSUME NEW n \in Int PROVE MEM_TWO_WORDS(n) \in Word
  <1>1. n % 65536 \in Int /\ 0 <= n % 65536 /\ n % 65536 <= 65535
    OBVIOUS
  <1> QED
    BY <1>1, WordIntro DEF MEM_TWO_WORDS

\* Two bytes make a word.
LEMMA Word16Of ==
  ASSUME NEW lo \in Byte, NEW hi \in Byte PROVE Word16(lo, hi) \in Word
  <1>1. /\ lo \in Int /\ 0 <= lo /\ lo <= 255
        /\ hi \in Int /\ 0 <= hi /\ hi <= 255
    BY DEF Byte
  <1>2. lo + 256 * hi \in Int /\ 0 <= lo + 256 * hi /\ lo + 256 * hi <= 65535
    BY <1>1
  <1> QED
    BY <1>2, WordIntro DEF Word16

\* The bitwise operations give bytes.
LEMMA BitsOf ==
  ASSUME NEW x, NEW y
  PROVE  /\ And8(x, y) \in Byte /\ Or8(x, y) \in Byte
         /\ Xor8(x, y) \in Byte /\ AndNot8(x, y) \in Byte
  <1>1. And8(x, y) \in Byte
    BY DEF And8, OfBits, Byte
  <1>2. Or8(x, y) \in Byte
    BY DEF Or8, OfBits, Byte
  <1>3. Xor8(x, y) \in Byte
    BY DEF Xor8, OfBits, Byte
  <1>4. AndNot8(x, y) \in Byte
    BY DEF AndNot8, OfBits, Byte
  <1> QED
    BY <1>1, <1>2, <1>3, <1>4

\* Changing a flag other than B keeps B clear.
LEMMA FlagLive ==
  ASSUME NEW p \in LiveP, NEW f \in FLAG \ {"B"}, NEW on
  PROVE  PutFlag(p, f, on) \in LiveP
  BY DEF PutFlag, LiveP

\* The flags the handlers write are not FLAG_B.
LEMMA FlagNames ==
  /\ "C" \in FLAG \ {"B"} /\ "Z" \in FLAG \ {"B"} /\ "I" \in FLAG \ {"B"}
  /\ "D" \in FLAG \ {"B"} /\ "U" \in FLAG \ {"B"} /\ "V" \in FLAG \ {"B"}
  /\ "N" \in FLAG \ {"B"}
  BY DEF FLAG

\* set_zn keeps B clear.
LEMMA ZnLive ==
  ASSUME NEW p \in LiveP, NEW v PROVE set_zn(p, v) \in LiveP
  BY FlagLive, FlagNames DEF set_zn

\* The fields of live registers.
LEMMA LiveFields ==
  ASSUME NEW r \in LiveRegister
  PROVE  /\ r.PC \in Word /\ r.A \in Byte /\ r.P \in LiveP /\ r.S \in Byte
         /\ r.X \in Byte /\ r.Y \in Byte
  BY DEF LiveRegister

\* Replacing a field by a value of its type.
LEMMA LiveUpdate ==
  ASSUME NEW r \in LiveRegister
  PROVE  /\ \A v \in Byte : /\ [r EXCEPT !.A = v] \in LiveRegister
                            /\ [r EXCEPT !.X = v] \in LiveRegister
                            /\ [r EXCEPT !.Y = v] \in LiveRegister
                            /\ [r EXCEPT !.S = v] \in LiveRegister
         /\ \A p \in LiveP : [r EXCEPT !.P = p] \in LiveRegister
         /\ \A w \in Word : [r EXCEPT !.PC = w] \in LiveRegister
  BY DEF LiveRegister

\* Loading a register with its N and Z.
LEMMA SetLive ==
  ASSUME NEW r \in LiveRegister, NEW v \in Byte
  PROVE  /\ SetA(r, v) \in LiveRegister
         /\ SetX(r, v) \in LiveRegister
         /\ SetY(r, v) \in LiveRegister
  <1>1. set_zn(r.P, v) \in LiveP
    BY LiveFields, ZnLive
  <1> QED
    BY <1>1 DEF SetA, SetX, SetY, LiveRegister

----------------------------------------------------------------------------
(* Addition and subtraction *)

\* The carry is one bit.
LEMMA CarryInt == ASSUME NEW r PROVE Carry(r) \in {0, 1}
  BY DEF Carry

\* The tail of adc_core and sbc_core.
LEMMA ArithLive ==
  ASSUME NEW r \in LiveRegister, NEW variant, NEW res \in Byte, NEW binary,
         NEW carry, NEW overflow
  PROVE  Arith(r, variant, res, binary, carry, overflow) \in LiveRegister
  <1> DEFINE p == PutFlag(PutFlag(r.P, "C", carry), "V", overflow)
             zn == IF "D" \in r.P /\ variant = NMOS
                   THEN MEM_WORD(binary) ELSE res
  <1>1. p \in LiveP
    BY LiveFields, FlagLive, FlagNames
  <1>2. set_zn(p, zn) \in LiveP
    BY <1>1, ZnLive
  <1> HIDE DEF p, zn
  <1>3. [r EXCEPT !.A = res, !.P = set_zn(p, zn)] \in LiveRegister
    BY <1>2 DEF LiveRegister
  <1> QED
    BY <1>3 DEF Arith, p, zn

\* Two decimal digits, valid or not, make a byte.
LEMMA Digits ==
  ASSUME NEW ah \in Int, NEW al \in Int
  PROVE  16 * (ah % 16) + (al % 16) \in Byte
  BY DEF Byte

\* ADC, binary or decimal, keeps the registers live.
LEMMA AdcLive ==
  ASSUME NEW r \in LiveRegister, NEW v \in Byte, NEW variant
  PROVE  adc_core(r, v, variant) \in LiveRegister
  <1>1. r.A \in Int /\ v \in Int /\ Carry(r) \in Int
    BY LiveFields, CarryInt DEF Byte
  <1> DEFINE a == r.A
             sum == a + v + Carry(r)
             al0 == (a % 16) + (v % 16) + Carry(r)
             al == IF al0 >= 10 THEN (al0 + 6) % 16 ELSE al0
             ah0 == (a \div 16) + (v \div 16) + (IF al0 >= 10 THEN 1 ELSE 0)
             ah == IF ah0 >= 10 THEN ah0 + 6 ELSE ah0
             ovf == AdcOverflow(a, v, sum)
  <1>2. sum \in Int /\ al0 \in Int /\ al \in Int
    BY <1>1
  <1>3. ah0 \in Int /\ ah \in Int
    BY <1>1, <1>2
  <1>4. MEM_WORD(sum) \in Byte /\ 16 * (ah % 16) + (al % 16) \in Byte
    BY <1>2, <1>3, ByteOf, Digits
  <1>5. adc_core(r, v, variant) =
          IF "D" \notin r.P
          THEN Arith(r, variant, MEM_WORD(sum), sum, sum > 255, ovf)
          ELSE Arith(r, variant, 16 * (ah % 16) + (al % 16), sum, ah >= 16, ovf)
    BY DEF adc_core
  <1> HIDE DEF sum, al, ah, ovf
  <1> QED
    BY <1>4, <1>5, ArithLive

\* SBC, binary or decimal, keeps the registers live.
LEMMA SbcLive ==
  ASSUME NEW r \in LiveRegister, NEW v \in Byte, NEW variant
  PROVE  sbc_core(r, v, variant) \in LiveRegister
  <1>1. r.A \in Int /\ v \in Int /\ Carry(r) \in Int
    BY LiveFields, CarryInt DEF Byte
  <1> DEFINE a == r.A
             sub == a + (255 - v) + Carry(r)
             al0 == (a % 16) - (v % 16) - (1 - Carry(r))
             al == IF al0 < 0 THEN (al0 - 6) % 16 ELSE al0
             ah0 == (a \div 16) - (v \div 16) - (IF al0 < 0 THEN 1 ELSE 0)
             ah == IF ah0 < 0 THEN (ah0 - 6) % 16 ELSE ah0
             ovf == SbcOverflow(a, v, sub)
  <1>2. sub \in Int /\ al0 \in Int /\ al \in Int
    BY <1>1
  <1>3. ah0 \in Int /\ ah \in Int
    BY <1>1, <1>2
  <1>4. MEM_WORD(sub) \in Byte /\ 16 * (ah % 16) + (al % 16) \in Byte
    BY <1>2, <1>3, ByteOf, Digits
  <1>5. sbc_core(r, v, variant) =
          IF "D" \notin r.P
          THEN Arith(r, variant, MEM_WORD(sub), sub, sub > 255, ovf)
          ELSE Arith(r, variant, 16 * (ah % 16) + (al % 16), sub, sub > 255, ovf)
    BY DEF sbc_core
  <1> HIDE DEF sub, al, ah, ovf
  <1> QED
    BY <1>4, <1>5, ArithLive
----------------------------------------------------------------------------
(* Compares, bit tests and the undocumented immediate operations *)

\* CMP, CPX and CPY change flags only.
LEMMA CompareLive ==
  ASSUME NEW r \in LiveRegister, NEW reg, NEW m
  PROVE  Compare(r, reg, m) \in LiveRegister
  <1>1. set_zn(PutFlag(r.P, "C", reg >= m), MEM_WORD(reg - m)) \in LiveP
    BY LiveFields, FlagLive, FlagNames, ZnLive
  <1> QED
    BY <1>1, LiveUpdate DEF Compare

\* BIT changes flags only.
LEMMA BitLive ==
  ASSUME NEW r \in LiveRegister, NEW m, NEW op
  PROVE  BIT(r, m, op) \in LiveRegister
  <1> DEFINE z == PutFlag(r.P, "Z", And8(r.A, m) = 0)
             q == IF op = \h89 THEN z
                  ELSE PutFlag(PutFlag(z, "N", Bit(m, 7)), "V", Bit(m, 6))
  <1>1. z \in LiveP
    BY LiveFields, FlagLive, FlagNames
  <1> HIDE DEF z
  <1>2. q \in LiveP
    BY <1>1, FlagLive, FlagNames
  <1> HIDE DEF q
  <1>3. [r EXCEPT !.P = q] \in LiveRegister
    BY <1>2, LiveUpdate
  <1> QED
    BY <1>3 DEF BIT, z, q

\* LAX loads two registers.
LEMMA LaxLive ==
  ASSUME NEW r \in LiveRegister, NEW m \in Byte
  PROVE  LAX(r, m) \in LiveRegister
  BY SetLive, LiveUpdate DEF LAX

\* A register file with one or two more flags changed.
LEMMA PutLive ==
  ASSUME NEW s \in LiveRegister, NEW f \in FLAG \ {"B"}, NEW g \in FLAG \ {"B"},
         NEW on, NEW also
  PROVE  /\ [s EXCEPT !.P = PutFlag(@, f, on)] \in LiveRegister
         /\ [s EXCEPT !.P = PutFlag(PutFlag(@, f, on), g, also)]
              \in LiveRegister
  <1>1. /\ PutFlag(s.P, f, on) \in LiveP
        /\ PutFlag(PutFlag(s.P, f, on), g, also) \in LiveP
    BY LiveFields, FlagLive
  <1> QED
    BY <1>1, LiveUpdate

\* A byte shifted right, with a carry shifted in.
LEMMA HalfByte ==
  ASSUME NEW b \in Byte, NEW c \in {0, 1}
  PROVE  (b \div 2) \in Byte /\ (b \div 2) + 128 * c \in Byte
  BY DEF Byte

\* ANC keeps the registers live.
LEMMA AncLive ==
  ASSUME NEW r \in LiveRegister, NEW m
  PROVE  ANC(r, m) \in LiveRegister
  <1> DEFINE s == SetA(r, And8(r.A, m))
  <1>1. s \in LiveRegister
    BY BitsOf, SetLive
  <1> HIDE DEF s
  <1>2. [s EXCEPT !.P = PutFlag(@, "C", Bit(s.A, 7))] \in LiveRegister
    BY <1>1, PutLive, FlagNames
  <1> QED
    BY <1>2 DEF ANC, s

\* ALR keeps the registers live.
LEMMA AlrLive ==
  ASSUME NEW r \in LiveRegister, NEW m
  PROVE  ALR(r, m) \in LiveRegister
  <1> DEFINE a == And8(r.A, m)
             s == SetA(r, a \div 2)
  <1>1. s \in LiveRegister
    BY BitsOf, HalfByte, SetLive
  <1> HIDE DEF s, a
  <1>2. [s EXCEPT !.P = PutFlag(@, "C", Bit(a, 0))] \in LiveRegister
    BY <1>1, PutLive, FlagNames
  <1> QED
    BY <1>2 DEF ALR, s, a

\* ARR keeps the registers live.
LEMMA ArrLive ==
  ASSUME NEW r \in LiveRegister, NEW m
  PROVE  ARR(r, m) \in LiveRegister
  <1> DEFINE s == SetA(r, (And8(r.A, m) \div 2) + 128 * Carry(r))
  <1>1. s \in LiveRegister
    BY BitsOf, CarryInt, HalfByte, SetLive
  <1> HIDE DEF s
  <1>2. [s EXCEPT !.P = PutFlag(PutFlag(@, "C", Bit(s.A, 6)),
                                "V", Bit(s.A, 6) # Bit(s.A, 5))]
          \in LiveRegister
    BY <1>1, PutLive, FlagNames
  <1> QED
    BY <1>2 DEF ARR, s

\* CLC to CLV and the like: adding or removing a flag other than B.
LEMMA FlagOpLive ==
  ASSUME NEW r \in LiveRegister, NEW f \in FLAG \ {"B"}
  PROVE  /\ [r EXCEPT !.P = @ \cup {f}] \in LiveRegister
         /\ [r EXCEPT !.P = @ \ {f}] \in LiveRegister
  <1>1. r.P \cup {f} \in LiveP /\ r.P \ {f} \in LiveP
    BY LiveFields DEF LiveP
  <1> QED
    BY <1>1, LiveUpdate

\* Every register handler keeps the registers' types and B clear.
LEMMA RegisterResultLive ==
  ASSUME NEW h \in RegisterHandlers, NEW r \in LiveRegister, NEW m \in Byte,
         NEW op, NEW variant
  PROVE  RegisterResult(h, r, m, op, variant) \in LiveRegister
  <1>0. /\ r.A \in Byte /\ r.X \in Byte /\ r.Y \in Byte /\ r.S \in Byte
        /\ r.A \in Int /\ r.X \in Int /\ r.Y \in Int
    BY LiveFields DEF Byte
  <1>1. CASE h \in {"LDA", "LDX", "LDY", "LAX"}
    BY <1>1, SetLive, LaxLive DEF RegisterResult
  <1>2. CASE h \in {"TAX", "TXA", "TAY", "TYA", "TSX", "TXS"}
    BY <1>0, <1>2, SetLive, LiveUpdate DEF RegisterResult
  <1>3. CASE h \in {"INX", "DEX", "INY", "DEY", "INC_A", "DEC_A"}
    <2>1. /\ MEM_WORD(r.X + 1) \in Byte /\ MEM_WORD(r.X - 1) \in Byte
          /\ MEM_WORD(r.Y + 1) \in Byte /\ MEM_WORD(r.Y - 1) \in Byte
          /\ MEM_WORD(r.A + 1) \in Byte /\ MEM_WORD(r.A - 1) \in Byte
      BY <1>0, ByteOf
    <2> QED
      BY <1>3, <2>1, SetLive DEF RegisterResult
  <1>4. CASE h \in {"AND", "ORA", "EOR"}
    BY <1>4, BitsOf, SetLive DEF RegisterResult
  <1>5. CASE h \in {"ADC", "SBC", "ALT_SBC"}
    BY <1>5, AdcLive, SbcLive DEF RegisterResult
  <1>6. CASE h \in {"CLC", "SEC", "CLI", "SEI", "CLD", "SED", "CLV"}
    BY <1>6, FlagOpLive, FlagNames DEF RegisterResult
  <1>7. CASE h \in {"CMP", "CPX", "CPY", "BIT"}
    BY <1>7, CompareLive, BitLive DEF RegisterResult
  <1>8. CASE h \in {"ANC", "ALR", "ARR"}
    BY <1>8, AncLive, AlrLive, ArrLive DEF RegisterResult
  <1>9. CASE h \in {"NOP", "NOP_READ", "op_illegal"}
    BY <1>9 DEF RegisterResult
  <1> QED
    BY <1>1, <1>2, <1>3, <1>4, <1>5, <1>6, <1>7, <1>8, <1>9
       DEF RegisterHandlers
----------------------------------------------------------------------------
(* Read-modify-write *)

\* A byte to write and live registers.
IsRmw(x) == x.v \in Byte /\ x.r \in LiveRegister

\* The constructor of results.
LEMMA RmwIs ==
  ASSUME NEW v \in Byte, NEW r \in LiveRegister PROVE IsRmw(Rmw(v, r))
  BY DEF IsRmw, Rmw

\* The result of a shift.
LEMMA ShiftedIs ==
  ASSUME NEW r \in LiveRegister, NEW v \in Byte, NEW carry
  PROVE  IsRmw(Shifted(r, v, carry))
  <1> DEFINE q == set_zn(PutFlag(r.P, "C", carry), v)
             s == [r EXCEPT !.P = q]
  <1>1. q \in LiveP
    BY LiveFields, FlagLive, FlagNames, ZnLive
  <1> HIDE DEF q
  <1>2. s \in LiveRegister
    BY <1>1, LiveUpdate
  <1>3. Shifted(r, v, carry) = Rmw(v, s)
    BY DEF Shifted, s, q
  <1> HIDE DEF s
  <1> QED
    BY <1>2, <1>3, RmwIs

\* A byte shifted left, with a carry shifted in, incremented, decremented.
LEMMA ShiftBytes ==
  ASSUME NEW m \in Byte, NEW c \in {0, 1}
  PROVE  /\ MEM_WORD(2 * m) \in Byte /\ MEM_WORD(2 * m) + c \in Byte
         /\ MEM_WORD(m + 1) \in Byte /\ MEM_WORD(m - 1) \in Byte
  <1>1. m \in Int /\ 2 * m \in Int /\ m + 1 \in Int /\ m - 1 \in Int
    BY DEF Byte
  <1>2. (2 * m) % 256 \in 0 .. 255 /\ (2 * m) % 256 # 255
    BY <1>1
  <1> QED
    BY <1>1, <1>2, ByteOf DEF MEM_WORD, Byte

\* ASL, LSR, ROL and ROR.
LEMMA ShiftsAre ==
  ASSUME NEW r \in LiveRegister, NEW m \in Byte
  PROVE  /\ IsRmw(ASL(r, m)) /\ IsRmw(LSR(r, m))
         /\ IsRmw(ROL(r, m)) /\ IsRmw(ROR(r, m))
  BY ShiftedIs, ShiftBytes, HalfByte, CarryInt DEF ASL, LSR, ROL, ROR

\* Only N and Z change.
LEMMA ZnUpdate ==
  ASSUME NEW r \in LiveRegister, NEW v
  PROVE  [r EXCEPT !.P = set_zn(@, v)] \in LiveRegister
  BY LiveFields, ZnLive, LiveUpdate

\* INC, DEC and the undocumented DCP and ISC.
LEMMA CountsAre ==
  ASSUME NEW r \in LiveRegister, NEW m \in Byte, NEW variant
  PROVE  /\ IsRmw(INC(r, m)) /\ IsRmw(DEC(r, m))
         /\ IsRmw(DCP(r, m)) /\ IsRmw(ISC(r, m, variant))
  <1> DEFINE up == MEM_WORD(m + 1)
             down == MEM_WORD(m - 1)
  <1>1. up \in Byte /\ down \in Byte
    BY ShiftBytes
  <1> HIDE DEF up, down
  <1>2. IsRmw(Rmw(up, [r EXCEPT !.P = set_zn(@, up)]))
    BY <1>1, ZnUpdate, RmwIs
  <1>3. IsRmw(Rmw(down, [r EXCEPT !.P = set_zn(@, down)]))
    BY <1>1, ZnUpdate, RmwIs
  <1>4. IsRmw(Rmw(down, Compare(r, r.A, down)))
    BY <1>1, CompareLive, RmwIs
  <1>5. IsRmw(Rmw(up, sbc_core(r, up, variant)))
    BY <1>1, SbcLive, RmwIs
  <1> QED
    BY <1>2, <1>3, <1>4, <1>5 DEF INC, DEC, DCP, ISC, up, down

\* The undocumented shift-and-combine handlers.
LEMMA CombinedAre ==
  ASSUME NEW r \in LiveRegister, NEW m \in Byte, NEW variant
  PROVE  /\ IsRmw(SLO(r, m)) /\ IsRmw(RLA(r, m)) /\ IsRmw(SRE(r, m))
         /\ IsRmw(RRA(r, m, variant))
  <1>1. ASSUME NEW s, IsRmw(s)
        PROVE  /\ IsRmw(Rmw(s.v, SetA(s.r, Or8(r.A, s.v))))
               /\ IsRmw(Rmw(s.v, SetA(s.r, And8(r.A, s.v))))
               /\ IsRmw(Rmw(s.v, SetA(s.r, Xor8(r.A, s.v))))
    <2>1. s.v \in Byte /\ s.r \in LiveRegister
      BY <1>1 DEF IsRmw
    <2> QED
      BY <2>1, BitsOf, SetLive, RmwIs
  <1>2. IsRmw(SLO(r, m)) /\ IsRmw(RLA(r, m)) /\ IsRmw(SRE(r, m))
    BY <1>1, ShiftsAre DEF SLO, RLA, SRE
  <1> DEFINE v == (m \div 2) + 128 * Carry(r)
             s == [r EXCEPT !.P = PutFlag(@, "C", Bit(m, 0))]
  <1>3. v \in Byte
    BY HalfByte, CarryInt
  <1>4. s \in LiveRegister
    BY PutLive, FlagNames
  <1> HIDE DEF v, s
  <1>5. IsRmw(Rmw(v, adc_core(s, v, variant)))
    BY <1>3, <1>4, AdcLive, RmwIs
  <1>6. RRA(r, m, variant) = Rmw(v, adc_core(s, v, variant))
    BY DEF RRA, v, s
  <1> QED
    BY <1>2, <1>5, <1>6

\* The bit handlers of the 65C02.
LEMMA BitOpsAre ==
  ASSUME NEW r \in LiveRegister, NEW m, NEW op
  PROVE  /\ IsRmw(TRB(r, m)) /\ IsRmw(TSB(r, m))
         /\ IsRmw(RMB(r, m, op)) /\ IsRmw(SMB(r, m, op))
  <1>1. TestBits(r, m) \in LiveRegister
    BY PutLive, FlagNames DEF TestBits
  <1> QED
    BY <1>1, BitsOf, RmwIs DEF TRB, TSB, RMB, SMB

\* Every read-modify-write handler writes a byte and leaves live registers.
LEMMA RmwResultIs ==
  ASSUME NEW h \in RmwHandlers, NEW r \in LiveRegister, NEW m \in Byte,
         NEW op, NEW variant
  PROVE  IsRmw(RmwResult(h, r, m, op, variant))
  <1>1. CASE h \in {"ASL", "LSR", "ROL", "ROR"}
    BY <1>1, ShiftsAre DEF RmwResult
  <1>2. CASE h \in {"INC", "DEC", "DCP", "ISC"}
    BY <1>2, CountsAre DEF RmwResult
  <1>3. CASE h \in {"SLO", "RLA", "SRE", "RRA"}
    BY <1>3, CombinedAre DEF RmwResult
  <1>4. CASE h \in {"TRB", "TSB", "RMB", "SMB"}
    BY <1>4, BitOpsAre DEF RmwResult
  <1> QED
    BY <1>1, <1>2, <1>3, <1>4 DEF RmwHandlers, ShiftHandlers

----------------------------------------------------------------------------
(* Stores, pushes and pulls *)

\* The status register is pushed as a byte.
LEMMA StatusByte == ASSUME NEW p PROVE PByte(p) \in Byte
  BY DEF PByte, Byte

\* The stores write bytes.
LEMMA StoredIsByte ==
  ASSUME NEW h \in StoreHandlers, NEW r \in LiveRegister
  PROVE  StoredByte(h, r) \in Byte
  <1>1. 0 \in Byte
    BY DEF Byte
  <1> QED
    BY <1>1, LiveFields, BitsOf DEF StoredByte, StoreHandlers

\* The pushes push bytes.
LEMMA PushedIsByte ==
  ASSUME NEW h \in PushHandlers, NEW r \in LiveRegister
  PROVE  PushedByte(h, r) \in Byte
  BY LiveFields, StatusByte DEF PushedByte, PushHandlers

\* The flags of a pulled byte without B.
LEMMA PulledFlags ==
  ASSUME NEW b
  PROVE  /\ (PFlags(b) \ {"B"}) \cup {"U"} \in LiveP
         /\ PFlags(b) \ {"B", "U"} \in LiveP
  <1>1. PFlags(b) \subseteq FLAG
    BY DEF PFlags
  <1> QED
    BY <1>1, FlagNames DEF LiveP

\* The pulls leave live registers, PLP included: it drops B.
LEMMA PulledLive ==
  ASSUME NEW h \in PullHandlers, NEW r \in LiveRegister, NEW b \in Byte
  PROVE  Pulled(h, r, b) \in LiveRegister
  <1>1. CASE h \in {"PLA", "PLX", "PLY"}
    BY <1>1, SetLive DEF Pulled
  <1>2. CASE h = "PLP"
    <2>1. [r EXCEPT !.P = (PFlags(b) \ {"B"}) \cup {"U"}] \in LiveRegister
      BY PulledFlags, LiveUpdate
    <2> QED
      BY <1>2, <2>1 DEF Pulled
  <1> QED
    BY <1>1, <1>2 DEF PullHandlers
----------------------------------------------------------------------------
(* Registers and the program counter *)

\* The registers s differ from r in other fields than PC only.
SamePC(s, r) == DOMAIN s = DOMAIN r /\ s.PC = r.PC

HasPC(r) == "PC" \in DOMAIN r

\* Writing another register keeps PC.
LEMMA ExceptPC ==
  ASSUME NEW r, HasPC(r), NEW v
  PROVE  /\ SamePC([r EXCEPT !.A = v], r) /\ SamePC([r EXCEPT !.X = v], r)
         /\ SamePC([r EXCEPT !.Y = v], r) /\ SamePC([r EXCEPT !.S = v], r)
         /\ SamePC([r EXCEPT !.P = v], r) /\ SamePC(r, r)
  BY DEF SamePC, HasPC

\* So does a sequence of such writes.
LEMMA ChainPC ==
  ASSUME NEW r, HasPC(r), NEW s, SamePC(s, r)
  PROVE  HasPC(s) /\ \A t : SamePC(t, s) => SamePC(t, r)
  BY DEF SamePC, HasPC

\* The setters set a register and the flags.
LEMMA SetPC ==
  ASSUME NEW r, HasPC(r), NEW v
  PROVE  SamePC(SetA(r, v), r) /\ SamePC(SetX(r, v), r) /\ SamePC(SetY(r, v), r)
  BY DEF SetA, SetX, SetY, SamePC, HasPC

\* Arithmetic and compares.
LEMMA ArithPC ==
  ASSUME NEW r, HasPC(r), NEW v, NEW variant
  PROVE  /\ SamePC(adc_core(r, v, variant), r)
         /\ SamePC(sbc_core(r, v, variant), r)
         /\ \A reg : SamePC(Compare(r, reg, v), r)
         /\ \A op : SamePC(BIT(r, v, op), r)
  <1>1. \A res, binary, carry, overflow :
          SamePC(Arith(r, variant, res, binary, carry, overflow), r)
    BY DEF Arith, SamePC, HasPC
  <1>2. SamePC(adc_core(r, v, variant), r)
    <2> DEFINE sum == r.A + v + Carry(r)
               al0 == (r.A % 16) + (v % 16) + Carry(r)
               al == IF al0 >= 10 THEN (al0 + 6) % 16 ELSE al0
               ah0 == (r.A \div 16) + (v \div 16) + (IF al0 >= 10 THEN 1 ELSE 0)
               ah == IF ah0 >= 10 THEN ah0 + 6 ELSE ah0
               ovf == AdcOverflow(r.A, v, sum)
    <2>1. \/ adc_core(r, v, variant)
               = Arith(r, variant, MEM_WORD(sum), sum, sum > 255, ovf)
          \/ adc_core(r, v, variant)
               = Arith(r, variant, 16 * (ah % 16) + (al % 16), sum, ah >= 16, ovf)
      BY DEF adc_core
    <2> HIDE DEF sum, al, ah, ovf
    <2> QED
      BY <1>1, <2>1, Zenon
  <1>3. SamePC(sbc_core(r, v, variant), r)
    <2> DEFINE sub == r.A + (255 - v) + Carry(r)
               al0 == (r.A % 16) - (v % 16) - (1 - Carry(r))
               al == IF al0 < 0 THEN (al0 - 6) % 16 ELSE al0
               ah0 == (r.A \div 16) - (v \div 16) - (IF al0 < 0 THEN 1 ELSE 0)
               ah == IF ah0 < 0 THEN (ah0 - 6) % 16 ELSE ah0
               ovf == SbcOverflow(r.A, v, sub)
    <2>1. \/ sbc_core(r, v, variant)
               = Arith(r, variant, MEM_WORD(sub), sub, sub > 255, ovf)
          \/ sbc_core(r, v, variant)
               = Arith(r, variant, 16 * (ah % 16) + (al % 16), sub, sub > 255, ovf)
      BY DEF sbc_core
    <2> HIDE DEF sub, al, ah, ovf
    <2> QED
      BY <1>1, <2>1, Zenon
  <1>4. \A reg : SamePC(Compare(r, reg, v), r)
    BY ExceptPC DEF Compare
  <1>5. \A op : SamePC(BIT(r, v, op), r)
    BY ExceptPC DEF BIT
  <1> QED
    BY <1>2, <1>3, <1>4, <1>5

\* The undocumented immediate operations.
LEMMA ImmediatePC ==
  ASSUME NEW r, HasPC(r), NEW m
  PROVE  /\ SamePC(LAX(r, m), r) /\ SamePC(ANC(r, m), r)
         /\ SamePC(ALR(r, m), r) /\ SamePC(ARR(r, m), r)
  <1>1. ASSUME NEW v, NEW p
        PROVE  /\ SamePC([SetA(r, v) EXCEPT !.P = p], r)
               /\ SamePC([SetA(r, v) EXCEPT !.X = p], r)
    <2>1. SamePC(SetA(r, v), r)
      BY SetPC
    <2>2. HasPC(SetA(r, v))
      BY <2>1, ChainPC
    <2> DEFINE s == SetA(r, v)
    <2> HIDE DEF s
    <2>3. SamePC([s EXCEPT !.P = p], s) /\ SamePC([s EXCEPT !.X = p], s)
      BY <2>2, ExceptPC DEF s
    <2> QED
      BY <2>1, <2>3, ChainPC DEF s
  <1>2. SamePC(LAX(r, m), r)
    BY <1>1 DEF LAX
  <1>3. SamePC(ANC(r, m), r)
    BY <1>1 DEF ANC
  <1>4. SamePC(ALR(r, m), r)
    BY <1>1 DEF ALR
  <1>5. SamePC(ARR(r, m), r)
    BY <1>1, ZenonT(60) DEF ARR
  <1> QED
    BY <1>2, <1>3, <1>4, <1>5

\* No handler of the class moves PC beyond the operand.
LEMMA RegisterPC ==
  ASSUME NEW r, HasPC(r), NEW h, NEW m, NEW op, NEW variant
  PROVE  RegisterResult(h, r, m, op, variant).PC = r.PC
  <1>1. SamePC(RegisterResult(h, r, m, op, variant), r)
    BY ExceptPC, SetPC, ArithPC, ImmediatePC DEF RegisterResult
  <1> QED
    BY <1>1 DEF SamePC

\* Neither does a read-modify-write, the combined undocumented ones included.
LEMMA RmwPC ==
  ASSUME NEW r, HasPC(r), NEW h \in RmwHandlers, NEW m, NEW op, NEW variant
  PROVE  SamePC(RmwResult(h, r, m, op, variant).r, r)
  <1>1. \A v, c : SamePC(Shifted(r, v, c).r, r)
    BY ExceptPC DEF Shifted, Rmw
  <1>2. \A v, c, a : SamePC(SetA(Shifted(r, v, c).r, a), r)
    BY <1>1, ChainPC, SetPC
  <1>3. CASE h \in ShiftHandlers
    BY <1>1, <1>3 DEF RmwResult, ShiftHandlers, ASL, LSR, ROL, ROR
  <1>4. CASE h \in {"INC", "DEC", "TRB", "TSB", "RMB", "SMB"}
    BY <1>4, ExceptPC DEF RmwResult, INC, DEC, TRB, TSB, RMB, SMB, Rmw, TestBits
  <1>5. CASE h \in {"DCP", "ISC"}
    BY <1>5, ArithPC DEF RmwResult, DCP, ISC, Rmw
  <1>6. CASE h \in {"SLO", "RLA", "SRE"}
    BY <1>2, <1>6 DEF RmwResult, SLO, RLA, SRE, ASL, ROL, LSR, Rmw
  <1>7. CASE h = "RRA"
    <2> DEFINE v == (m \div 2) + 128 * Carry(r)
               s == [r EXCEPT !.P = PutFlag(@, "C", Bit(m, 0))]
    <2>1. RmwResult(h, r, m, op, variant).r = adc_core(s, v, variant)
      BY <1>7 DEF RmwResult, RRA, Rmw
    <2>2. SamePC(s, r)
      BY ExceptPC
    <2> HIDE DEF s, v
    <2> QED
      BY <2>1, <2>2, ChainPC, ArithPC
  <1> QED
    BY <1>3, <1>4, <1>5, <1>6, <1>7 DEF RmwHandlers

\* Pulls, too.
LEMMA PulledPC ==
  ASSUME NEW r, HasPC(r), NEW h \in PullHandlers, NEW b
  PROVE  SamePC(Pulled(h, r, b), r)
  BY SetPC, ExceptPC DEF Pulled, PullHandlers
----------------------------------------------------------------------------
(* The ring of interrupts *)

\* Advancing the write index stays in the ring and wraps at its end.
LEMMA NextSlot ==
  ASSUME NEW i \in Slot
  PROVE  /\ (i + 1) % MAX_INTERRUPT_HISTORY \in Slot
         /\ i + 1 < MAX_INTERRUPT_HISTORY
              => (i + 1) % MAX_INTERRUPT_HISTORY = i + 1
         /\ i + 1 = MAX_INTERRUPT_HISTORY
              => (i + 1) % MAX_INTERRUPT_HISTORY = 0
  BY InterruptAssumption DEF Slot

\* A counter stays in its width.
LEMMA BumpInCount == ASSUME NEW n \in Count PROVE Bump(n) \in Count
  BY InterruptAssumption DEF Count, Bump

----------------------------------------------------------------------------
(* The operations on an interrupt controller *)

\* interrupt_init gives a controller.
LEMMA InitialController == interrupt_init \in INTERRUPT_CONTROLLER
  <1>1. UINT16_MAX \in Nat
    BY DEF UINT16_MAX
  <1>2. 0 \in Word
    BY <1>1 DEF Word
  <1> QED
    BY <1>2, InterruptAssumption
       DEF interrupt_init, INTERRUPT_CONTROLLER, INTERRUPT_EVENT, ZeroEvent,
           INTERRUPT_TYPE, Slot, Count

\* record_interrupt stores an event and moves the index, the count and one
\* total; everything stays in its type.
LEMMA RecordType ==
  ASSUME NEW c \in INTERRUPT_CONTROLLER, NEW type \in INTERRUPT_TYPE,
         NEW pc \in Word, NEW p \in SUBSET FLAG, NEW cycle \in Count
  PROVE  record_interrupt(c, type, pc, p, cycle) \in INTERRUPT_CONTROLLER
  <1> DEFINE e == [type |-> type, pc |-> pc, p |-> p, cycle |-> cycle]
  <1>1. e \in INTERRUPT_EVENT
    BY DEF INTERRUPT_EVENT
  <1>2. /\ c.history \in [Slot -> INTERRUPT_EVENT]
        /\ c.history_index \in Slot
        /\ c.history_count \in 0 .. MAX_INTERRUPT_HISTORY
        /\ c.total_irqs \in Count /\ c.total_nmis \in Count
        /\ c.total_brks \in Count
    BY DEF INTERRUPT_CONTROLLER
  <1>3. [c.history EXCEPT ![c.history_index] = e] \in [Slot -> INTERRUPT_EVENT]
    BY <1>1, <1>2
  <1>4. (c.history_index + 1) % MAX_INTERRUPT_HISTORY \in Slot
    BY <1>2, NextSlot
  <1>5. /\ Bump(c.total_irqs) \in Count /\ Bump(c.total_nmis) \in Count
        /\ Bump(c.total_brks) \in Count
    BY <1>2, BumpInCount
  <1>6. (IF c.history_count < MAX_INTERRUPT_HISTORY
         THEN c.history_count + 1 ELSE c.history_count)
          \in 0 .. MAX_INTERRUPT_HISTORY
    BY <1>2, InterruptAssumption
  <1> QED
    BY <1>2, <1>3, <1>4, <1>5, <1>6
       DEF record_interrupt, INTERRUPT_CONTROLLER

\* Recording an interrupt and clearing the latch keeps the type.
LEMMA AcknowledgeType ==
  ASSUME NEW c \in INTERRUPT_CONTROLLER, NEW type \in INTERRUPT_TYPE,
         NEW pc \in Word, NEW p \in SUBSET FLAG, NEW cycle \in Count
  PROVE  Acknowledge(c, type, pc, p, cycle) \in INTERRUPT_CONTROLLER
  <1> DEFINE r == record_interrupt(c, type, pc, p, cycle)
  <1>1. r \in INTERRUPT_CONTROLLER
    BY RecordType
  <1>2. [r EXCEPT !.nmi_pending = 0] \in INTERRUPT_CONTROLLER
    BY <1>1 DEF INTERRUPT_CONTROLLER
  <1> QED
    BY <1>1, <1>2 DEF Acknowledge

\* Driving a line and clearing the history keep the type.
LEMMA LinesType ==
  ASSUME NEW c \in INTERRUPT_CONTROLLER, NEW active \in {0, 1}
  PROVE  /\ interrupt_set_irq(c, active) \in INTERRUPT_CONTROLLER
         /\ interrupt_set_nmi(c, active) \in INTERRUPT_CONTROLLER
  BY DEF interrupt_set_irq, interrupt_set_nmi, INTERRUPT_CONTROLLER

\* So does clearing the history.
LEMMA ClearType ==
  ASSUME NEW c \in INTERRUPT_CONTROLLER
  PROVE  interrupt_clear_history(c) \in INTERRUPT_CONTROLLER
  <1>1. 0 \in Slot /\ 0 \in Count /\ 0 \in 0 .. MAX_INTERRUPT_HISTORY
    BY InterruptAssumption DEF Slot, Count
  <1> QED
    BY <1>1 DEF interrupt_clear_history, INTERRUPT_CONTROLLER

\* The poll returns an interrupt type.
LEMMA PollType ==
  ASSUME NEW c, NEW p PROVE interrupt_poll(c, p) \in INTERRUPT_TYPE
  BY DEF interrupt_poll, INTERRUPT_TYPE
=============================================================================
