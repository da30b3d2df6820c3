--------------------------- MODULE Cpu6502_proofs ---------------------------
(***************************************************************************)
(* Theorems about Cpu6502, for every memory map, every program and every   *)
(* sequence of calls the host makes.                                       *)
(***************************************************************************)
EXTENDS CpuRun, Operators_proofs

\* The inductive invariant: the types, with B kept out of the registers.
CpuInv ==
  /\ REG \in LiveRegister
  /\ mem \in [RAM -> Byte]
  /\ CYCLES \in 0 .. CYCLES_MOD - 1
  /\ CPU_VARIANT_MODE \in CPU_VARIANT
  /\ CPU_WAITING \in {0, 1} /\ CPU_STOPPED \in {0, 1}
  /\ ic \in INTERRUPT_CONTROLLER
  /\ global_cycle_count \in Count

----------------------------------------------------------------------------
(* The bus and the stack *)

\* RAM, ROM and open bus all read as bytes.
LEMMA ReadIsByte ==
  ASSUME mem \in [RAM -> Byte], NEW a PROVE bus_read(a) \in Byte
  <1>1. 255 \in Byte
    BY DEF Byte
  <1> QED
    BY <1>1, CpuAssumption DEF bus_read

\* A 16-bit read is a word.
LEMMA Read16IsWord ==
  ASSUME mem \in [RAM -> Byte], NEW a PROVE bus_read16(a) \in Word
  BY ReadIsByte, Word16Of DEF bus_read16

\* A bus write keeps the memory a memory.
LEMMA WriteType ==
  ASSUME NEW m \in [RAM -> Byte], NEW a, NEW b \in Byte
  PROVE  bus_write(m, a, b) \in [RAM -> Byte]
  BY DEF bus_write

\* So do the pushes, wherever the stack pointer is.
LEMMA PushType ==
  ASSUME NEW m \in [RAM -> Byte], NEW s, NEW b \in Byte, NEW w \in Word
  PROVE  push8(m, s, b) \in [RAM -> Byte] /\ push16(m, s, w) \in [RAM -> Byte]
  <1>1. w \div 256 \in Byte /\ w % 256 \in Byte
    <2>1. w \in Int /\ 0 <= w /\ w <= 65535
      BY WordRange
    <2>2. w \div 256 \in Int /\ 0 <= w \div 256 /\ w \div 256 <= 255
      BY <2>1, SMTT(30)
    <2>3. w % 256 \in Int /\ 0 <= w % 256 /\ w % 256 <= 255
      BY <2>1, SMTT(30)
    <2> QED
      BY <2>2, <2>3 DEF Byte
  <1>2. ASSUME NEW k \in [RAM -> Byte], NEW t, NEW c \in Byte
        PROVE  push8(k, t, c) \in [RAM -> Byte]
    BY WriteType DEF push8
  <1> QED
    BY <1>1, <1>2 DEF push16

\* What is popped has the type of what was pushed.
LEMMA PopType ==
  ASSUME mem \in [RAM -> Byte], NEW s, NEW n
  PROVE  pop8(s, n) \in Byte /\ pop16(s, n) \in Word
  BY ReadIsByte, Word16Of DEF pop8, pop16

----------------------------------------------------------------------------
(* Operands and cycles *)

IsOperand(e) == e.EA \in Word /\ e.len \in {0, 1, 2}

\* A zero-page address is an address.
LEMMA ByteIsWord == ASSUME NEW b \in Byte PROVE b \in Word
  <1>1. b \in Int /\ 0 <= b /\ b <= 65535
    BY DEF Byte
  <1> QED
    BY <1>1, WordIntro

\* The three forms of operand addr_resolve returns.
LEMMA OperandForms ==
  ASSUME NEW ea \in Word, NEW base \in Word, NEW index \in Byte,
         NEW n \in {0, 1, 2}
  PROVE  /\ IsOperand(AtAddress(ea, n))
         /\ IsOperand(AtIndexed(base, index, n))
         /\ IsOperand(Immediate(ea, n))
  <1>1. MEM_TWO_WORDS(base + index) \in Word
    <2>1. base + index \in Int
      BY ByteIsInt, WordIsInt
    <2> QED
      BY <2>1, WordOf
  <1> QED
    BY <1>1 DEF IsOperand, AtAddress, AtIndexed, Immediate

\* The effective address is a word whatever the operand bytes are.
LEMMA OperandType ==
  ASSUME CpuInv, NEW mode, NEW pc \in Word
  PROVE  IsOperand(addr_resolve(mode, pc))
  <1> DEFINE b == bus_read(pc)
             w == bus_read16(pc)
  <1>1. /\ \A a : bus_read(a) \in Byte /\ bus_read16(a) \in Word
        /\ \A a : ZeroPagePointer(a) \in Word
        /\ \A a : addr_ind(a) \in Word
    BY ReadIsByte, Read16IsWord, Word16Of
       DEF CpuInv, ZeroPagePointer, addr_ind
  <1>2. b \in Byte /\ w \in Word
    BY <1>1
  <1>3. REG.X \in Byte /\ REG.Y \in Byte
    BY LiveFields DEF CpuInv
  <1> HIDE DEF b, w
  <1>4. /\ MEM_WORD(REG.X + b) \in Word /\ MEM_WORD(REG.Y + b) \in Word
        /\ b \in Word
    <2>1. REG.X + b \in Int /\ REG.Y + b \in Int
      BY <1>2, <1>3 DEF Byte
    <2> QED
      BY <2>1, <1>2, ByteOf, ByteIsWord
  <1>5. MEM_TWO_WORDS(pc + 1 + SIGNED_MEM_WORD(b)) \in Word
    <2>1. SIGNED_MEM_WORD(b) \in Int
      BY <1>2 DEF SIGNED_MEM_WORD, Byte
    <2>2. pc + 1 + SIGNED_MEM_WORD(b) \in Int
      BY <2>1, WordIsInt
    <2> QED
      BY <2>2, WordOf
  <1>6. 0 \in Word
    BY WordIntro
  <1>7. CASE mode \in {"ZP", "ZPX", "ZPY", "ABS", "ZPREL"}
    BY <1>2, <1>4, <1>7, OperandForms DEF addr_resolve, b, w
  <1>8. CASE mode \in {"ABSX", "ABSY"}
    BY <1>2, <1>3, <1>8, OperandForms DEF addr_resolve, b, w
  <1>9. CASE mode = "INDY"
    <2>1. addr_resolve(mode, pc) = AtIndexed(ZeroPagePointer(b), REG.Y, 1)
      BY <1>9 DEF addr_resolve, b
    <2> QED
      BY <1>1, <1>3, <2>1, OperandForms
  <1>12. CASE mode \in {"IND", "INDX", "ZP_IND", "ABS_IND_X"}
    <2>1. \E ea \in Word, n \in {0, 1, 2} :
            addr_resolve(mode, pc) = AtAddress(ea, n)
      BY <1>1, <1>12 DEF addr_resolve
    <2> QED
      BY <2>1, <1>3, OperandForms
  <1>10. CASE mode \in {"IMM", "REL"}
    BY <1>2, <1>4, <1>5, <1>10, OperandForms DEF addr_resolve, b
  <1>11. CASE mode \notin {"ZP", "ZPX", "ZPY", "ABS", "ZPREL", "ABSX", "ABSY",
                           "INDY", "IND", "INDX", "ZP_IND", "ABS_IND_X", "IMM",
                           "REL"}
    BY <1>2, <1>6, <1>11, OperandForms DEF addr_resolve
  <1> QED
    BY <1>7, <1>8, <1>9, <1>10, <1>11, <1>12

\* CYCLE_BASE has an entry for every opcode.
LEMMA CycleTable ==
  ASSUME NEW op \in Byte PROVE Entry(CYCLE_BASE, op) \in Nat
  <1>1. (op \div 16) + 1 \in 1 .. 16 /\ (op % 16) + 1 \in 1 .. 16
    BY DEF Byte
  <1>2. \A j \in 1 .. 16 :
          /\ CYCLE_ROW_0[j] \in Nat /\ CYCLE_ROW_1[j] \in Nat
          /\ CYCLE_ROW_2[j] \in Nat /\ CYCLE_ROW_3[j] \in Nat
    BY DEF CYCLE_ROW_0, CYCLE_ROW_1, CYCLE_ROW_2, CYCLE_ROW_3
  <1>3. \A j \in 1 .. 16 :
          /\ CYCLE_ROW_4[j] \in Nat /\ CYCLE_ROW_5[j] \in Nat
          /\ CYCLE_ROW_6[j] \in Nat /\ CYCLE_ROW_7[j] \in Nat
    BY DEF CYCLE_ROW_4, CYCLE_ROW_5, CYCLE_ROW_6, CYCLE_ROW_7
  <1>4. \A j \in 1 .. 16 :
          /\ CYCLE_ROW_8[j] \in Nat /\ CYCLE_ROW_9[j] \in Nat
          /\ CYCLE_ROW_A[j] \in Nat /\ CYCLE_ROW_B[j] \in Nat
    BY DEF CYCLE_ROW_8, CYCLE_ROW_9, CYCLE_ROW_A, CYCLE_ROW_B
  <1>5. \A j \in 1 .. 16 :
          /\ CYCLE_ROW_C[j] \in Nat /\ CYCLE_ROW_D[j] \in Nat
          /\ CYCLE_ROW_E[j] \in Nat /\ CYCLE_ROW_F[j] \in Nat
    BY DEF CYCLE_ROW_C, CYCLE_ROW_D, CYCLE_ROW_E, CYCLE_ROW_F
  <1>6. \A i \in 1 .. 16 : \A j \in 1 .. 16 : CYCLE_BASE[i][j] \in Nat
    BY <1>2, <1>3, <1>4, <1>5 DEF CYCLE_BASE
  <1> QED
    BY <1>1, <1>6 DEF Entry

\* Base cycles of both variants are numbers.
LEMMA BaseCyclesNat ==
  ASSUME NEW op \in Byte, NEW variant PROVE BaseCycles(op, variant) \in Nat
  <1>1. cy65_cycle(op) \in Nat
    BY DEF cy65_cycle
  <1> QED
    BY <1>1, CycleTable DEF BaseCycles

\* CYCLES wraps in its width.
LEMMA CycleWrap ==
  ASSUME NEW n \in Int PROVE n % CYCLES_MOD \in 0 .. CYCLES_MOD - 1
  BY CpuAssumption

\* Charging an instruction keeps CYCLES in its width.
LEMMA ChargeType ==
  ASSUME CpuInv, NEW op \in Byte, NEW e, NEW extra \in Nat,
         Charge(op, e, extra)
  PROVE  CYCLES' \in 0 .. CYCLES_MOD - 1
  <1>1. OneIf(e.PAGE_CROSS /\ op \notin op_suppresses_pagecross) \in Nat
    BY DEF OneIf
  <1>2. BaseCycles(op, CPU_VARIANT_MODE) \in Nat /\ CYCLES \in Int
    BY BaseCyclesNat DEF CpuInv
  <1>3. CYCLES + BaseCycles(op, CPU_VARIANT_MODE)
          + OneIf(e.PAGE_CROSS /\ op \notin op_suppresses_pagecross) + extra
        \in Int
    BY <1>1, <1>2
  <1> QED
    BY <1>3, CycleWrap DEF Charge
----------------------------------------------------------------------------
(* Interrupt sequences *)

\* An interrupt sequence from live registers leaves live registers, a
\* memory and a controller.
LEMMA SequenceType ==
  ASSUME CpuInv, NEW type \in INTERRUPT_TYPE, NEW r \in LiveRegister,
         InterruptSequence(type, r)
  PROVE  /\ REG' \in LiveRegister
         /\ mem' \in [RAM -> Byte]
         /\ ic' \in INTERRUPT_CONTROLLER
         /\ CPU_WAITING' \in {0, 1}
  <1> DEFINE brk == type = "INT_BRK"
             ret == IF brk THEN MEM_TWO_WORDS(r.PC + 1) ELSE r.PC
             p   == IF brk THEN r.P \cup {"B", "U"} ELSE (r.P \ {"B"}) \cup {"U"}
             q   == (r.P \cup {"I"}) \ (IF CPU_VARIANT_MODE = CMOS
                                        THEN {"D"} ELSE {})
  <1>1. r.PC \in Word /\ r.PC \in Int /\ r.S \in Byte /\ r.S \in Int
        /\ r.P \in LiveP
    BY LiveFields, ByteIsInt, WordIsInt
  <1>2. ret \in Word
    BY <1>1, WordOf
  <1>3. mem' = push8(push16(mem, r.S, ret), MEM_WORD(r.S - 2), PByte(p))
    BY DEF InterruptSequence
  <1> HIDE DEF ret, p
  <1>4. mem' \in [RAM -> Byte]
    <2>1. push16(mem, r.S, ret) \in [RAM -> Byte]
      BY <1>2, PushType, StatusByte DEF CpuInv
    <2> QED
      BY <1>2, <1>3, <2>1, PushType, StatusByte
  <1>5. REG' \in LiveRegister
    <2>1. q \in LiveP
      BY <1>1, FlagNames DEF LiveP
    <2>2. MEM_WORD(r.S - 3) \in Byte
      BY <1>1, ByteOf
    <2>3. bus_read16(VectorOf(type)) \in Word
      BY Read16IsWord DEF CpuInv
    <2>4. REG' = [r EXCEPT !.S = MEM_WORD(r.S - 3), !.P = q,
                           !.PC = bus_read16(VectorOf(type))]
      BY DEF InterruptSequence
    <2> HIDE DEF q
    <2> QED
      BY <2>1, <2>2, <2>3, <2>4 DEF LiveRegister
  <1>6. ic' \in INTERRUPT_CONTROLLER
    <2>1. r.P \in SUBSET FLAG
      BY <1>1 DEF LiveP
    <2> QED
      BY <1>1, <2>1, BumpInCount, AcknowledgeType DEF InterruptSequence, CpuInv
  <1>7. CPU_WAITING' = 0
    BY DEF InterruptSequence
  <1> QED
    BY <1>4, <1>5, <1>6, <1>7

----------------------------------------------------------------------------
(* Instructions *)

\* What an instruction may change; the rest of CpuInv is cpu_step's.
StepInv ==
  /\ REG \in LiveRegister
  /\ mem \in [RAM -> Byte]
  /\ CYCLES \in 0 .. CYCLES_MOD - 1
  /\ CPU_WAITING \in {0, 1} /\ CPU_STOPPED \in {0, 1}
  /\ ic \in INTERRUPT_CONTROLLER

\* The operand of a register handler is a byte, read or immediate.
LEMMA DataIsByte ==
  ASSUME CpuInv, NEW e, IsOperand(e) PROVE Data(e) \in Byte
  <1>1. e.EA \in Int
    BY WordIsInt DEF IsOperand
  <1> QED
    BY <1>1, ReadIsByte, ByteOf DEF Data, CpuInv

\* The handlers that change registers and memory only.
LEMMA DataOpType ==
  ASSUME CpuInv, NEW op \in Byte, NEW h, NEW e, IsOperand(e),
         NEW r \in LiveRegister,
         \/ RegisterOp(op, h, e, r)
         \/ AccumulatorOp(op, h, e, r)
         \/ RmwOp(op, h, e, r)
         \/ StoreOp(op, h, e, r)
  PROVE  StepInv'
  <1>1. CYCLES' \in 0 .. CYCLES_MOD - 1
    BY ChargeType DEF RegisterOp, AccumulatorOp, RmwOp, StoreOp
  <1>2. /\ CPU_WAITING' \in {0, 1} /\ CPU_STOPPED' \in {0, 1}
        /\ ic' \in INTERRUPT_CONTROLLER
    BY DEF RegisterOp, AccumulatorOp, RmwOp, StoreOp, Running, CpuInv
  <1>3. CASE RegisterOp(op, h, e, r)
    <2>1. REG' \in LiveRegister
      BY <1>3, DataIsByte, RegisterResultLive DEF RegisterOp
    <2> QED
      BY <1>1, <1>2, <1>3, <2>1 DEF RegisterOp, StepInv, CpuInv
  <1>4. CASE AccumulatorOp(op, h, e, r)
    <2> DEFINE res == RmwResult(h, r, r.A, op, CPU_VARIANT_MODE)
    <2>1. h \in RmwHandlers
      BY <1>4 DEF AccumulatorOp, RmwHandlers
    <2>2. IsRmw(res)
      BY <2>1, LiveFields, RmwResultIs
    <2>3. REG' = [res.r EXCEPT !.A = res.v]
      BY <1>4 DEF AccumulatorOp
    <2> HIDE DEF res
    <2>4. REG' \in LiveRegister
      BY <2>2, <2>3, LiveUpdate DEF IsRmw
    <2> QED
      BY <1>1, <1>2, <1>4, <2>4 DEF AccumulatorOp, StepInv, CpuInv
  <1>5. CASE RmwOp(op, h, e, r)
    <2> DEFINE res == RmwResult(h, r, bus_read(e.EA), op, CPU_VARIANT_MODE)
    <2>1. bus_read(e.EA) \in Byte
      BY ReadIsByte DEF CpuInv
    <2>2. IsRmw(res)
      BY <1>5, <2>1, RmwResultIs DEF RmwOp
    <2>3. mem' = bus_write(mem, e.EA, res.v) /\ REG' = res.r
      BY <1>5 DEF RmwOp
    <2> HIDE DEF res
    <2>4. mem' \in [RAM -> Byte] /\ REG' \in LiveRegister
      BY <2>2, <2>3, WriteType DEF IsRmw, CpuInv
    <2> QED
      BY <1>1, <1>2, <2>4 DEF StepInv
  <1>6. CASE StoreOp(op, h, e, r)
    <2>1. mem' \in [RAM -> Byte] /\ REG' = r
      BY <1>6, StoredIsByte, WriteType DEF StoreOp, CpuInv
    <2> QED
      BY <1>1, <1>2, <2>1 DEF StepInv
  <1> QED
    BY <1>3, <1>4, <1>5, <1>6

\* The handlers that use the stack.
LEMMA StackOpType ==
  ASSUME CpuInv, NEW op \in Byte, NEW h, NEW e, IsOperand(e),
         NEW r \in LiveRegister,
         \/ PushOp(op, h, e, r)
         \/ PullOp(op, h, e, r)
         \/ JSR(op, h, e, r)
         \/ RTS(op, h, e, r)
         \/ RTI(op, h, e, r)
  PROVE  StepInv'
  <1>1. CYCLES' \in 0 .. CYCLES_MOD - 1
    BY ChargeType DEF PushOp, PullOp, JSR, RTS, RTI
  <1>2. /\ CPU_WAITING' \in {0, 1} /\ CPU_STOPPED' \in {0, 1}
        /\ ic' \in INTERRUPT_CONTROLLER
    BY DEF PushOp, PullOp, JSR, RTS, RTI, Running, CpuInv
  <1>3. r.S \in Int /\ r.PC \in Int /\ mem \in [RAM -> Byte]
    BY LiveFields, ByteIsInt, WordIsInt DEF CpuInv
  <1>4. /\ MEM_WORD(r.S - 1) \in Byte /\ MEM_WORD(r.S - 2) \in Byte
        /\ MEM_WORD(r.S + 1) \in Byte /\ MEM_WORD(r.S + 2) \in Byte
        /\ MEM_WORD(r.S + 3) \in Byte /\ MEM_TWO_WORDS(r.PC - 1) \in Word
    BY <1>3, ByteOf, WordOf
  <1>5. /\ pop8(r.S, 1) \in Byte /\ pop16(r.S, 1) \in Word
        /\ pop16(r.S, 2) \in Word
    BY <1>3, PopType
  <1>6. CASE PushOp(op, h, e, r)
    <2>1. mem' \in [RAM -> Byte]
      <3>1. PushedByte(h, r) \in Byte
        BY <1>6, PushedIsByte DEF PushOp
      <3>2. mem' = push8(mem, r.S, PushedByte(h, r))
        BY <1>6 DEF PushOp
      <3>3. r.PC \in Word
        BY LiveFields
      <3> QED
        BY <1>3, <3>1, <3>2, <3>3, PushType
    <2>2. REG' \in LiveRegister
      BY <1>4, <1>6, LiveUpdate DEF PushOp
    <2> QED
      BY <1>1, <1>2, <2>1, <2>2 DEF StepInv
  <1>7. CASE PullOp(op, h, e, r)
    <2> DEFINE s == [r EXCEPT !.S = MEM_WORD(r.S + 1)]
    <2>1. s \in LiveRegister
      BY <1>4, LiveUpdate
    <2>2. REG' = Pulled(h, s, pop8(r.S, 1)) /\ h \in PullHandlers
      BY <1>7 DEF PullOp
    <2> HIDE DEF s
    <2>3. REG' \in LiveRegister
      BY <1>5, <2>1, <2>2, PulledLive
    <2> QED
      BY <1>1, <1>2, <1>7, <2>3 DEF PullOp, StepInv, CpuInv
  <1>8. CASE JSR(op, h, e, r)
    <2>1. mem' \in [RAM -> Byte]
      BY <1>3, <1>4, <1>8, PushType, StatusByte DEF JSR
    <2>2. REG' = [r EXCEPT !.S = MEM_WORD(r.S - 2), !.PC = e.EA]
      BY <1>8 DEF JSR
    <2>3. REG' \in LiveRegister
      BY <1>4, <2>2 DEF LiveRegister, IsOperand
    <2> QED
      BY <1>1, <1>2, <2>1, <2>3 DEF StepInv
  <1>9. CASE RTS(op, h, e, r)
    <2> DEFINE w == MEM_TWO_WORDS(pop16(r.S, 1) + 1)
    <2>1. w \in Word
      <3>1. pop16(r.S, 1) + 1 \in Int
        BY <1>5, WordIsInt
      <3> QED
        BY <3>1, WordOf
    <2>2. REG' = [r EXCEPT !.S = MEM_WORD(r.S + 2), !.PC = w]
      BY <1>9 DEF RTS
    <2> HIDE DEF w
    <2>3. REG' \in LiveRegister
      BY <1>4, <2>1, <2>2 DEF LiveRegister
    <2> QED
      BY <1>1, <1>2, <1>9, <2>3 DEF RTS, StepInv, CpuInv
  <1>10. CASE RTI(op, h, e, r)
    <2> DEFINE q == PFlags(pop8(r.S, 1)) \ {"B", "U"}
    <2>1. q \in LiveP
      BY PulledFlags
    <2>2. REG' = [r EXCEPT !.S = MEM_WORD(r.S + 3), !.P = q,
                           !.PC = pop16(r.S, 2)]
      BY <1>10 DEF RTI
    <2> HIDE DEF q
    <2>3. REG' \in LiveRegister
      BY <1>4, <1>5, <2>1, <2>2 DEF LiveRegister
    <2> QED
      BY <1>1, <1>2, <1>10, <2>3 DEF RTI, StepInv, CpuInv
  <1> QED
    BY <1>6, <1>7, <1>8, <1>9, <1>10
\* The extra cycles of a branch are a number.
LEMMA OneIfNat == ASSUME NEW x, NEW y PROVE OneIf(x) + OneIf(y) \in Nat
  BY DEF OneIf

\* A branch target is an address.
LEMMA TargetIsWord ==
  ASSUME CpuInv, NEW h, NEW e, IsOperand(e), NEW r \in LiveRegister
  PROVE  BranchTarget(h, e, r) \in Word
  <1> DEFINE b == bus_read(MEM_TWO_WORDS(r.PC - 1))
  <1>1. b \in Byte
    BY ReadIsByte DEF CpuInv
  <1>2. SIGNED_MEM_WORD(b) \in Int
    BY <1>1 DEF SIGNED_MEM_WORD, Byte
  <1>3. r.PC \in Int
    BY LiveFields, WordIsInt
  <1> HIDE DEF b
  <1>4. MEM_TWO_WORDS(r.PC + SIGNED_MEM_WORD(b)) \in Word
    BY <1>2, <1>3, WordOf
  <1> QED
    BY <1>4 DEF BranchTarget, IsOperand, b

\* The handlers that move the program counter or halt.
LEMMA ControlOpType ==
  ASSUME CpuInv, NEW op \in Byte, NEW h, NEW e, IsOperand(e),
         NEW r \in LiveRegister,
         \/ BranchOp(op, h, e, r)
         \/ JMP(op, h, e, r)
         \/ BRK(op, h, e, r)
         \/ WAI(op, h, e, r)
         \/ Stop(op, h, e, r)
  PROVE  StepInv'
  <1>1. CASE BranchOp(op, h, e, r)
    <2> DEFINE taken == Taken(h, r.P, bus_read(e.EA), op)
               target == BranchTarget(h, e, r)
               pc == IF taken THEN target ELSE r.PC
    <2>1. pc \in Word
      BY TargetIsWord, LiveFields
    <2>2. /\ REG' = [r EXCEPT !.PC = pc]
          /\ Charge(op, e, OneIf(taken)
                             + OneIf(taken /\ Page(r.PC) # Page(target)))
          /\ UNCHANGED mem /\ Running
      BY <1>1 DEF BranchOp
    <2> HIDE DEF taken, target, pc
    <2>3. REG' \in LiveRegister
      BY <2>1, <2>2, LiveUpdate
    <2>4. CYCLES' \in 0 .. CYCLES_MOD - 1
      BY <2>2, OneIfNat, ChargeType
    <2> QED
      BY <2>2, <2>3, <2>4 DEF Running, StepInv, CpuInv
  <1>2. CASE JMP(op, h, e, r)
    <2>1. REG' \in LiveRegister
      BY <1>2, LiveUpdate DEF JMP, IsOperand
    <2>2. OneIf(CPU_VARIANT_MODE = CMOS /\ op = \h6C) \in Nat
      BY DEF OneIf
    <2>3. CYCLES' \in 0 .. CYCLES_MOD - 1
      BY <1>2, <2>2, ChargeType DEF JMP
    <2> QED
      BY <1>2, <2>1, <2>3 DEF JMP, Running, StepInv, CpuInv
  <1>3. CASE BRK(op, h, e, r)
    <2>1. "INT_BRK" \in INTERRUPT_TYPE
      BY DEF INTERRUPT_TYPE
    <2>2. CYCLES' \in 0 .. CYCLES_MOD - 1
      BY <1>3, ChargeType DEF BRK
    <2>3. /\ REG' \in LiveRegister /\ mem' \in [RAM -> Byte]
          /\ ic' \in INTERRUPT_CONTROLLER /\ CPU_WAITING' \in {0, 1}
      BY <1>3, <2>1, SequenceType DEF BRK
    <2> QED
      BY <1>3, <2>2, <2>3 DEF BRK, StepInv, CpuInv
  <1>4. CASE WAI(op, h, e, r)
    <2>1. CYCLES' \in 0 .. CYCLES_MOD - 1
      BY <1>4, ChargeType DEF WAI
    <2> QED
      BY <1>4, <2>1 DEF WAI, StepInv, CpuInv
  <1>5. CASE Stop(op, h, e, r)
    <2>1. CYCLES' \in 0 .. CYCLES_MOD - 1
      BY <1>5, ChargeType DEF Stop
    <2> QED
      BY <1>5, <2>1 DEF Stop, StepInv, CpuInv
  <1> QED
    BY <1>1, <1>2, <1>3, <1>4, <1>5

\* Fetch, decode, operand and handler together keep the types.
LEMMA InstructionType ==
  ASSUME CpuInv, Instruction PROVE StepInv'
  <1> DEFINE op == bus_read(REG.PC)
             h  == instr_dispatch(op, CPU_VARIANT_MODE)
             pc == MEM_TWO_WORDS(REG.PC + 1)
             e  == addr_resolve(AddrMode(op, CPU_VARIANT_MODE), pc)
             r  == [REG EXCEPT !.PC = MEM_TWO_WORDS(pc + e.len)]
  <1>1. op \in Byte
    BY ReadIsByte DEF CpuInv
  <1>2. pc \in Word
    <2>1. REG.PC + 1 \in Int
      BY LiveFields, WordIsInt DEF CpuInv
    <2> QED
      BY <2>1, WordOf
  <1> HIDE DEF pc
  <1>3. IsOperand(e)
    BY <1>2, OperandType
  <1> HIDE DEF e
  <1>4. r \in LiveRegister
    <2>1. pc + e.len \in Int
      BY <1>2, <1>3, WordIsInt DEF IsOperand
    <2>2. MEM_TWO_WORDS(pc + e.len) \in Word
      BY <2>1, WordOf
    <2> QED
      BY <2>2, LiveUpdate DEF CpuInv
  <1>5. \/ RegisterOp(op, h, e, r) \/ AccumulatorOp(op, h, e, r)
        \/ RmwOp(op, h, e, r) \/ StoreOp(op, h, e, r)
        \/ PushOp(op, h, e, r) \/ PullOp(op, h, e, r)
        \/ BranchOp(op, h, e, r) \/ JMP(op, h, e, r) \/ JSR(op, h, e, r)
        \/ RTS(op, h, e, r) \/ RTI(op, h, e, r) \/ BRK(op, h, e, r)
        \/ WAI(op, h, e, r) \/ Stop(op, h, e, r)
    BY DEF Instruction, e, pc
  <1> HIDE DEF op, h, r
  <1> QED
    BY <1>1, <1>3, <1>4, <1>5, DataOpType, StackOpType, ControlOpType

----------------------------------------------------------------------------
(* The invariant *)

\* cpu_step preserves the invariant.
LEMMA StepType ==
  ASSUME CpuInv, cpu_step PROVE CpuInv'
  <1>1. global_cycle_count' \in Count /\ CPU_VARIANT_MODE' \in CPU_VARIANT
    BY BumpInCount DEF cpu_step, CpuInv
  <1>2. ASSUME NEW type \in INTERRUPT_TYPE, ServiceInterrupt(type)
        PROVE  StepInv'
    <2>1. CYCLES + 7 \in Int
      BY CpuAssumption DEF CpuInv
    <2>2. CYCLES' \in 0 .. CYCLES_MOD - 1
      BY <1>2, <2>1, CycleWrap DEF ServiceInterrupt
    <2>3. /\ REG' \in LiveRegister /\ mem' \in [RAM -> Byte]
          /\ ic' \in INTERRUPT_CONTROLLER /\ CPU_WAITING' \in {0, 1}
      BY <1>2, SequenceType DEF ServiceInterrupt, CpuInv
    <2> QED
      BY <1>2, <2>2, <2>3 DEF ServiceInterrupt, StepInv, CpuInv
  <1>3. "INT_NMI" \in INTERRUPT_TYPE /\ "INT_IRQ" \in INTERRUPT_TYPE
    BY DEF INTERRUPT_TYPE
  <1>4. ASSUME Halted PROVE StepInv'
    BY <1>4 DEF Halted, StepInv, CpuInv
  <1>5. StepInv'
    BY <1>2, <1>3, <1>4, InstructionType DEF cpu_step
  <1> QED
    BY <1>1, <1>5 DEF StepInv, CpuInv

\* cpu_reset leaves live registers.
LEMMA ResetType ==
  ASSUME mem \in [RAM -> Byte] PROVE ResetRegisters \in LiveRegister
  <1>1. /\ 0 \in Byte /\ CPU_RESET_STACK_POINTER \in Byte
        /\ CPU_RESET_STATUS \in LiveP
    BY FlagNames DEF Byte, CPU_RESET_STACK_POINTER, CPU_RESET_STATUS, LiveP
  <1>2. bus_read16(CPU_RESET_VECTOR_ADDRESS) \in Word
    BY Read16IsWord
  <1> QED
    BY <1>1, <1>2 DEF ResetRegisters, LiveRegister

\* So does every call the host can make between steps.
LEMMA HostType ==
  ASSUME CpuInv, Host PROVE CpuInv'
  <1>1. ASSUME NEW c \in INTERRUPT_CONTROLLER, Controller(c) PROVE CpuInv'
    BY <1>1 DEF Controller, CpuInv
  <1>2. ic \in INTERRUPT_CONTROLLER
    BY DEF CpuInv
  <1>3. ASSUME NEW active \in {0, 1}, SetIrq(active) \/ SetNmi(active)
        PROVE  CpuInv'
    BY <1>1, <1>2, <1>3, LinesType DEF SetIrq, SetNmi
  <1>4. CASE cpu_irq \/ cpu_nmi
    BY <1>1, <1>2, <1>4, LinesType DEF cpu_irq, cpu_nmi
  <1>5. CASE cpu_init \/ ClearHistory
    BY <1>1, <1>2, <1>5, InitialController, ClearType DEF cpu_init, ClearHistory
  <1>6. CASE cpu_reset
    <2>1. CYCLES + 7 \in Int
      BY CpuAssumption DEF CpuInv
    <2>2. CYCLES' \in 0 .. CYCLES_MOD - 1
      BY <1>6, <2>1, CycleWrap DEF cpu_reset
    <2>3. REG' \in LiveRegister
      BY <1>6, ResetType DEF cpu_reset, CpuInv
    <2> QED
      BY <1>6, <2>2, <2>3 DEF cpu_reset, CpuInv
  <1>7. ASSUME NEW variant \in Variants, cpu_set_variant(variant) PROVE CpuInv'
    BY <1>7, CpuAssumption DEF cpu_set_variant, CpuInv
  <1> QED
    BY <1>3, <1>4, <1>5, <1>6, <1>7 DEF Host

\* CpuInv holds after power-on.
LEMMA InitType == ASSUME Init PROVE CpuInv
  <1>1. mem \in [RAM -> Byte] /\ CPU_VARIANT_MODE \in CPU_VARIANT
    BY CpuAssumption DEF Init
  <1>2. REG \in LiveRegister
    BY <1>1, ResetType DEF Init
  <1>3. CYCLES \in 0 .. CYCLES_MOD - 1
    BY CycleWrap DEF Init
  <1>4. ic \in INTERRUPT_CONTROLLER /\ global_cycle_count \in Count
    BY InitialController, InterruptAssumption DEF Init, Count
  <1> QED
    BY <1>1, <1>2, <1>3, <1>4 DEF Init, CpuInv

\* CpuInv is an invariant of the CPU, whatever the host does between steps.
THEOREM CpuInvariant == Spec => []CpuInv
  <1>1. Init => CpuInv
    BY InitType
  <1>2. CpuInv /\ [Next]_vars => CpuInv'
    <2> SUFFICES ASSUME CpuInv, [Next]_vars PROVE CpuInv'
      OBVIOUS
    <2>1. CASE cpu_step
      BY <2>1, StepType
    <2>2. CASE Host
      BY <2>2, HostType
    <2>3. CASE UNCHANGED vars
      BY <2>3 DEF vars, CpuInv
    <2> QED
      BY <2>1, <2>2, <2>3 DEF Next
  <1> QED
    BY <1>1, <1>2, PTL DEF Spec

\* Registers, cells and counters keep their C types.
THEOREM TypeCorrect == Spec => []TypeOK
  <1>1. CpuInv => TypeOK
    <2> SUFFICES ASSUME CpuInv PROVE TypeOK
      OBVIOUS
    <2>1. REG \in T_REGISTER
      BY DEF CpuInv, LiveRegister, LiveP, T_REGISTER
    <2> QED
      BY <2>1 DEF CpuInv, TypeOK
  <1> QED
    BY <1>1, CpuInvariant, PTL

\* FLAG_B never shows in the live status register.
THEOREM BCorrect == Spec => []BNeverLive
  <1>1. CpuInv => BNeverLive
    BY LiveFields DEF CpuInv, LiveP, BNeverLive
  <1> QED
    BY <1>1, CpuInvariant, PTL
----------------------------------------------------------------------------
(* NMI delivery *)

\* A word is put together again from its two bytes.
LEMMA SplitWord ==
  ASSUME NEW w \in Word PROVE Word16(w % 256, w \div 256) = w
  <1>1. w \in Int
    BY WordIsInt
  <1> QED
    BY <1>1, SMTT(30) DEF Word16

\* The three cells of an interrupt frame are different, even when the
\* stack pointer wraps around.
LEMMA StackCells ==
  ASSUME NEW s \in Byte
  PROVE  /\ STACK_START + MEM_WORD(s - 0) = STACK_START + s
         /\ STACK_START + MEM_WORD(s - 1) # STACK_START + s
         /\ STACK_START + MEM_WORD(s - 2) # STACK_START + s
         /\ STACK_START + MEM_WORD(s - 2) # STACK_START + MEM_WORD(s - 1)
  BY SMTT(30) DEF STACK_START, MEM_WORD, Byte

\* The two bytes of the return address stay on the stack under P.
LEMMA PushedReturn ==
  ASSUME NEW m \in [RAM -> Byte], NEW s \in Byte, NEW w \in Word, NEW b \in Byte,
         NEW n, n = push8(push16(m, s, w), MEM_WORD(s - 2), b),
         STACK_START + MEM_WORD(s - 0) \in RAM,
         STACK_START + MEM_WORD(s - 1) \in RAM
  PROVE  /\ n[STACK_START + MEM_WORD(s - 0)] = w \div 256
         /\ n[STACK_START + MEM_WORD(s - 1)] = w % 256
  <1> DEFINE hi == STACK_START + s
             lo == STACK_START + MEM_WORD(s - 1)
             st == STACK_START + MEM_WORD(s - 2)
  <1>1. /\ STACK_START + MEM_WORD(s - 0) = hi
        /\ lo # hi /\ st # hi /\ st # lo
    BY StackCells
  <1>2. hi \in RAM /\ lo \in RAM
    BY <1>1
  <1>3. n = bus_write(bus_write(bus_write(m, hi, w \div 256), lo, w % 256),
                      st, b)
    BY DEF push16, push8
  <1> HIDE DEF hi, lo, st
  <1>4. n[hi] = w \div 256 /\ n[lo] = w % 256
    BY <1>1, <1>2, <1>3 DEF bus_write
  <1> QED
    BY <1>1, <1>4 DEF lo

\* A latched NMI survives everything but cpu_init until the step that enters
\* its handler with the interrupted PC on the stack.
THEOREM NmiCorrect == Spec => NmiDelivered
  <1> DEFINE Entered ==
        /\ REG'.PC = bus_read16(NMI_VECTOR)
        /\ REG'.S = MEM_WORD(REG.S - 3)
        /\ LET cell(n) == STACK_START + MEM_WORD(REG.S - n)
           IN  {cell(0), cell(1)} \subseteq RAM =>
                 Word16(mem'[cell(1)], mem'[cell(0)]) = REG.PC
  <1>1. ASSUME CpuInv, Host, ic.nmi_pending = 1, ic'.nmi_pending = 0
        PROVE  ic' = interrupt_init
    <2>1. ic \in INTERRUPT_CONTROLLER
      BY <1>1 DEF CpuInv
    <2>2. ASSUME NEW c \in INTERRUPT_CONTROLLER, c.nmi_pending = 1,
                 NEW active \in {0, 1}
          PROVE  /\ interrupt_set_irq(c, active).nmi_pending = 1
                 /\ interrupt_set_nmi(c, active).nmi_pending = 1
                 /\ interrupt_clear_history(c).nmi_pending = 1
      BY <2>2 DEF interrupt_set_irq, interrupt_set_nmi, interrupt_clear_history,
                  INTERRUPT_CONTROLLER
    <2>3. ~ (\E active \in {0, 1} : SetIrq(active) \/ SetNmi(active))
      BY <1>1, <2>1, <2>2 DEF SetIrq, SetNmi, Controller
    <2>4. ~ cpu_irq /\ ~ ClearHistory
      BY <1>1, <2>1, <2>2 DEF cpu_irq, ClearHistory, Controller
    <2>5. ~ cpu_nmi
      <3>1. interrupt_set_nmi(ic, 1) \in INTERRUPT_CONTROLLER
        BY <2>1, LinesType
      <3> QED
        BY <1>1, <2>1, <2>2, <3>1 DEF cpu_nmi, Controller
    <2>6. ~ cpu_reset /\ \A variant \in Variants : ~ cpu_set_variant(variant)
      BY <1>1 DEF cpu_reset, cpu_set_variant
    <2> QED
      BY <1>1, <2>3, <2>4, <2>5, <2>6 DEF Host, cpu_init, Controller
  <1>2. ASSUME CpuInv, cpu_step, ic.nmi_pending = 1 PROVE Entered
    <2>1. interrupt_poll(ic, REG.P) = "INT_NMI"
      BY <1>2 DEF interrupt_poll
    <2>2. InterruptSequence("INT_NMI", REG)
      BY <1>2, <2>1 DEF cpu_step, ServiceInterrupt, Halted, Instruction
    <2> DEFINE b == PByte((REG.P \ {"B"}) \cup {"U"})
    <2>3. /\ mem' = push8(push16(mem, REG.S, REG.PC), MEM_WORD(REG.S - 2), b)
          /\ REG'.PC = bus_read16(NMI_VECTOR) /\ REG'.S = MEM_WORD(REG.S - 3)
      <3>1. REG \in LiveRegister
        BY <1>2 DEF CpuInv
      <3> QED
        BY <2>2, <3>1 DEF InterruptSequence, VectorOf, LiveRegister
    <2>4. /\ REG.PC \in Word /\ REG.S \in Byte /\ b \in Byte
          /\ mem \in [RAM -> Byte]
      BY <1>2, LiveFields, StatusByte DEF CpuInv
    <2> HIDE DEF b
    <2>5. ASSUME STACK_START + MEM_WORD(REG.S - 0) \in RAM,
                 STACK_START + MEM_WORD(REG.S - 1) \in RAM
          PROVE  Word16(mem'[STACK_START + MEM_WORD(REG.S - 1)],
                        mem'[STACK_START + MEM_WORD(REG.S - 0)]) = REG.PC
      BY <2>3, <2>4, <2>5, PushedReturn, SplitWord
    <2> QED
      BY <2>3, <2>5
  <1>3. CpuInv /\ [Next]_vars =>
          (ic.nmi_pending = 1 /\ ic'.nmi_pending = 0 =>
             ic' = interrupt_init \/ Entered)
    <2>1. CASE UNCHANGED vars
      BY <2>1 DEF vars
    <2> QED
      BY <1>1, <1>2, <2>1 DEF Next
  <1> QED
    BY <1>3, CpuInvariant, PTL DEF Spec, NmiDelivered

----------------------------------------------------------------------------
(* The way back *)

\* A flag survives being pushed and pulled.
LEMMA FlagsOfByte ==
  ASSUME NEW p \in SUBSET FLAG
  PROVE  PFlags(PByte(p)) = p
  <1> DEFINE b(f, n) == IF f \in p THEN n ELSE 0
             b7 == b("N", 128) b6 == b("V", 64) b5 == b("U", 32) b4 == b("B", 16)
             b3 == b("D", 8) b2 == b("I", 4) b1 == b("Z", 2) b0 == b("C", 1)
             x == b7 + b6 + b5 + b4 + b3 + b2 + b1 + b0
  <1>1. /\ b7 \in {0, 128} /\ b6 \in {0, 64} /\ b5 \in {0, 32} /\ b4 \in {0, 16}
        /\ b3 \in {0, 8} /\ b2 \in {0, 4} /\ b1 \in {0, 2} /\ b0 \in {0, 1}
    OBVIOUS
  <1>2. /\ (b7 = 128 <=> "N" \in p) /\ (b6 = 64 <=> "V" \in p)
        /\ (b5 = 32 <=> "U" \in p) /\ (b4 = 16 <=> "B" \in p)
        /\ (b3 = 8 <=> "D" \in p) /\ (b2 = 4 <=> "I" \in p)
        /\ (b1 = 2 <=> "Z" \in p) /\ (b0 = 1 <=> "C" \in p)
    OBVIOUS
  <1>3. PByte(p) = x
    BY DEF PByte
  <1> HIDE DEF b7, b6, b5, b4, b3, b2, b1, b0
  <1>4. /\ (x \div 128) % 2 = 1 <=> b7 = 128
        /\ (x \div 64) % 2 = 1 <=> b6 = 64
        /\ (x \div 32) % 2 = 1 <=> b5 = 32
        /\ (x \div 16) % 2 = 1 <=> b4 = 16
        /\ (x \div 8) % 2 = 1 <=> b3 = 8
        /\ (x \div 4) % 2 = 1 <=> b2 = 4
        /\ (x \div 2) % 2 = 1 <=> b1 = 2
        /\ (x \div 1) % 2 = 1 <=> b0 = 1
    BY <1>1, SMTT(60)
  <1> HIDE DEF x
  <1>5. /\ FLAG_BIT["N"] = 7 /\ FLAG_BIT["V"] = 6 /\ FLAG_BIT["U"] = 5
        /\ FLAG_BIT["B"] = 4 /\ FLAG_BIT["D"] = 3 /\ FLAG_BIT["I"] = 2
        /\ FLAG_BIT["Z"] = 1 /\ FLAG_BIT["C"] = 0
    BY DEF FLAG_BIT
  <1>6. /\ 2^7 = 128 /\ 2^6 = 64 /\ 2^5 = 32 /\ 2^4 = 16
        /\ 2^3 = 8 /\ 2^2 = 4 /\ 2^1 = 2 /\ 2^0 = 1
    OBVIOUS
  <1>7. ASSUME NEW f \in FLAG PROVE Bit(x, FLAG_BIT[f]) <=> f \in p
    <2>1. /\ Bit(x, 7) <=> "N" \in p
          /\ Bit(x, 6) <=> "V" \in p
          /\ Bit(x, 5) <=> "U" \in p
          /\ Bit(x, 4) <=> "B" \in p
      BY <1>2, <1>4, <1>6 DEF Bit
    <2>2. /\ Bit(x, 3) <=> "D" \in p
          /\ Bit(x, 2) <=> "I" \in p
          /\ Bit(x, 1) <=> "Z" \in p
          /\ Bit(x, 0) <=> "C" \in p
      BY <1>2, <1>4, <1>6 DEF Bit
    <2> QED
      BY <1>5, <2>1, <2>2 DEF FLAG
  <1> QED
    BY <1>3, <1>7 DEF PFlags

\* The three bytes an interrupt pushes are there for RTI to pull, wherever the
\* stack pointer wraps.
LEMMA PulledFrame ==
  ASSUME NEW m \in [RAM -> Byte], NEW s \in Byte, NEW w \in Word, NEW b \in Byte,
         NEW n, n = push8(push16(m, s, w), MEM_WORD(s - 2), b),
         \A k \in 0 .. 2 : STACK_START + MEM_WORD(s - k) \in RAM
  PROVE  LET t == MEM_WORD(s - 3)
             cell(k) == STACK_START + MEM_WORD(t + k)
         IN  /\ MEM_WORD(t + 3) = s
             /\ {cell(1), cell(2), cell(3)} \subseteq RAM
             /\ n[cell(1)] = b
             /\ Word16(n[cell(2)], n[cell(3)]) = w
  <1> DEFINE t == MEM_WORD(s - 3)
             cell(k) == STACK_START + MEM_WORD(t + k)
             hi == STACK_START + MEM_WORD(s - 0)
             lo == STACK_START + MEM_WORD(s - 1)
             st == STACK_START + MEM_WORD(s - 2)
  <1>1. /\ MEM_WORD(t + 3) = s /\ MEM_WORD(t + 3) = MEM_WORD(s - 0)
        /\ MEM_WORD(t + 2) = MEM_WORD(s - 1) /\ MEM_WORD(t + 1) = MEM_WORD(s - 2)
    BY SMTT(30) DEF MEM_WORD, Byte
  <1>2. cell(1) = st /\ cell(2) = lo /\ cell(3) = hi
    BY <1>1
  <1>3. hi \in RAM /\ lo \in RAM /\ st \in RAM
    OBVIOUS
  <1>4. n[hi] = w \div 256 /\ n[lo] = w % 256
    BY <1>3, PushedReturn
  <1>5. n[st] = b
    <2>1. push16(m, s, w) \in [RAM -> Byte]
      BY PushType
    <2>2. n = bus_write(push16(m, s, w), st, b)
      BY DEF push8
    <2> HIDE DEF st
    <2> QED
      BY <1>3, <2>1, <2>2 DEF bus_write
  <1>6. Word16(n[lo], n[hi]) = w
    BY <1>4, SplitWord
  <1> HIDE DEF cell, hi, lo, st, t
  <1>7. /\ MEM_WORD(t + 3) = s /\ {cell(1), cell(2), cell(3)} \subseteq RAM
        /\ n[cell(1)] = b /\ Word16(n[cell(2)], n[cell(3)]) = w
    BY <1>1, <1>2, <1>3, <1>5, <1>6
  <1> QED
    BY <1>7 DEF t, cell

\* BRK and RTI have one opcode each on both variants, and no operand: the
\* padding byte behind BRK is none to the code.
LEMMA BreakAndReturn ==
  ASSUME NEW variant \in CPU_VARIANT
  PROVE  /\ instr_dispatch(\h00, variant) = "BRK"
         /\ instr_dispatch(\h40, variant) = "RTI"
         /\ AddrMode(\h00, variant) = "NONE"
  <1>1. /\ Entry(INSTR_HANDLERS, \h00) = INSTR_HANDLERS[1][1]
        /\ Entry(INST_TABLE, \h00) = INST_TABLE[1][1]
        /\ Entry(INSTR_HANDLERS, \h40) = INSTR_HANDLERS[5][1]
    BY DEF Entry
  <1>2. INSTR_HANDLERS[1][1] = "BRK" /\ INSTR_HANDLERS[5][1] = "RTI"
    BY DEF INSTR_HANDLERS
  <1>3. INST_TABLE[1][1] = "NONE"
    BY DEF INST_TABLE, INST_ROW_0
  <1>4. NMOS_HANDLER(\h00) = "NULL" /\ NMOS_HANDLER(\h40) = "NULL"
    BY DEF NMOS_HANDLER
  <1>5. nmos_addr_override(\h00) = "NONE"
    BY DEF nmos_addr_override
  <1>6. \h00 \notin cmos_addr_override
    BY DEF cmos_addr_override
  <1> QED
    BY <1>1, <1>2, <1>3, <1>4, <1>5, <1>6 DEF instr_dispatch, AddrMode

\* The return address BRK pushes, across the end of the address space.
LEMMA BehindPadding ==
  ASSUME NEW x \in Word
  PROVE  /\ MEM_TWO_WORDS(MEM_TWO_WORDS(x + 1) + 0) \in Word
         /\ MEM_TWO_WORDS(MEM_TWO_WORDS(MEM_TWO_WORDS(x + 1) + 0) + 1)
              = MEM_TWO_WORDS(x + 2)
  <1> DEFINE y == MEM_TWO_WORDS(x + 1)
             z == MEM_TWO_WORDS(y + 0)
  <1>1. x \in Int /\ 0 <= x /\ x <= 65535
    BY WordRange
  <1>2. \A n \in Int : 0 <= n /\ n < 65536 => MEM_TWO_WORDS(n) = n
    BY DEF MEM_TWO_WORDS
  <1>3. MEM_TWO_WORDS(65536) = 0 /\ MEM_TWO_WORDS(65537) = 1
    BY DEF MEM_TWO_WORDS
  <1>4. y = IF x = 65535 THEN 0 ELSE x + 1
    BY <1>1, <1>2, <1>3
  <1>5. y \in Int /\ 0 <= y /\ y <= 65535
    BY <1>1, <1>4
  <1> HIDE DEF y
  <1>6. z = y
    BY <1>2, <1>5
  <1>7. z \in Word
    BY <1>5, WordOf
  <1> HIDE DEF z
  <1>8. MEM_TWO_WORDS(z + 1) = MEM_TWO_WORDS(x + 2)
    <2>1. CASE x = 65535
      <3>1. z + 1 = 1 /\ x + 2 = 65537
        BY <1>4, <1>6, <2>1
      <3> QED
        BY <1>2, <1>3, <3>1
    <2>2. CASE x # 65535
      <3>1. z + 1 = x + 2
        BY <1>1, <1>4, <1>6, <2>2
      <3> QED
        BY <3>1
    <2> QED
      BY <2>1, <2>2
  <1> QED
    BY <1>7, <1>8 DEF y, z

\* After an interrupt sequence of any type from the registers r, an RTI makes
\* them r again, with the return address as PC and without U.
LEMMA SequenceReturns ==
  ASSUME NEW type, NEW r \in LiveRegister, mem \in [RAM -> Byte],
         InterruptSequence(type, r),
         \A k \in 0 .. 2 : STACK_START + MEM_WORD(r.S - k) \in RAM
  PROVE  LET ret == IF type = "INT_BRK" THEN MEM_TWO_WORDS(r.PC + 1) ELSE r.PC
         IN  Returned' = [r EXCEPT !.P = @ \ {"U"}, !.PC = ret]
  <1> DEFINE ret == IF type = "INT_BRK" THEN MEM_TWO_WORDS(r.PC + 1) ELSE r.PC
             p == IF type = "INT_BRK" THEN r.P \cup {"B", "U"}
                                      ELSE (r.P \ {"B"}) \cup {"U"}
             s == REG'.S
  <1>1. /\ mem' = push8(push16(mem, r.S, ret), MEM_WORD(r.S - 2), PByte(p))
        /\ REG' = [r EXCEPT
                    !.S = MEM_WORD(@ - 3),
                    !.P = (@ \cup {"I"}) \ (IF CPU_VARIANT_MODE = CMOS
                                            THEN {"D"} ELSE {}),
                    !.PC = bus_read16(VectorOf(type))]
    BY DEF InterruptSequence
  <1>2. /\ r.PC \in Word /\ r.S \in Byte /\ PByte(p) \in Byte
        /\ r.P \in LiveP
    BY LiveFields, StatusByte
  <1>3. ret \in Word
    <2>1. r.PC \in Int
      BY <1>2, WordIsInt
    <2>2. MEM_TWO_WORDS(r.PC + 1) \in Word
      BY <2>1, WordOf
    <2> QED
      BY <1>2, <2>1, <2>2
  <1>4. s = MEM_WORD(r.S - 3)
    BY <1>1 DEF LiveRegister
  <1>5. /\ MEM_WORD(s + 3) = r.S
        /\ STACK_START + MEM_WORD(s + 1) \in RAM
        /\ STACK_START + MEM_WORD(s + 2) \in RAM
        /\ STACK_START + MEM_WORD(s + 3) \in RAM
        /\ mem'[STACK_START + MEM_WORD(s + 1)] = PByte(p)
        /\ Word16(mem'[STACK_START + MEM_WORD(s + 2)],
                  mem'[STACK_START + MEM_WORD(s + 3)]) = ret
    <2> HIDE DEF p, ret
    <2> QED
      BY <1>1, <1>2, <1>3, <1>4, PulledFrame
  <1>6. PFlags(PByte(p)) = p
    <2>1. p \in SUBSET FLAG
      BY <1>2 DEF LiveP, FLAG
    <2> HIDE DEF p
    <2> QED
      BY <2>1, FlagsOfByte
  <1>7. p \ {"B", "U"} = r.P \ {"U"}
    BY <1>2 DEF LiveP
  <1> HIDE DEF p, s, ret
  <1>8. Returned' = [REG' EXCEPT !.S = r.S, !.P = r.P \ {"U"}, !.PC = ret]
    <2>1. pop8(REG.S, 1)' = PByte(p)
      BY <1>5 DEF pop8, bus_read, s
    <2>2. pop16(REG.S, 2)' = ret
      BY <1>5 DEF pop16, pop8, bus_read, s
    <2> QED
      BY <1>5, <1>6, <1>7, <2>1, <2>2 DEF Returned, s
  <1>9. Returned' = [r EXCEPT !.P = @ \ {"U"}, !.PC = ret]
    BY <1>1, <1>8 DEF LiveRegister
  <1> QED
    BY <1>9 DEF ret

\* Wherever an interrupt hits and wherever the stack pointer is, an RTI takes
\* the CPU back to the interrupted instruction with its registers, its flags
\* and its stack pointer, provided the three cells of the frame are RAM.
THEOREM ReturnsCorrect == Spec => InterruptsReturn
  <1> DEFINE frame == {STACK_START + MEM_WORD(REG.S - k) : k \in 0 .. 2}
             op == bus_read(REG.PC)
             pc == MEM_TWO_WORDS(REG.PC + 1)
             h  == instr_dispatch(op, CPU_VARIANT_MODE)
             e  == addr_resolve(AddrMode(op, CPU_VARIANT_MODE), pc)
             r  == [REG EXCEPT !.PC = MEM_TWO_WORDS(pc + e.len)]
  <1>1. ASSUME CpuInv, frame \subseteq RAM,
               ServiceInterrupt("INT_NMI") \/ ServiceInterrupt("INT_IRQ")
        PROVE  Returned' = [REG EXCEPT !.P = @ \ {"U"}]
    <2>1. PICK type \in {"INT_NMI", "INT_IRQ"} : InterruptSequence(type, REG)
      BY <1>1 DEF ServiceInterrupt
    <2>2. REG \in LiveRegister /\ mem \in [RAM -> Byte]
      BY <1>1 DEF CpuInv
    <2>3. Returned' = [REG EXCEPT !.P = @ \ {"U"}, !.PC = REG.PC]
      BY <1>1, <2>1, <2>2, SequenceReturns, Zenon
    <2> QED
      BY <2>2, <2>3 DEF LiveRegister
  <1>2. ASSUME CpuInv, Instruction, op = \h00, frame \subseteq RAM
        PROVE  Returned' = [REG EXCEPT !.P = @ \ {"U"},
                                       !.PC = MEM_TWO_WORDS(@ + 2)]
    <2>1. /\ REG \in LiveRegister /\ mem \in [RAM -> Byte]
          /\ CPU_VARIANT_MODE \in CPU_VARIANT
      BY <1>2 DEF CpuInv
    <2>2. h = "BRK" /\ AddrMode(op, CPU_VARIANT_MODE) = "NONE"
      BY <1>2, <2>1, BreakAndReturn
    <2>3. BRK(op, h, e, r)
      <3> HIDE DEF op, e, r
      <3> QED
        BY <1>2, <2>2
        DEF Instruction, RegisterOp, AccumulatorOp, RmwOp, StoreOp,
            PushOp, PullOp, BranchOp, JMP, JSR, RTS, RTI, WAI, Stop,
            RegisterHandlers, ShiftHandlers, RmwHandlers, StoreHandlers,
            PushHandlers, PullHandlers, BranchHandlers, op, e, r
    <2>4. e.len = 0
      <3>1. e = Immediate(0, 0)
        BY <2>2 DEF addr_resolve
      <3> QED
        BY <3>1 DEF Immediate
    <2>6. /\ MEM_TWO_WORDS(pc + 0) \in Word
          /\ MEM_TWO_WORDS(MEM_TWO_WORDS(pc + 0) + 1) = MEM_TWO_WORDS(REG.PC + 2)
      <3>1. REG.PC \in Word
        BY <2>1, LiveFields
      <3> QED
        BY <3>1, BehindPadding
    <2>7. /\ r \in LiveRegister /\ r.S = REG.S /\ r.P = REG.P
          /\ r.PC = MEM_TWO_WORDS(pc + 0)
      <3> DEFINE next == MEM_TWO_WORDS(pc + e.len)
      <3>1. next = MEM_TWO_WORDS(pc + 0) /\ next \in Word
        <4> HIDE DEF pc, e
        <4> QED
          BY <2>4, <2>6
      <3>2. r = [REG EXCEPT !.PC = next]
        OBVIOUS
      <3> HIDE DEF next, r, e, pc
      <3> QED
        BY <2>1, <3>1, <3>2 DEF LiveRegister
    <2>8. Returned' = [r EXCEPT !.P = @ \ {"U"}, !.PC = MEM_TWO_WORDS(r.PC + 1)]
      <3>1. InterruptSequence("INT_BRK", r)
        BY <2>3 DEF BRK
      <3>2. \A k \in 0 .. 2 : STACK_START + MEM_WORD(r.S - k) \in RAM
        <4> HIDE DEF r
        <4> QED
          BY <1>2, <2>7
      <3> HIDE DEF r, frame, op
      <3> QED
        BY <2>1, <2>7, <3>1, <3>2, SequenceReturns, Zenon
    <2> HIDE DEF pc, e
    <2> QED
      BY <2>1, <2>6, <2>7, <2>8 DEF LiveRegister
  <1>3. ASSUME CpuInv, Instruction, op = \h40
        PROVE  REG' = Returned /\ mem' = mem
    <2>1. REG \in LiveRegister /\ CPU_VARIANT_MODE \in CPU_VARIANT
      BY <1>3 DEF CpuInv
    <2>2. h = "RTI"
      BY <1>3, <2>1, BreakAndReturn
    <2>3. RTI(op, h, e, r)
      <3> HIDE DEF op, e, r
      <3> QED
        BY <1>3, <2>2
        DEF Instruction, RegisterOp, AccumulatorOp, RmwOp, StoreOp,
            PushOp, PullOp, BranchOp, JMP, JSR, RTS, BRK, WAI, Stop,
            RegisterHandlers, ShiftHandlers, RmwHandlers, StoreHandlers,
            PushHandlers, PullHandlers, BranchHandlers, op, e, r
    <2>4. /\ r.S = REG.S /\ mem' = mem
          /\ REG' = [r EXCEPT !.S = MEM_WORD(r.S + 3),
                              !.P = PFlags(pop8(r.S, 1)) \ {"B", "U"},
                              !.PC = pop16(r.S, 2)]
      BY <2>1, <2>3 DEF RTI, LiveRegister
    <2> QED
      BY <2>1, <2>4 DEF Returned, LiveRegister
  <1>4. CpuInv =>
          /\ /\ ServiceInterrupt("INT_NMI") \/ ServiceInterrupt("INT_IRQ")
             /\ frame \subseteq RAM
             => Returned' = [REG EXCEPT !.P = @ \ {"U"}]
          /\ Instruction /\ op = \h00 /\ frame \subseteq RAM
             => Returned' = [REG EXCEPT !.P = @ \ {"U"},
                                        !.PC = MEM_TWO_WORDS(@ + 2)]
          /\ Instruction /\ op = \h40 => REG' = Returned /\ mem' = mem
    BY <1>1, <1>2, <1>3
  <1> QED
    BY <1>4, CpuInvariant, PTL DEF InterruptsReturn

----------------------------------------------------------------------------
(* Free steps *)

\* Remainders below and just above the modulus.
LEMMA SmallRemainder ==
  ASSUME NEW m \in Nat \ {0}, NEW x \in 0 .. 2 * m - 1
  PROVE  x % m = IF x < m THEN x ELSE x - m
  OBVIOUS

\* CYCLES moves when 1 to 15 cycles are charged, if it is wider than that.
LEMMA Billed ==
  ASSUME CYCLES_MOD > 16, NEW c \in 0 .. CYCLES_MOD - 1, NEW k \in 1 .. 15
  PROVE  (c + k) % CYCLES_MOD # c
  <1> DEFINE x == c + k
  <1>1. CYCLES_MOD \in Nat \ {0}
    BY CpuAssumption
  <1>2. x \in Int /\ x \in 0 .. 2 * CYCLES_MOD - 1 /\ c \in Int
    BY <1>1
  <1>3. x # c /\ x - CYCLES_MOD # c
    BY <1>1
  <1> HIDE DEF x
  <1>4. x % CYCLES_MOD = IF x < CYCLES_MOD THEN x ELSE x - CYCLES_MOD
    BY <1>1, <1>2, SmallRemainder
  <1>5. x % CYCLES_MOD # c
    BY <1>3, <1>4
  <1> QED
    BY <1>5 DEF x

\* Only the third entry of rows 0, 2, 4 and 6 of CYCLE_BASE is 0.
LEMMA CycleEntries ==
  ASSUME NEW i \in 1 .. 16, NEW j \in 1 .. 16
  PROVE  \/ CYCLE_BASE[i][j] \in 1 .. 8
         \/ CYCLE_BASE[i][j] = 0 /\ i \in {1, 3, 5, 7} /\ j = 3
  <1>1. /\ CYCLE_ROW_0[j] \in 1 .. 8 \/ (CYCLE_ROW_0[j] = 0 /\ j = 3)
        /\ CYCLE_ROW_2[j] \in 1 .. 8 \/ (CYCLE_ROW_2[j] = 0 /\ j = 3)
        /\ CYCLE_ROW_4[j] \in 1 .. 8 \/ (CYCLE_ROW_4[j] = 0 /\ j = 3)
        /\ CYCLE_ROW_6[j] \in 1 .. 8 \/ (CYCLE_ROW_6[j] = 0 /\ j = 3)
    BY DEF CYCLE_ROW_0, CYCLE_ROW_2, CYCLE_ROW_4,
           CYCLE_ROW_6
  <1>2. /\ CYCLE_ROW_1[j] \in 1 .. 8
        /\ CYCLE_ROW_3[j] \in 1 .. 8
        /\ CYCLE_ROW_5[j] \in 1 .. 8
        /\ CYCLE_ROW_7[j] \in 1 .. 8
    BY DEF CYCLE_ROW_1, CYCLE_ROW_3, CYCLE_ROW_5,
           CYCLE_ROW_7
  <1>3. /\ CYCLE_ROW_8[j] \in 1 .. 8
        /\ CYCLE_ROW_9[j] \in 1 .. 8
        /\ CYCLE_ROW_A[j] \in 1 .. 8
        /\ CYCLE_ROW_B[j] \in 1 .. 8
    BY DEF CYCLE_ROW_8, CYCLE_ROW_9, CYCLE_ROW_A,
           CYCLE_ROW_B
  <1>4. /\ CYCLE_ROW_C[j] \in 1 .. 8
        /\ CYCLE_ROW_D[j] \in 1 .. 8
        /\ CYCLE_ROW_E[j] \in 1 .. 8
        /\ CYCLE_ROW_F[j] \in 1 .. 8
    BY DEF CYCLE_ROW_C, CYCLE_ROW_D, CYCLE_ROW_E,
           CYCLE_ROW_F
  <1> QED
    BY <1>1, <1>2, <1>3, <1>4 DEF CYCLE_BASE

\* The opcodes that cost nothing are KILs.
LEMMA FreeIsKil ==
  ASSUME NEW op \in Byte, NEW variant \in CPU_VARIANT
  PROVE  \/ BaseCycles(op, variant) \in 1 .. 8
         \/ instr_dispatch(op, variant) = "op_kil"
  <1> DEFINE i == (op \div 16) + 1
             j == (op % 16) + 1
  <1>1. i \in 1 .. 16 /\ j \in 1 .. 16 /\ op = 16 * (i - 1) + (j - 1)
    BY DEF Byte
  <1>2. Entry(CYCLE_BASE, op) = CYCLE_BASE[i][j]
    BY DEF Entry
  <1> HIDE DEF i, j
  <1>3. \/ Entry(CYCLE_BASE, op) \in 1 .. 8
        \/ op \in {\h02, \h22, \h42, \h62}
    BY <1>1, <1>2, CycleEntries
  <1>4. CASE op \in {\h02, \h22, \h42, \h62}
    <2>1. CASE variant = NMOS
      BY <1>4, <2>1 DEF instr_dispatch, NMOS_HANDLER
    <2>2. CASE variant = CMOS
      <3>1. cy65_cycle(op) = 2
        BY <1>4 DEF cy65_cycle
      <3> QED
        BY <2>2, <3>1 DEF BaseCycles
    <2> QED
      BY <2>1, <2>2 DEF CPU_VARIANT
  <1>5. CASE Entry(CYCLE_BASE, op) \in 1 .. 8
    <2>1. cy65_cycle(op) \in 0 .. 8
      BY DEF cy65_cycle
    <2> QED
      BY <1>5, <2>1 DEF BaseCycles
  <1> QED
    BY <1>3, <1>4, <1>5

\* An instruction with base cycles moves CYCLES.
LEMMA ChargeMoves ==
  ASSUME CpuInv, CYCLES_MOD > 16, NEW op \in Byte, NEW e, NEW extra \in 0 .. 2,
         Charge(op, e, extra), BaseCycles(op, CPU_VARIANT_MODE) \in 1 .. 8
  PROVE  CYCLES' # CYCLES
  <1> DEFINE k == BaseCycles(op, CPU_VARIANT_MODE)
                    + OneIf(e.PAGE_CROSS /\ op \notin op_suppresses_pagecross)
                    + extra
  <1>1. OneIf(e.PAGE_CROSS /\ op \notin op_suppresses_pagecross) \in {0, 1}
    BY DEF OneIf
  <1>2. k \in 1 .. 15
    BY <1>1
  <1>3. CYCLES \in Int /\ CYCLES \in 0 .. CYCLES_MOD - 1
    BY CpuAssumption DEF CpuInv
  <1>4. CYCLES' = (CYCLES + k) % CYCLES_MOD
    BY <1>1, <1>3 DEF Charge
  <1> HIDE DEF k
  <1> QED
    BY <1>2, <1>3, <1>4, Billed

\* The handlers but KIL, STP and WAI charge at least one cycle.
LEMMA InstructionBilled ==
  ASSUME CpuInv, CYCLES_MOD > 16, Instruction
  PROVE  CYCLES' # CYCLES \/ CPU_STOPPED' = 1 \/ CPU_WAITING' = 1
  <1> DEFINE op == bus_read(REG.PC)
             h  == instr_dispatch(op, CPU_VARIANT_MODE)
             pc == MEM_TWO_WORDS(REG.PC + 1)
             e  == addr_resolve(AddrMode(op, CPU_VARIANT_MODE), pc)
             r  == [REG EXCEPT !.PC = MEM_TWO_WORDS(pc + e.len)]
  <1>1. op \in Byte /\ CPU_VARIANT_MODE \in CPU_VARIANT
    BY ReadIsByte DEF CpuInv
  <1>2. \/ RegisterOp(op, h, e, r) \/ AccumulatorOp(op, h, e, r)
        \/ RmwOp(op, h, e, r) \/ StoreOp(op, h, e, r)
        \/ PushOp(op, h, e, r) \/ PullOp(op, h, e, r)
        \/ BranchOp(op, h, e, r) \/ JMP(op, h, e, r) \/ JSR(op, h, e, r)
        \/ RTS(op, h, e, r) \/ RTI(op, h, e, r) \/ BRK(op, h, e, r)
        \/ WAI(op, h, e, r) \/ Stop(op, h, e, r)
    BY DEF Instruction
  <1>3. BaseCycles(op, CPU_VARIANT_MODE) \in 1 .. 8 \/ h = "op_kil"
    BY <1>1, FreeIsKil
  <1> HIDE DEF op, h, e, r
  <1>4. CASE h = "op_kil"
    <2>1. /\ h \notin RegisterHandlers /\ h \notin RmwHandlers
          /\ h \notin ShiftHandlers /\ h \notin StoreHandlers
          /\ h \notin PushHandlers /\ h \notin PullHandlers
          /\ h \notin BranchHandlers
          /\ h \notin {"JMP", "JSR", "RTS", "RTI", "BRK", "WAI"}
      BY <1>4 DEF RegisterHandlers, RmwHandlers, ShiftHandlers, StoreHandlers,
                  PushHandlers, PullHandlers, BranchHandlers
    <2>2. Stop(op, h, e, r)
      BY <1>2, <2>1 DEF RegisterOp, AccumulatorOp, RmwOp, StoreOp, PushOp,
           PullOp, BranchOp, JMP, JSR, RTS, RTI, BRK, WAI
    <2> QED
      BY <2>2 DEF Stop
  <1>5. CASE BaseCycles(op, CPU_VARIANT_MODE) \in 1 .. 8
    <2>1. PICK extra \in 0 .. 2 : Charge(op, e, extra)
      <3>1. \A x, y : OneIf(x) + OneIf(y) \in 0 .. 2 /\ OneIf(x) \in 0 .. 2
        BY DEF OneIf
      <3>2. 0 \in 0 .. 2
        OBVIOUS
      <3>3. CASE BranchOp(op, h, e, r)
        BY <3>1, <3>3 DEF BranchOp
      <3>4. CASE JMP(op, h, e, r)
        BY <3>1, <3>4 DEF JMP
      <3> QED
        BY <1>2, <3>2, <3>3, <3>4 DEF RegisterOp, AccumulatorOp, RmwOp, StoreOp,
             PushOp, PullOp, JSR, RTS, RTI, BRK, WAI, Stop
    <2> QED
      BY <1>1, <1>5, <2>1, ChargeMoves
  <1> QED
    BY <1>3, <1>4, <1>5

\* A step that costs no cycles leaves the CPU stopped or waiting, for every
\* program, if CYCLES is wide enough to show the cost of a step.
THEOREM BillingCorrect ==
  ASSUME CYCLES_MOD > 16 PROVE Spec => UnbilledStepHalts
  <1>1. CpuInv /\ [Next]_vars =>
          (cpu_step /\ CYCLES' = CYCLES => CPU_STOPPED' = 1 \/ CPU_WAITING' = 1)
    <2> SUFFICES ASSUME CpuInv, cpu_step, CYCLES' = CYCLES
                 PROVE  CPU_STOPPED' = 1 \/ CPU_WAITING' = 1
      OBVIOUS
    <2>1. CASE Instruction
      BY <2>1, InstructionBilled
    <2>2. CASE Halted
      BY <2>2 DEF Halted
    <2>3. ASSUME NEW type, ServiceInterrupt(type) PROVE FALSE
      <3>1. CYCLES' = (CYCLES + 7) % CYCLES_MOD
        BY <2>3 DEF ServiceInterrupt
      <3>2. CYCLES \in 0 .. CYCLES_MOD - 1 /\ 7 \in 1 .. 15
        BY DEF CpuInv
      <3> QED
        BY <3>1, <3>2, Billed
    <2> QED
      BY <2>1, <2>2, <2>3 DEF cpu_step
  <1> QED
    BY <1>1, CpuInvariant, PTL DEF Spec, UnbilledStepHalts
----------------------------------------------------------------------------
(* cpu_run *)

\* What a step charges before the extra cycles of branches and jumps.
LEMMA BaseRange ==
  ASSUME NEW op \in Byte, NEW variant \in CPU_VARIANT
  PROVE  BaseCycles(op, variant) \in 0 .. 8
  <1> DEFINE i == (op \div 16) + 1
             j == (op % 16) + 1
  <1>1. i \in 1 .. 16 /\ j \in 1 .. 16
    BY DEF Byte
  <1>2. Entry(CYCLE_BASE, op) = CYCLE_BASE[i][j]
    BY DEF Entry
  <1> HIDE DEF i, j
  <1>3. Entry(CYCLE_BASE, op) \in 0 .. 8
    BY <1>1, <1>2, CycleEntries
  <1>4. cy65_cycle(op) \in 0 .. 8
    BY DEF cy65_cycle
  <1> QED
    BY <1>3, <1>4 DEF BaseCycles

JumpHandlers == BranchHandlers \cup {"JMP"}

\* Branches and jumps cost at most 6 cycles, BBR and BBS in the last column
\* excepted, which CYCLE_BASE bills as the NMOS opcodes there.
LEMMA JumpEntries ==
  ASSUME NEW i \in 1 .. 16, NEW j \in 1 .. 16,
         INSTR_HANDLERS[i][j] \in JumpHandlers
  PROVE  j = 16 \/ CYCLE_BASE[i][j] <= 6
  BY DEF INSTR_HANDLERS, JumpHandlers, BranchHandlers, CYCLE_BASE,
         CYCLE_ROW_0, CYCLE_ROW_1, CYCLE_ROW_2, CYCLE_ROW_3,
         CYCLE_ROW_4, CYCLE_ROW_5, CYCLE_ROW_6, CYCLE_ROW_7,
         CYCLE_ROW_8, CYCLE_ROW_9, CYCLE_ROW_A, CYCLE_ROW_B,
         CYCLE_ROW_C, CYCLE_ROW_D, CYCLE_ROW_E, CYCLE_ROW_F

\* The last column is re-timed on the 65C02 and holds no branch on the NMOS
\* 6502.
LEMMA JumpCycles ==
  ASSUME NEW op \in Byte, NEW variant \in CPU_VARIANT,
         instr_dispatch(op, variant) \in JumpHandlers
  PROVE  BaseCycles(op, variant) \in 0 .. 6
  <1> DEFINE i == (op \div 16) + 1
             j == (op % 16) + 1
  <1>1. i \in 1 .. 16 /\ j \in 1 .. 16 /\ op = 16 * (i - 1) + (j - 1)
    BY DEF Byte
  <1>2. /\ Entry(CYCLE_BASE, op) = CYCLE_BASE[i][j]
        /\ Entry(INSTR_HANDLERS, op) = INSTR_HANDLERS[i][j]
    BY DEF Entry
  <1> HIDE DEF i, j
  <1>3. BaseCycles(op, variant) \in 0 .. 8
    BY BaseRange
  <1>4. ~ NMOS_HANDLER(op) \in JumpHandlers
    BY DEF NMOS_HANDLER, JumpHandlers, BranchHandlers
  <1>5. /\ INSTR_HANDLERS[i][j] \in JumpHandlers
        /\ variant = NMOS => NMOS_HANDLER(op) = "NULL"
    BY <1>2, <1>4 DEF instr_dispatch
  <1>6. cy65_cycle(op) \in 0 .. 6
    BY DEF cy65_cycle
  <1>7. CASE j = 16
    <2>1. \E n \in 0 .. 15 : op = 16 * n + 15
      BY <1>1, <1>7
    <2>2. NMOS_HANDLER(op) # "NULL"
      BY <2>1 DEF NMOS_HANDLER
    <2>3. cy65_cycle(op) # 0
      BY <2>1 DEF cy65_cycle
    <2> QED
      BY <1>3, <1>5, <1>6, <2>2, <2>3 DEF BaseCycles, CPU_VARIANT
  <1>8. CASE j # 16
    <2>1. CYCLE_BASE[i][j] <= 6
      BY <1>1, <1>5, <1>8, JumpEntries
    <2> QED
      BY <1>2, <1>3, <1>6, <2>1 DEF BaseCycles
  <1> QED
    BY <1>7, <1>8

\* An instruction charges at most 9 cycles.
LEMMA InstructionCost ==
  ASSUME CpuInv, Instruction
  PROVE  \E k \in 0 .. 9 : CYCLES' = (CYCLES + k) % CYCLES_MOD
  <1> DEFINE op == bus_read(REG.PC)
             h  == instr_dispatch(op, CPU_VARIANT_MODE)
             pc == MEM_TWO_WORDS(REG.PC + 1)
             e  == addr_resolve(AddrMode(op, CPU_VARIANT_MODE), pc)
             r  == [REG EXCEPT !.PC = MEM_TWO_WORDS(pc + e.len)]
             base == BaseCycles(op, CPU_VARIANT_MODE)
             cross == OneIf(e.PAGE_CROSS /\ op \notin op_suppresses_pagecross)
  <1>1. op \in Byte /\ CPU_VARIANT_MODE \in CPU_VARIANT
    BY ReadIsByte DEF CpuInv
  <1>2. \/ RegisterOp(op, h, e, r) \/ AccumulatorOp(op, h, e, r)
        \/ RmwOp(op, h, e, r) \/ StoreOp(op, h, e, r)
        \/ PushOp(op, h, e, r) \/ PullOp(op, h, e, r)
        \/ BranchOp(op, h, e, r) \/ JMP(op, h, e, r) \/ JSR(op, h, e, r)
        \/ RTS(op, h, e, r) \/ RTI(op, h, e, r) \/ BRK(op, h, e, r)
        \/ WAI(op, h, e, r) \/ Stop(op, h, e, r)
    BY DEF Instruction
  <1>3. base \in 0 .. 8 /\ (h \in JumpHandlers => base \in 0 .. 6)
    BY <1>1, BaseRange, JumpCycles
  <1>4. \A x : OneIf(x) \in {0, 1}
    BY DEF OneIf
  <1>5. cross \in {0, 1}
    BY <1>4
  <1>6. CYCLES \in Int
    BY CpuAssumption DEF CpuInv
  <1>7. \A extra : Charge(op, e, extra)
                    => CYCLES' = (CYCLES + base + cross + extra) % CYCLES_MOD
    BY DEF Charge
  <1> HIDE DEF op, h, e, r, base, cross
  <1>8. ASSUME NEW extra \in 0 .. 2, Charge(op, e, extra),
               extra = 0 \/ h \in JumpHandlers
        PROVE  \E k \in 0 .. 9 : CYCLES' = (CYCLES + k) % CYCLES_MOD
    <2>1. base + cross + extra \in 0 .. 9
      BY <1>3, <1>5, <1>8
    <2>2. CYCLES + base + cross + extra = CYCLES + (base + cross + extra)
      BY <1>3, <1>5, <1>6
    <2> QED
      BY <1>7, <1>8, <2>1, <2>2
  <1>9. CASE BranchOp(op, h, e, r)
    <2>1. PICK x, y : Charge(op, e, OneIf(x) + OneIf(y))
      BY <1>9 DEF BranchOp
    <2>2. h \in JumpHandlers
      BY <1>9 DEF BranchOp, JumpHandlers
    <2>3. OneIf(x) + OneIf(y) \in 0 .. 2
      BY <1>4
    <2> QED
      BY <1>8, <2>1, <2>2, <2>3
  <1>10. CASE JMP(op, h, e, r)
    <2>1. PICK x : Charge(op, e, OneIf(x))
      BY <1>10 DEF JMP
    <2>2. h \in JumpHandlers
      BY <1>10 DEF JMP, JumpHandlers
    <2>3. OneIf(x) \in 0 .. 2
      BY <1>4
    <2> QED
      BY <1>8, <2>1, <2>2, <2>3
  <1>11. CASE ~ BranchOp(op, h, e, r) /\ ~ JMP(op, h, e, r)
    <2>1. Charge(op, e, 0)
      BY <1>2, <1>11 DEF RegisterOp, AccumulatorOp, RmwOp, StoreOp,
           PushOp, PullOp, JSR, RTS, RTI, BRK, WAI, Stop
    <2> QED
      BY <1>8, <2>1
  <1> QED
    BY <1>9, <1>10, <1>11

\* So does every other step.
LEMMA StepCost ==
  ASSUME CpuInv, cpu_step
  PROVE  \E k \in 0 .. 9 : CYCLES' = (CYCLES + k) % CYCLES_MOD
  <1>1. CASE Instruction
    BY <1>1, InstructionCost
  <1>2. CASE Halted
    <2>1. CYCLES' = CYCLES
      BY <1>2 DEF Halted
    <2>2. (CYCLES + 0) % CYCLES_MOD = CYCLES
      BY CpuAssumption DEF CpuInv
    <2> QED
      BY <2>1, <2>2
  <1>3. ASSUME NEW type, ServiceInterrupt(type)
        PROVE  \E k \in 0 .. 9 : CYCLES' = (CYCLES + k) % CYCLES_MOD
    BY <1>3 DEF ServiceInterrupt
  <1> QED
    BY <1>1, <1>2, <1>3 DEF cpu_step

\* The locals of cpu_run agree with the cycles counted without wrapping:
\* their difference from CYCLES, taken modulo the width, is what the run has
\* spent, because a run can never spend the whole width.
RunInv ==
  /\ CpuInv
  /\ run \in [active : BOOLEAN, start_cycles : 0 .. CYCLES_MOD - 1,
             MAX_CYCLES : Nat]
  /\ spent \in Nat
  /\ run.active =>
       /\ run.MAX_CYCLES \in Budgets
       /\ spent < run.MAX_CYCLES + MAX_STEP_CYCLES
       /\ spent = (CYCLES - run.start_cycles) % CYCLES_MOD

\* Unsigned subtraction undoes an addition that has wrapped around.
LEMMA WrappedDifference ==
  ASSUME NEW m \in Nat \ {0}, NEW c \in 0 .. m - 1, NEW s \in 0 .. m - 1,
         NEW k \in Nat, NEW d \in Nat, NEW e \in Nat,
         d = (c - s) % m, d + k < m, e = (c + k) % m
  PROVE  (e - c) % m = k /\ (e - s) % m = d + k
  <1>1. \A n \in Int, r \in 0 .. m - 1 :
           n = r \/ n = r - m \/ n = r + m => n % m = r
    OBVIOUS
  <1>2. d \in 0 .. m - 1 /\ (d = c - s \/ d = c - s + m)
    <2>1. CASE c >= s
      <3>1. c - s \in 0 .. m - 1
        BY <2>1
      <3> QED
        BY <1>1, <3>1
    <2>2. CASE c < s
      <3>1. c - s + m \in 0 .. m - 1 /\ c - s = (c - s + m) - m
        BY <2>2
      <3> QED
        BY <1>1, <3>1
    <2> QED
      BY <2>1, <2>2
  <1>3. e \in 0 .. m - 1 /\ (e = c + k \/ e = c + k - m)
    <2>1. k < m
      BY <1>2
    <2>2. CASE c + k < m
      BY <1>1, <2>2
    <2>3. CASE c + k >= m
      <3>1. c + k - m \in 0 .. m - 1 /\ c + k = (c + k - m) + m
        BY <2>1, <2>3
      <3> QED
        BY <1>1, <3>1
    <2> QED
      BY <2>2, <2>3
  <1>4. (e - c) % m = k
    <2>1. k \in 0 .. m - 1
      BY <1>2
    <2>2. e - c = k \/ e - c = k - m
      BY <1>3
    <2> QED
      BY <1>1, <1>3, <2>1, <2>2
  <1>5. (e - s) % m = d + k
    <2>1. d + k \in 0 .. m - 1
      BY <1>2
    <2>2. e - s = d + k \/ e - s = d + k - m \/ e - s = d + k + m
      BY <1>2, <1>3, <2>1
    <2> QED
      BY <1>1, <1>3, <2>1, <2>2
  <1> QED
    BY <1>4, <1>5

\* A step inside the loop starts within the budget, so it cannot take the
\* run round the counter.
LEMMA RunStepInv ==
  ASSUME RunInv, RunStep PROVE RunInv'
  <1>1. CpuInv'
    BY StepType DEF RunInv, RunStep
  <1>2. PICK k \in 0 .. 9 : CYCLES' = (CYCLES + k) % CYCLES_MOD
    BY StepCost DEF RunInv, RunStep
  <1>3. /\ CYCLES \in 0 .. CYCLES_MOD - 1 /\ CYCLES_MOD \in Nat \ {0}
        /\ run.start_cycles \in 0 .. CYCLES_MOD - 1
        /\ run.MAX_CYCLES \in Nat
    BY CpuAssumption DEF RunInv, CpuInv
  <1>4. /\ run.active /\ run.MAX_CYCLES \in Budgets
        /\ spent \in Nat
        /\ spent = (CYCLES - run.start_cycles) % CYCLES_MOD
        /\ spent < run.MAX_CYCLES
    BY DEF RunInv, RunStep, InBudget
  <1>5. /\ spent + k < run.MAX_CYCLES + MAX_STEP_CYCLES
        /\ spent + k < CYCLES_MOD
    BY <1>3, <1>4, RunAssumption
  <1>6. /\ (CYCLES' - CYCLES) % CYCLES_MOD = k
        /\ (CYCLES' - run.start_cycles) % CYCLES_MOD = spent + k
    <2> DEFINE m == CYCLES_MOD
               s == run.start_cycles
    <2>1. m \in Nat \ {0} /\ CYCLES \in 0 .. m - 1 /\ s \in 0 .. m - 1
      BY <1>3
    <2>2. spent = (CYCLES - s) % m /\ spent + k < m /\ k \in Nat
      BY <1>4, <1>5
    <2>3. CYCLES' = (CYCLES + k) % m /\ CYCLES' \in Nat /\ spent \in Nat
      BY <1>1, <1>2, <1>4 DEF CpuInv
    <2> HIDE DEF m, s
    <2>4. (CYCLES' - CYCLES) % m = k /\ (CYCLES' - s) % m = spent + k
      BY <2>1, <2>2, <2>3, WrappedDifference
    <2> QED
      BY <2>4 DEF m, s
  <1>7. spent' = spent + k /\ run' = run
    BY <1>6 DEF RunStep
  <1>8. spent' \in Nat
    BY <1>4, <1>7
  <1>9. run \in [active : BOOLEAN, start_cycles : 0 .. CYCLES_MOD - 1,
                MAX_CYCLES : Nat]
    BY DEF RunInv
  <1>10. spent' < run'.MAX_CYCLES + MAX_STEP_CYCLES
    BY <1>5, <1>7
  <1>11. spent' = (CYCLES' - run'.start_cycles) % CYCLES_MOD
    BY <1>6, <1>7
  <1> QED
    BY <1>1, <1>4, <1>7, <1>8, <1>9, <1>10, <1>11 DEF RunInv

\* RunInv is an invariant of cpu_run and of the host between its calls.
THEOREM RunInvariant == RunSpec => []RunInv
  <1>1. RunInit => RunInv
    <2> SUFFICES ASSUME RunInit PROVE RunInv
      OBVIOUS
    <2>1. CpuInv /\ 0 \in 0 .. CYCLES_MOD - 1
      BY InitType, CpuAssumption DEF RunInit
    <2> QED
      BY <2>1 DEF RunInit, RunInv, NotRunning
  <1>2. RunInv /\ [RunNext]_runVars => RunInv'
    <2> SUFFICES ASSUME RunInv, [RunNext]_runVars PROVE RunInv'
      OBVIOUS
    <2>1. CASE RunStep
      BY <2>1, RunStepInv
    <2>2. CASE RunReturn
      <3>1. CpuInv'
        BY <2>2 DEF RunReturn, vars, RunInv, CpuInv
      <3>2. run' = NotRunning /\ spent' = spent /\ 0 \in 0 .. CYCLES_MOD - 1
        BY <2>2, CpuAssumption DEF RunReturn
      <3> QED
        BY <3>1, <3>2 DEF RunInv, NotRunning
    <2>3. CASE RunHost
      <3>1. CpuInv' /\ run' = run /\ spent' = spent /\ ~ run.active
        BY <2>3, HostType DEF RunHost, RunInv
      <3> QED
        BY <3>1 DEF RunInv
    <2>4. ASSUME NEW n \in Budgets, cpu_run(n) PROVE RunInv'
      <3>1. CpuInv' /\ CYCLES' = CYCLES
        BY <2>4 DEF cpu_run, vars, RunInv, CpuInv
      <3>2. CYCLES \in 0 .. CYCLES_MOD - 1 /\ CYCLES_MOD \in Nat \ {0}
        BY CpuAssumption DEF RunInv, CpuInv
      <3>3. (CYCLES - CYCLES) % CYCLES_MOD = 0
        BY <3>2
      <3>4. n \in Nat /\ 0 < n + MAX_STEP_CYCLES
        BY RunAssumption
      <3>5. run' = [active |-> TRUE, start_cycles |-> CYCLES, MAX_CYCLES |-> n]
            /\ spent' = 0
        BY <2>4 DEF cpu_run
      <3> QED
        BY <3>1, <3>2, <3>3, <3>4, <3>5 DEF RunInv
    <2>5. CASE UNCHANGED runVars
      BY <2>5 DEF runVars, vars, RunInv, CpuInv
    <2> QED
      BY <2>1, <2>2, <2>3, <2>4, <2>5 DEF RunNext, RunLoop
  <1> QED
    BY <1>1, <1>2, PTL DEF RunSpec

\* cpu_run keeps its budget for every width of the counter and every budget
\* that leaves room for one step below it.
THEOREM BudgetCorrect == RunSpec => []BudgetKept
  <1>1. RunInv => BudgetKept
    BY DEF RunInv, BudgetKept, InBudget
  <1> QED
    BY <1>1, RunInvariant, PTL
----------------------------------------------------------------------------
(* The cost of writes *)

\* The modes in which addr_resolve may report a page crossing.
IndexedModes == {"ABSX", "ABSY", "INDY"}

WriteHandlers == StoreHandlers \cup DocumentedRmw

\* In the two tables, a write with such a mode is in the list.
LEMMA WriteEntries ==
  ASSUME NEW i \in 1 .. 16, NEW j \in 1 .. 16,
         INSTR_HANDLERS[i][j] \in WriteHandlers,
         INST_TABLE[i][j] \in IndexedModes
  PROVE  16 * (i - 1) + (j - 1) \in op_suppresses_pagecross
  BY DEF INSTR_HANDLERS, WriteHandlers, StoreHandlers, DocumentedRmw,
         IndexedModes, op_suppresses_pagecross, INST_TABLE,
         INST_ROW_0, INST_ROW_1, INST_ROW_2, INST_ROW_3,
         INST_ROW_4, INST_ROW_5, INST_ROW_6, INST_ROW_7,
         INST_ROW_8, INST_ROW_9, INST_ROW_A, INST_ROW_B,
         INST_ROW_C, INST_ROW_D, INST_ROW_E, INST_ROW_F

\* No opcode whose mode the NMOS 6502 overrides is a write that is indexed.
LEMMA OverriddenWrites ==
  ASSUME NEW op \in Byte, nmos_addr_override(op) \in IndexedModes
  PROVE  \/ NMOS_HANDLER(op) \notin WriteHandlers \cup {"NULL"}
         \/ op \in {\h5C, \hDC, \hFC}
  BY DEF nmos_addr_override, NMOS_HANDLER, IndexedModes, WriteHandlers,
         StoreHandlers, DocumentedRmw

\* So a documented write with an indexed mode is in the list, on both variants.
LEMMA WriteModes ==
  ASSUME NEW op \in Byte, NEW variant \in CPU_VARIANT,
         instr_dispatch(op, variant) \in WriteHandlers,
         AddrMode(op, variant) \in IndexedModes
  PROVE  op \in op_suppresses_pagecross
  <1> DEFINE i == (op \div 16) + 1
             j == (op % 16) + 1
  <1>1. i \in 1 .. 16 /\ j \in 1 .. 16 /\ op = 16 * (i - 1) + (j - 1)
    BY DEF Byte
  <1>2. /\ Entry(INST_TABLE, op) = INST_TABLE[i][j]
        /\ Entry(INSTR_HANDLERS, op) = INSTR_HANDLERS[i][j]
    BY DEF Entry
  <1> HIDE DEF i, j
  <1>3. CASE variant = NMOS /\ nmos_addr_override(op) # "NONE"
    <2>1. nmos_addr_override(op) \in IndexedModes
      BY <1>3 DEF AddrMode
    <2>2. NMOS_HANDLER(op) \in WriteHandlers \cup {"NULL"}
      BY <1>3 DEF instr_dispatch
    <2>3. op \in {\h5C, \hDC, \hFC}
      BY <2>1, <2>2, OverriddenWrites
    <2>4. NMOS_HANDLER(op) = "NULL" /\ Entry(INSTR_HANDLERS, op) = "NOP_READ"
      <3>1. NMOS_HANDLER(op) = "NULL"
        BY <2>3 DEF NMOS_HANDLER
      <3>2. <<i, j>> \in {<<6, 13>>, <<14, 13>>, <<16, 13>>}
        BY <1>1, <2>3
      <3> QED
        BY <1>2, <3>1, <3>2 DEF INSTR_HANDLERS
    <2> QED
      BY <1>3, <2>4 DEF instr_dispatch, WriteHandlers, StoreHandlers,
                        DocumentedRmw
  <1>4. CASE ~ (variant = NMOS /\ nmos_addr_override(op) # "NONE")
    <2>1. Entry(INST_TABLE, op) \in IndexedModes
      BY <1>4 DEF AddrMode, IndexedModes
    <2>2. CASE variant = NMOS /\ NMOS_HANDLER(op) # "NULL"
      <3>1. NMOS_HANDLER(op) \in WriteHandlers
        BY <2>2 DEF instr_dispatch
      <3>2. op \in {\h83, \h87, \h8F, \h97}
        BY <3>1 DEF NMOS_HANDLER, WriteHandlers, StoreHandlers, DocumentedRmw
      <3>3. nmos_addr_override(op) # "NONE"
        BY <3>2 DEF nmos_addr_override
      <3> QED
        BY <1>4, <2>2, <3>3
    <2>3. CASE ~ (variant = NMOS /\ NMOS_HANDLER(op) # "NULL")
      <3>1. Entry(INSTR_HANDLERS, op) \in WriteHandlers
        BY <2>3 DEF instr_dispatch
      <3> QED
        BY <1>1, <1>2, <2>1, <3>1, WriteEntries
    <2> QED
      BY <2>2, <2>3
  <1> QED
    BY <1>3, <1>4

\* Only an indexed operand can lie on another page than its base.
LEMMA CrossingModes ==
  ASSUME NEW mode, NEW pc, mode \notin IndexedModes
  PROVE  addr_resolve(mode, pc).PAGE_CROSS = FALSE
  BY DEF addr_resolve, IndexedModes, AtAddress, Immediate

\* So a documented write charges its base cycles.
LEMMA WriteStep ==
  ASSUME CpuInv, Instruction, Dispatched \in WriteHandlers
  PROVE  CYCLES' = (CYCLES + BaseCycles(bus_read(REG.PC), CPU_VARIANT_MODE))
                     % CYCLES_MOD
  <1> DEFINE op == bus_read(REG.PC)
             h  == instr_dispatch(op, CPU_VARIANT_MODE)
             pc == MEM_TWO_WORDS(REG.PC + 1)
             mode == AddrMode(op, CPU_VARIANT_MODE)
             e  == addr_resolve(mode, pc)
             r  == [REG EXCEPT !.PC = MEM_TWO_WORDS(pc + e.len)]
  <1>1. op \in Byte /\ CPU_VARIANT_MODE \in CPU_VARIANT
    BY ReadIsByte DEF CpuInv
  <1>2. h \in WriteHandlers
    BY DEF Dispatched
  <1>3. \/ RegisterOp(op, h, e, r) \/ AccumulatorOp(op, h, e, r)
        \/ RmwOp(op, h, e, r) \/ StoreOp(op, h, e, r)
        \/ PushOp(op, h, e, r) \/ PullOp(op, h, e, r)
        \/ BranchOp(op, h, e, r) \/ JMP(op, h, e, r) \/ JSR(op, h, e, r)
        \/ RTS(op, h, e, r) \/ RTI(op, h, e, r) \/ BRK(op, h, e, r)
        \/ WAI(op, h, e, r) \/ Stop(op, h, e, r)
    BY DEF Instruction
  <1>4. mode \in IndexedModes => op \in op_suppresses_pagecross
    BY <1>1, <1>2, WriteModes
  <1>5. mode \notin IndexedModes => ~ e.PAGE_CROSS
    BY CrossingModes
  <1>6. BaseCycles(op, CPU_VARIANT_MODE) \in Int /\ CYCLES \in Int
    BY <1>1, BaseRange, CpuAssumption DEF CpuInv
  <1> HIDE DEF op, h, mode, e, r
  <1>7. OneIf(e.PAGE_CROSS /\ op \notin op_suppresses_pagecross) = 0
    BY <1>4, <1>5 DEF OneIf
  <1>8. Charge(op, e, 0)
    BY <1>2, <1>3 DEF RegisterOp, AccumulatorOp, RmwOp, StoreOp,
         PushOp, PullOp, BranchOp, JMP, JSR, RTS, RTI, BRK, WAI, Stop,
         WriteHandlers, StoreHandlers, DocumentedRmw, BranchHandlers
  <1>9. CYCLES' = (CYCLES + BaseCycles(op, CPU_VARIANT_MODE)) % CYCLES_MOD
    <2>1. CYCLES' = (CYCLES + BaseCycles(op, CPU_VARIANT_MODE) + 0 + 0)
                      % CYCLES_MOD
      BY <1>7, <1>8 DEF Charge
    <2> QED
      BY <1>6, <2>1
  <1> QED
    BY <1>9 DEF op

\* The documented stores and read-modify-writes cost what the table says, for
\* every opcode, operand and index, on both variants, stepped by the host or
\* by cpu_run.
THEOREM WriteCycles == Spec \/ RunSpec => WritesCostBaseCycles
  <1> DEFINE A == Instruction /\ Dispatched \in StoreHandlers \cup DocumentedRmw
                    => CYCLES' = (CYCLES + BaseCycles(bus_read(REG.PC),
                                    CPU_VARIANT_MODE)) % CYCLES_MOD
  <1>1. CpuInv => [A]_vars
    BY WriteStep DEF WriteHandlers
  <1>2. RunInv => CpuInv
    BY DEF RunInv
  <1> HIDE DEF A
  <1>3. Spec \/ RunSpec => [][A]_vars
    BY <1>1, <1>2, CpuInvariant, RunInvariant, PTL
  <1> QED
    BY <1>3 DEF A, WritesCostBaseCycles

----------------------------------------------------------------------------
(* The disassemblers *)

\* The operand bytes addr_resolve fetches are those debugger_disassemble
\* counts for the mode.
LEMMA OperandLength ==
  ASSUME NEW mode, NEW pc
  PROVE  addr_resolve(mode, pc).len
           = OperandSize(mode, OneByteModes, TwoByteModes \cup {"ZPREL"})
  <1>1. CASE mode \in OneByteModes
    BY <1>1 DEF OneByteModes, TwoByteModes, OperandSize, addr_resolve, AtAddress,
                AtIndexed, Immediate
  <1>2. CASE mode \in TwoByteModes \cup {"ZPREL"}
    BY <1>2 DEF OneByteModes, TwoByteModes, OperandSize, addr_resolve, AtAddress,
                AtIndexed, Immediate
  <1>3. CASE mode \notin OneByteModes \cup TwoByteModes \cup {"ZPREL"}
    <2>1. addr_resolve(mode, pc) = Immediate(0, 0)
      BY <1>3 DEF OneByteModes, TwoByteModes, addr_resolve
    <2> QED
      BY <1>3, <2>1 DEF OperandSize, Immediate
  <1> QED
    BY <1>1, <1>2, <1>3

\* The 65C02's overridden opcodes that the table gives a length are listed in
\* Mislisted, and ZPREL is the mode of BBR and BBS alone.
LEMMA TableModes ==
  ASSUME NEW i \in 1 .. 16, NEW j \in 1 .. 16, NEW op, op = 16 * (i - 1) + (j - 1)
  PROVE  /\ op \in cmos_addr_override \ {\h0B, \h2B, \h4B, \h6B, \hEB}
              => INST_TABLE[i][j] = "NONE"
         /\ INST_TABLE[i][j] = "ZPREL" => INSTR_HANDLERS[i][j] \in {"BBR_", "BBS_"}
  <1> USE DEF INST_TABLE, INST_ROW_0, INST_ROW_1, INST_ROW_2, INST_ROW_3,
         INST_ROW_4, INST_ROW_5, INST_ROW_6, INST_ROW_7,
         INST_ROW_8, INST_ROW_9, INST_ROW_A, INST_ROW_B,
         INST_ROW_C, INST_ROW_D, INST_ROW_E, INST_ROW_F
  <1>1. op \in cmos_addr_override \ {\h0B, \h2B, \h4B, \h6B, \hEB}
          => INST_TABLE[i][j] = "NONE"
    BY DEF cmos_addr_override
  <1>2. INST_TABLE[i][j] = "ZPREL" => INSTR_HANDLERS[i][j] \in {"BBR_", "BBS_"}
    BY DEF INSTR_HANDLERS
  <1> QED
    BY <1>1, <1>2

\* Where the table describes the opcode, both disassemblers know its length.
LEMMA ListedLength ==
  ASSUME NEW op \in Byte, NEW variant \in CPU_VARIANT, ~ Mislisted(op, variant),
         NEW pc
  PROVE  LET len == addr_resolve(AddrMode(op, variant), pc).len
         IN  /\ len = debugger_operand_size(op)
             /\ instr_dispatch(op, variant) \notin {"BBR_", "BBS_"}
                  => len = monitor_operand_size(op)
  <1> DEFINE i == (op \div 16) + 1
             j == (op % 16) + 1
             mode == Entry(INST_TABLE, op)
  <1>1. i \in 1 .. 16 /\ j \in 1 .. 16 /\ op = 16 * (i - 1) + (j - 1)
    BY DEF Byte
  <1>2. mode = INST_TABLE[i][j] /\ Entry(INSTR_HANDLERS, op) = INSTR_HANDLERS[i][j]
    BY DEF Entry
  <1> HIDE DEF i, j, mode
  <1>3. AddrMode(op, variant) = mode
    <2>1. CASE variant = NMOS
      BY <2>1 DEF AddrMode, Mislisted, mode
    <2>2. CASE variant = CMOS /\ op \notin cmos_addr_override
      BY <2>2 DEF AddrMode, mode, NMOS, CMOS
    <2>3. CASE variant = CMOS /\ op \in cmos_addr_override
      <3>1. mode = "NONE"
        BY <1>1, <1>2, <2>3, TableModes DEF Mislisted
      <3> QED
        BY <2>3, <3>1 DEF AddrMode, NMOS, CMOS
    <2> QED
      BY <2>1, <2>2, <2>3 DEF CPU_VARIANT
  <1>4. addr_resolve(mode, pc).len
          = OperandSize(mode, OneByteModes, TwoByteModes \cup {"ZPREL"})
    BY OperandLength
  <1>5. ASSUME instr_dispatch(op, variant) \notin {"BBR_", "BBS_"}
        PROVE  mode # "ZPREL"
    <2>1. instr_dispatch(op, variant) = INSTR_HANDLERS[i][j]
      BY <1>2 DEF instr_dispatch, Mislisted
    <2> QED
      BY <1>1, <1>2, <1>5, <2>1, TableModes
  <1>6. mode # "ZPREL" =>
          OperandSize(mode, OneByteModes, TwoByteModes \cup {"ZPREL"})
            = OperandSize(mode, OneByteModes \cup {"ZPREL"}, TwoByteModes)
    BY DEF OperandSize
  <1> QED
    BY <1>3, <1>4, <1>5, <1>6 DEF debugger_operand_size, monitor_operand_size, mode

\* A branch of an opcode with a REL or ZPREL operand pays for no crossing but
\* its own.
LEMMA BranchModes ==
  ASSUME NEW op \in Byte, NEW variant \in CPU_VARIANT, ~ Mislisted(op, variant),
         instr_dispatch(op, variant) \in BranchHandlers
  PROVE  AddrMode(op, variant) \notin IndexedModes
  <1> DEFINE i == (op \div 16) + 1
             j == (op % 16) + 1
  <1>1. i \in 1 .. 16 /\ j \in 1 .. 16
    BY DEF Byte
  <1>2. /\ Entry(INST_TABLE, op) = INST_TABLE[i][j]
        /\ Entry(INSTR_HANDLERS, op) = INSTR_HANDLERS[i][j]
    BY DEF Entry
  <1> HIDE DEF i, j
  <1>3. INSTR_HANDLERS[i][j] \in BranchHandlers
    BY <1>2 DEF instr_dispatch, Mislisted
  <1>4. INST_TABLE[i][j] \notin IndexedModes
    BY <1>1, <1>3 DEF INSTR_HANDLERS, BranchHandlers, IndexedModes, INST_TABLE,
         INST_ROW_0, INST_ROW_1, INST_ROW_2, INST_ROW_3,
         INST_ROW_4, INST_ROW_5, INST_ROW_6, INST_ROW_7,
         INST_ROW_8, INST_ROW_9, INST_ROW_A, INST_ROW_B,
         INST_ROW_C, INST_ROW_D, INST_ROW_E, INST_ROW_F
  <1> QED
    BY <1>2, <1>4 DEF AddrMode, Mislisted, IndexedModes

\* Two increments of PC are one.
LEMMA NextPC ==
  ASSUME NEW w \in Word, NEW n \in {0, 1, 2}
  PROVE  MEM_TWO_WORDS(MEM_TWO_WORDS(w + 1) + n) = NextLine(w, n)
  <1>1. w \in Int /\ 0 <= w /\ w <= 65535
    BY WordRange
  <1>2. (((w + 1) % 65536) + n) % 65536 = (w + 1 + n) % 65536
    BY <1>1
  <1> QED
    BY <1>2 DEF MEM_TWO_WORDS, NextLine

\* An untaken branch costs its base cycles, a taken one more.
LEMMA BranchStraight ==
  ASSUME CpuInv, CYCLES_MOD >= 9, NEW op \in Byte, NEW h, NEW e, NEW r,
         h = instr_dispatch(op, CPU_VARIANT_MODE), ~ e.PAGE_CROSS,
         BranchOp(op, h, e, r),
         CYCLES' = (CYCLES + BaseCycles(op, CPU_VARIANT_MODE)) % CYCLES_MOD
  PROVE  REG' = [r EXCEPT !.PC = @]
  <1> DEFINE base == BaseCycles(op, CPU_VARIANT_MODE)
             taken == Taken(h, r.P, bus_read(e.EA), op)
             target == BranchTarget(h, e, r)
             more == OneIf(taken) + OneIf(taken /\ Page(r.PC) # Page(target))
  <1>1. h \in BranchHandlers
    BY DEF BranchOp
  <1>2. base \in 0 .. 6
    BY <1>1, JumpCycles DEF CpuInv, JumpHandlers
  <1>3. REG' = [r EXCEPT !.PC = IF taken THEN target ELSE @]
    BY DEF BranchOp
  <1>4. Charge(op, e, more)
    BY DEF BranchOp
  <1>5. OneIf(e.PAGE_CROSS /\ op \notin op_suppresses_pagecross) = 0
    BY DEF OneIf
  <1>6. taken => more \in {1, 2}
    BY DEF OneIf
  <1>7. CYCLES \in 0 .. CYCLES_MOD - 1 /\ CYCLES_MOD \in Nat \ {0}
    BY CpuAssumption DEF CpuInv
  <1> HIDE DEF base, taken, target, more
  <1>8. CYCLES' = (CYCLES + base + 0 + more) % CYCLES_MOD
    BY <1>4, <1>5 DEF Charge, base
  <1>9. ASSUME taken PROVE FALSE
    <2> DEFINE x == CYCLES + base
               y == CYCLES + base + 0 + more
    <2>1. /\ x \in 0 .. 2 * CYCLES_MOD - 1 /\ y \in 0 .. 2 * CYCLES_MOD - 1
          /\ y = x + 1 \/ y = x + 2
      BY <1>2, <1>6, <1>7, <1>9
    <2>2. x % CYCLES_MOD = y % CYCLES_MOD
      BY <1>8 DEF base
    <2> HIDE DEF x, y
    <2>3. /\ x % CYCLES_MOD = IF x < CYCLES_MOD THEN x ELSE x - CYCLES_MOD
          /\ y % CYCLES_MOD = IF y < CYCLES_MOD THEN y ELSE y - CYCLES_MOD
      BY <1>7, <2>1, SmallRemainder
    <2> QED
      BY <1>7, <2>1, <2>2, <2>3
  <1> QED
    BY <1>3, <1>9

\* An instruction that does not jump leaves PC behind its operand.
LEMMA StraightPC ==
  ASSUME CpuInv, Instruction, WentStraight, CYCLES_MOD >= 9,
         ~ Mislisted(bus_read(REG.PC), CPU_VARIANT_MODE)
  PROVE  LET op == bus_read(REG.PC)
         IN  /\ REG'.PC = NextLine(REG.PC, debugger_operand_size(op))
             /\ Dispatched \notin {"BBR_", "BBS_"} =>
                  REG'.PC = NextLine(REG.PC, monitor_operand_size(op))
  <1> DEFINE op == bus_read(REG.PC)
             h  == instr_dispatch(op, CPU_VARIANT_MODE)
             pc == MEM_TWO_WORDS(REG.PC + 1)
             e  == addr_resolve(AddrMode(op, CPU_VARIANT_MODE), pc)
             r  == [REG EXCEPT !.PC = MEM_TWO_WORDS(pc + e.len)]
  <1>1. op \in Byte /\ CPU_VARIANT_MODE \in CPU_VARIANT
    BY ReadIsByte DEF CpuInv
  <1>2. /\ \/ RegisterOp(op, h, e, r) \/ AccumulatorOp(op, h, e, r)
           \/ RmwOp(op, h, e, r) \/ StoreOp(op, h, e, r)
           \/ PushOp(op, h, e, r) \/ PullOp(op, h, e, r)
           \/ BranchOp(op, h, e, r) \/ JMP(op, h, e, r) \/ JSR(op, h, e, r)
           \/ RTS(op, h, e, r) \/ RTI(op, h, e, r) \/ BRK(op, h, e, r)
           \/ WAI(op, h, e, r) \/ Stop(op, h, e, r)
        /\ h \notin {"JMP", "JSR", "RTS", "RTI", "BRK"} /\ Dispatched = h
    BY DEF Instruction, WentStraight, Dispatched
  <1>3. REG \in LiveRegister /\ REG.PC \in Word
    BY LiveFields DEF CpuInv
  <1>4. HasPC(r) /\ r.PC = MEM_TWO_WORDS(pc + e.len)
    BY <1>3 DEF LiveRegister, HasPC
  <1>5. /\ e.len = debugger_operand_size(op)
        /\ h \notin {"BBR_", "BBS_"} => e.len = monitor_operand_size(op)
    BY <1>1, ListedLength
  <1>6. e.len \in {0, 1, 2}
    BY <1>5 DEF debugger_operand_size, OperandSize
  <1>7. r.PC = NextLine(REG.PC, e.len)
    BY <1>3, <1>4, <1>6, NextPC
  <1>8. h \in BranchHandlers =>
          /\ ~ e.PAGE_CROSS
          /\ CYCLES' = (CYCLES + BaseCycles(op, CPU_VARIANT_MODE)) % CYCLES_MOD
    <2>1. h \in BranchHandlers => ~ e.PAGE_CROSS
      BY <1>1, BranchModes, CrossingModes
    <2> QED
      BY <2>1 DEF WentStraight, Dispatched
  <1>9. h = instr_dispatch(op, CPU_VARIANT_MODE)
    OBVIOUS
  <1> HIDE DEF op, h, e, r, pc
  <1>10. REG'.PC = r.PC
    <2>1. CASE RegisterOp(op, h, e, r)
      BY <1>4, <2>1, RegisterPC DEF RegisterOp
    <2>2. CASE AccumulatorOp(op, h, e, r)
      <3> DEFINE res == RmwResult(h, r, r.A, op, CPU_VARIANT_MODE)
      <3>1. SamePC(res.r, r)
        BY <1>4, <2>2, RmwPC DEF AccumulatorOp, RmwHandlers
      <3>2. REG' = [res.r EXCEPT !.A = res.v]
        BY <2>2 DEF AccumulatorOp
      <3> HIDE DEF res
      <3> QED
        BY <1>4, <3>1, <3>2, ChainPC, ExceptPC DEF SamePC
    <2>3. CASE RmwOp(op, h, e, r)
      BY <1>4, <2>3, RmwPC DEF RmwOp, SamePC
    <2>4. CASE StoreOp(op, h, e, r) \/ WAI(op, h, e, r) \/ Stop(op, h, e, r)
      BY <2>4 DEF StoreOp, WAI, Stop
    <2>5. CASE PushOp(op, h, e, r)
      BY <1>4, <2>5, ExceptPC DEF PushOp, SamePC
    <2>6. CASE PullOp(op, h, e, r)
      <3> DEFINE s == [r EXCEPT !.S = MEM_WORD(@ + 1)]
      <3>1. SamePC(s, r)
        BY <1>4, ExceptPC
      <3>2. REG' = Pulled(h, s, pop8(r.S, 1)) /\ h \in PullHandlers
        BY <2>6 DEF PullOp
      <3> HIDE DEF s
      <3> QED
        BY <1>4, <3>1, <3>2, ChainPC, PulledPC DEF SamePC
    <2>7. CASE BranchOp(op, h, e, r)
      <3>1. h \in BranchHandlers
        BY <2>7 DEF BranchOp
      <3>2. REG' = [r EXCEPT !.PC = @]
        BY <1>1, <1>8, <1>9, <2>7, <3>1, BranchStraight
      <3> QED
        BY <1>4, <3>2 DEF HasPC
    <2>8. CASE \/ JMP(op, h, e, r) \/ JSR(op, h, e, r) \/ RTS(op, h, e, r)
               \/ RTI(op, h, e, r) \/ BRK(op, h, e, r)
      BY <1>2, <2>8 DEF JMP, JSR, RTS, RTI, BRK
    <2> QED
      BY <1>2, <2>1, <2>2, <2>3, <2>4, <2>5, <2>6, <2>7, <2>8
  <1> QED
    BY <1>2, <1>5, <1>7, <1>10 DEF op

\* Both disassemblers step through straight code as the CPU does, whatever the
\* program is.
THEOREM DisassemblyCorrect == RunSpec => DisassemblyFollowsPC
  <1> DEFINE op == bus_read(REG.PC)
             A == RunStep /\ Instruction /\ WentStraight
                  /\ ~ Mislisted(op, CPU_VARIANT_MODE)
                  => /\ REG'.PC = NextLine(REG.PC, debugger_operand_size(op))
                     /\ Dispatched \notin {"BBR_", "BBS_"} =>
                          REG'.PC = NextLine(REG.PC, monitor_operand_size(op))
  <1>1. RunInv => A
    <2> SUFFICES ASSUME RunInv, RunStep, Instruction, WentStraight,
                        ~ Mislisted(op, CPU_VARIANT_MODE)
                 PROVE  /\ REG'.PC = NextLine(REG.PC, debugger_operand_size(op))
                        /\ Dispatched \notin {"BBR_", "BBS_"} =>
                             REG'.PC = NextLine(REG.PC, monitor_operand_size(op))
      OBVIOUS
    <2>1. run.MAX_CYCLES \in Budgets
      BY DEF RunInv, RunStep
    <2>2. CYCLES_MOD >= 9
      BY <2>1, RunAssumption, CpuAssumption
    <2> QED
      BY <2>2, StraightPC DEF RunInv
  <1>2. RunInv => [A]_runVars
    BY <1>1
  <1> HIDE DEF A
  <1>3. RunSpec => [][A]_runVars
    BY <1>2, RunInvariant, PTL
  <1> QED
    BY <1>3 DEF A, DisassemblyFollowsPC
=============================================================================
