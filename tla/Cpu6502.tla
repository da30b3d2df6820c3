------------------------------ MODULE Cpu6502 ------------------------------
(***************************************************************************)
(* The CPU: src/cpu.c, src/addressing.c, src/stack.c, src/bus.c and the    *)
(* handlers of src/instructions_implementation.c, with the interrupt       *)
(* controller of module Interrupt.                                         *)
(*                                                                         *)
(* A call of cpu_step is one action: an interrupt sequence, a step of a    *)
(* halted CPU, or one instruction.  Between calls the host may drive the   *)
(* interrupt lines, reset, reinitialise or change the variant.             *)
(*                                                                         *)
(* The memory behind the bus is a map of writable cells (RAM), of          *)
(* read-only cells (ROM, an image) and of nothing (open bus); module       *)
(* MemoryMap models how regions make such a map.  Bus reads have no side   *)
(* effect here: no I/O region is mapped.                                   *)
(***************************************************************************)
EXTENDS Interrupt, Instructions, Opcodes

CONSTANTS
  RAM,             \* the addresses of RAM regions
  ROM,             \* the contents of ROM regions: a function on addresses
  Images,          \* the RAM contents a run may start from
  Variants,        \* the CPU variants the host selects
  CYCLES_MOD       \* CYCLES is a uint32_t: 2^32

ASSUME CpuAssumption ==
  /\ RAM \subseteq Word
  /\ DOMAIN ROM \subseteq Word \ RAM
  /\ ROM \in [DOMAIN ROM -> Byte]
  /\ Images \subseteq [RAM -> Byte]
  /\ Variants \subseteq CPU_VARIANT
  /\ CYCLES_MOD \in Nat \ {0}

VARIABLES
  REG,                 \* T_REGISTER
  mem,                 \* the RAM cells
  CYCLES,
  CPU_VARIANT_MODE,
  CPU_WAITING, CPU_STOPPED

vars == <<REG, mem, CYCLES, CPU_VARIANT_MODE, CPU_WAITING, CPU_STOPPED,
          ic, global_cycle_count>>

----------------------------------------------------------------------------
(* The bus *)

\* Unmapped addresses read as 0xFF.
bus_read(a) ==
  IF a \in RAM THEN mem[a]
  ELSE IF a \in DOMAIN ROM THEN ROM[a]
  ELSE 255

bus_read16(a) == Word16(bus_read(a), bus_read(MEM_TWO_WORDS(a + 1)))

\* The memory m after a write; ROM and unmapped addresses ignore it.
bus_write(m, a, b) == IF a \in RAM THEN [m EXCEPT ![a] = b] ELSE m

----------------------------------------------------------------------------
(* The stack *)

\* The memory m after push8(b) with the stack pointer at s.
push8(m, s, b) == bus_write(m, STACK_START + s, b)

push16(m, s, w) == push8(push8(m, s, w \div 256), MEM_WORD(s - 1), w % 256)

\* The byte the n-th pop8 from stack pointer s returns.
pop8(s, n) == bus_read(STACK_START + MEM_WORD(s + n))

pop16(s, n) == Word16(pop8(s, n), pop8(s, n + 1))

----------------------------------------------------------------------------
(* Addressing modes *)

\* An operand at address ea, after n operand bytes.
AtAddress(ea, n) ==
  [EA |-> ea, HAS_EA |-> TRUE, PAGE_CROSS |-> FALSE, len |-> n]

AtIndexed(base, index, n) ==
  LET ea == MEM_TWO_WORDS(base + index)
  IN  [EA |-> ea, HAS_EA |-> TRUE, PAGE_CROSS |-> Page(base) # Page(ea),
       len |-> n]

\* No address: EA is the operand itself.
Immediate(v, n) ==
  [EA |-> v, HAS_EA |-> FALSE, PAGE_CROSS |-> FALSE, len |-> n]

\* A pointer in the zero page, which wraps around in it.
ZeroPagePointer(z) == Word16(bus_read(z), bus_read(MEM_WORD(z + 1)))

\* The NMOS 6502 reads the high byte of JMP ($xxFF) from $xx00.
addr_ind(base) ==
  IF CPU_VARIANT_MODE = NMOS /\ base % 256 = 255
  THEN Word16(bus_read(base), bus_read(256 * Page(base)))
  ELSE bus_read16(base)

\* pc is the address of the first operand byte.
addr_resolve(mode, pc) ==
  LET b == bus_read(pc)                                     \* fetch8
      w == bus_read16(pc)                                   \* fetch16
  IN  CASE mode = "ZP"   -> AtAddress(b, 1)
        [] mode = "ZPX"  -> AtAddress(MEM_WORD(REG.X + b), 1)
        [] mode = "ZPY"  -> AtAddress(MEM_WORD(REG.Y + b), 1)
        [] mode = "ABS"  -> AtAddress(w, 2)
        [] mode = "ABSX" -> AtIndexed(w, REG.X, 2)
        [] mode = "ABSY" -> AtIndexed(w, REG.Y, 2)
        [] mode = "IND"  -> AtAddress(addr_ind(w), 2)
        [] mode = "INDX" ->
             AtAddress(ZeroPagePointer(MEM_WORD(b + REG.X)), 1)
        [] mode = "INDY" -> AtIndexed(ZeroPagePointer(b), REG.Y, 1)
        [] mode = "ZP_IND" -> AtAddress(ZeroPagePointer(b), 1)
        [] mode = "ABS_IND_X" ->
             AtAddress(bus_read16(MEM_TWO_WORDS(w + REG.X)), 2)
        [] mode = "IMM"  -> Immediate(b, 1)
        [] mode = "REL"  ->
             Immediate(MEM_TWO_WORDS(pc + 1 + SIGNED_MEM_WORD(b)), 1)
        [] mode = "ZPREL" -> AtAddress(b, 2)
        [] OTHER -> Immediate(0, 0)                         \* ACC, NONE

----------------------------------------------------------------------------
(* Initialisation and reset *)

\* The registers cpu_reset leaves.
ResetRegisters ==
  [PC |-> bus_read16(CPU_RESET_VECTOR_ADDRESS), A |-> 0, X |-> 0, Y |-> 0,
   S |-> CPU_RESET_STACK_POINTER, P |-> CPU_RESET_STATUS]

\* The program is loaded, then cpu_init and cpu_reset have run.
Init ==
  /\ mem \in Images
  /\ CPU_VARIANT_MODE \in Variants
  /\ REG = ResetRegisters
  /\ CYCLES = 7 % CYCLES_MOD
  /\ CPU_WAITING = 0 /\ CPU_STOPPED = 0
  /\ ic = interrupt_init
  /\ global_cycle_count = 0

\* Mutant: a reset also drops a latched NMI.
cpu_reset_drops_nmi ==
  /\ REG' = ResetRegisters
  /\ CYCLES' = (CYCLES + 7) % CYCLES_MOD
  /\ CPU_WAITING' = 0 /\ CPU_STOPPED' = 0
  /\ ic' = [ic EXCEPT !.nmi_pending = 0]
  /\ UNCHANGED <<mem, CPU_VARIANT_MODE, global_cycle_count>>

cpu_reset ==
  /\ REG' = ResetRegisters
  /\ CYCLES' = (CYCLES + 7) % CYCLES_MOD
  /\ CPU_WAITING' = 0 /\ CPU_STOPPED' = 0
  /\ UNCHANGED <<mem, CPU_VARIANT_MODE, ic, global_cycle_count>>

----------------------------------------------------------------------------
(* Interrupt sequences *)

VectorOf(type) == IF type = "INT_NMI" THEN NMI_VECTOR ELSE IRQ_VECTOR

\* Mutant: I is set before P is pushed.
InterruptSequence_masks_first(type, r) ==
  LET brk == type = "INT_BRK"
      ret == IF brk THEN MEM_TWO_WORDS(r.PC + 1) ELSE r.PC
      p   == r.P \cup {"I", "U"} \cup (IF brk THEN {"B"} ELSE {})
  IN  /\ mem' = push8(push16(mem, r.S, ret), MEM_WORD(r.S - 2), PByte(p))
      /\ REG' = [r EXCEPT
                  !.S = MEM_WORD(@ - 3),
                  !.P = (@ \cup {"I"}) \ (IF CPU_VARIANT_MODE = CMOS
                                          THEN {"D"} ELSE {}),
                  !.PC = bus_read16(VectorOf(type))]
      /\ ic' = Acknowledge(ic, type, r.PC, r.P, Bump(global_cycle_count))
      /\ CPU_WAITING' = 0

\* Mutant: the sequence does not end the wait of WAI.
InterruptSequence_keeps_waiting(type, r) ==
  LET brk == type = "INT_BRK"
      ret == IF brk THEN MEM_TWO_WORDS(r.PC + 1) ELSE r.PC
      p   == IF brk THEN r.P \cup {"B", "U"} ELSE (r.P \ {"B"}) \cup {"U"}
  IN  /\ mem' = push8(push16(mem, r.S, ret), MEM_WORD(r.S - 2), PByte(p))
      /\ REG' = [r EXCEPT
                  !.S = MEM_WORD(@ - 3),
                  !.P = (@ \cup {"I"}) \ (IF CPU_VARIANT_MODE = CMOS
                                          THEN {"D"} ELSE {}),
                  !.PC = bus_read16(VectorOf(type))]
      /\ ic' = Acknowledge(ic, type, r.PC, r.P, Bump(global_cycle_count))
      /\ UNCHANGED CPU_WAITING

\* interrupt_begin and interrupt_step_cycle with the registers at r: push
\* the return address and P, set I (the 65C02 also clears D), leave WAI and
\* jump through the vector.  The pushes stay in page 1, so the vector is
\* read from the memory before them.
InterruptSequence(type, r) ==
  LET brk == type = "INT_BRK"
      ret == IF brk THEN MEM_TWO_WORDS(r.PC + 1) ELSE r.PC
      p   == IF brk THEN r.P \cup {"B", "U"} ELSE (r.P \ {"B"}) \cup {"U"}
  IN  /\ mem' = push8(push16(mem, r.S, ret), MEM_WORD(r.S - 2), PByte(p))
      /\ REG' = [r EXCEPT
                  !.S = MEM_WORD(@ - 3),
                  !.P = (@ \cup {"I"}) \ (IF CPU_VARIANT_MODE = CMOS
                                          THEN {"D"} ELSE {}),
                  !.PC = bus_read16(VectorOf(type))]
      /\ ic' = Acknowledge(ic, type, r.PC, r.P, Bump(global_cycle_count))
      /\ CPU_WAITING' = 0

\* cpu_step when the poll returns type: 7 cycles, even if the CPU is stopped.
ServiceInterrupt(type) ==
  /\ interrupt_poll(ic, REG.P) = type
  /\ InterruptSequence(type, REG)
  /\ CYCLES' = (CYCLES + 7) % CYCLES_MOD
  /\ UNCHANGED CPU_STOPPED

\* cpu_step of a stopped or waiting CPU: only the poll has happened.
Halted ==
  /\ interrupt_poll(ic, REG.P) = "INT_NONE"
  /\ CPU_STOPPED = 1 \/ CPU_WAITING = 1
  /\ UNCHANGED <<REG, mem, CYCLES, CPU_WAITING, CPU_STOPPED, ic>>

----------------------------------------------------------------------------
(* Instructions.  op is OPCODE, e what addr_resolve returned and r the     *)
(* registers after the opcode and operand fetches.                         *)

OneIf(b) == IF b THEN 1 ELSE 0

\* CYCLES after base cycles, apply_cycle_adjustments and extra cycles.
Charge(op, e, extra) ==
  CYCLES' = (CYCLES + BaseCycles(op, CPU_VARIANT_MODE)
                    + OneIf(e.PAGE_CROSS /\ op \notin op_suppresses_pagecross)
                    + extra) % CYCLES_MOD

\* HAS_EA ? bus_read(EA) : (MEM_WORD)EA
Data(e) == IF e.HAS_EA THEN bus_read(e.EA) ELSE MEM_WORD(e.EA)

Running == UNCHANGED <<CPU_WAITING, CPU_STOPPED, ic>>

RegisterOp(op, h, e, r) ==
  /\ h \in RegisterHandlers
  /\ REG' = RegisterResult(h, r, Data(e), op, CPU_VARIANT_MODE)
  /\ Charge(op, e, 0)
  /\ UNCHANGED mem /\ Running

\* ASL, LSR, ROL and ROR of the accumulator.
AccumulatorOp(op, h, e, r) ==
  /\ h \in ShiftHandlers /\ ~ e.HAS_EA
  /\ LET res == RmwResult(h, r, r.A, op, CPU_VARIANT_MODE)
     IN  REG' = [res.r EXCEPT !.A = res.v]
  /\ Charge(op, e, 0)
  /\ UNCHANGED mem /\ Running

RmwOp(op, h, e, r) ==
  /\ h \in RmwHandlers /\ (h \in ShiftHandlers => e.HAS_EA)
  /\ LET res == RmwResult(h, r, bus_read(e.EA), op, CPU_VARIANT_MODE)
     IN  /\ mem' = bus_write(mem, e.EA, res.v)
         /\ REG' = res.r
  /\ Charge(op, e, 0)
  /\ Running

StoreOp(op, h, e, r) ==
  /\ h \in StoreHandlers
  /\ mem' = bus_write(mem, e.EA, StoredByte(h, r))
  /\ REG' = r
  /\ Charge(op, e, 0)
  /\ Running

PushOp(op, h, e, r) ==
  /\ h \in PushHandlers
  /\ mem' = push8(mem, r.S, PushedByte(h, r))
  /\ REG' = [r EXCEPT !.S = MEM_WORD(@ - 1)]
  /\ Charge(op, e, 0)
  /\ Running

PullOp(op, h, e, r) ==
  /\ h \in PullHandlers
  /\ REG' = Pulled(h, [r EXCEPT !.S = MEM_WORD(@ + 1)], pop8(r.S, 1))
  /\ Charge(op, e, 0)
  /\ UNCHANGED mem /\ Running

\* REL_OFFSET is the last operand byte of BBR and BBS.
BranchTarget(h, e, r) ==
  IF h \in {"BBR_", "BBS_"}
  THEN MEM_TWO_WORDS(r.PC
         + SIGNED_MEM_WORD(bus_read(MEM_TWO_WORDS(r.PC - 1))))
  ELSE e.EA

BranchOp(op, h, e, r) ==
  LET taken  == Taken(h, r.P, bus_read(e.EA), op)
      target == BranchTarget(h, e, r)
  IN  /\ h \in BranchHandlers
      /\ REG' = [r EXCEPT !.PC = IF taken THEN target ELSE @]
      /\ Charge(op, e, OneIf(taken) + OneIf(taken /\ Page(r.PC) # Page(target)))
      /\ UNCHANGED mem /\ Running

\* JMP ($nnnn) takes one cycle more on the 65C02.
JMP(op, h, e, r) ==
  /\ h = "JMP"
  /\ REG' = [r EXCEPT !.PC = e.EA]
  /\ Charge(op, e, OneIf(CPU_VARIANT_MODE = CMOS /\ op = \h6C))
  /\ UNCHANGED mem /\ Running

JSR(op, h, e, r) ==
  /\ h = "JSR"
  /\ mem' = push16(mem, r.S, MEM_TWO_WORDS(r.PC - 1))
  /\ REG' = [r EXCEPT !.S = MEM_WORD(@ - 2), !.PC = e.EA]
  /\ Charge(op, e, 0)
  /\ Running

RTS(op, h, e, r) ==
  /\ h = "RTS"
  /\ REG' = [r EXCEPT !.S = MEM_WORD(@ + 2),
                      !.PC = MEM_TWO_WORDS(pop16(r.S, 1) + 1)]
  /\ Charge(op, e, 0)
  /\ UNCHANGED mem /\ Running

\* Mutant: RTI takes B from the stack.
RTI_with_B(op, h, e, r) ==
  /\ h = "RTI"
  /\ REG' = [r EXCEPT !.S = MEM_WORD(@ + 3),
                      !.P = PFlags(pop8(r.S, 1)) \ {"U"},
                      !.PC = pop16(r.S, 2)]
  /\ Charge(op, e, 0)
  /\ UNCHANGED mem /\ Running

RTI(op, h, e, r) ==
  /\ h = "RTI"
  /\ REG' = [r EXCEPT !.S = MEM_WORD(@ + 3),
                      !.P = PFlags(pop8(r.S, 1)) \ {"B", "U"},
                      !.PC = pop16(r.S, 2)]
  /\ Charge(op, e, 0)
  /\ UNCHANGED mem /\ Running

BRK(op, h, e, r) ==
  /\ h = "BRK"
  /\ InterruptSequence("INT_BRK", r)
  /\ Charge(op, e, 0)
  /\ UNCHANGED CPU_STOPPED

WAI(op, h, e, r) ==
  /\ h = "WAI"
  /\ REG' = r
  /\ CPU_WAITING' = 1
  /\ Charge(op, e, 0)
  /\ UNCHANGED <<mem, CPU_STOPPED, ic>>

\* Mutant: a jammed CPU fetches the same opcode again and again.
Stop_spins(op, h, e, r) ==
  /\ h \in {"STP", "op_kil"}
  /\ REG' = [r EXCEPT !.PC = REG.PC]
  /\ Charge(op, e, 0)
  /\ UNCHANGED <<mem, CPU_WAITING, CPU_STOPPED, ic>>

\* STP and op_kil
Stop(op, h, e, r) ==
  /\ h \in {"STP", "op_kil"}
  /\ REG' = r
  /\ CPU_STOPPED' = 1
  /\ Charge(op, e, 0)
  /\ UNCHANGED <<mem, CPU_WAITING, ic>>

\* One instruction: fetch, decode, resolve the operand, dispatch.
Instruction ==
  LET op == bus_read(REG.PC)
      h  == instr_dispatch(op, CPU_VARIANT_MODE)
      pc == MEM_TWO_WORDS(REG.PC + 1)
      e  == addr_resolve(AddrMode(op, CPU_VARIANT_MODE), pc)
      r  == [REG EXCEPT !.PC = MEM_TWO_WORDS(pc + e.len)]
  IN  /\ interrupt_poll(ic, REG.P) = "INT_NONE"
      /\ CPU_STOPPED = 0 /\ CPU_WAITING = 0
      /\ \/ RegisterOp(op, h, e, r)
         \/ AccumulatorOp(op, h, e, r)
         \/ RmwOp(op, h, e, r)
         \/ StoreOp(op, h, e, r)
         \/ PushOp(op, h, e, r)
         \/ PullOp(op, h, e, r)
         \/ BranchOp(op, h, e, r)
         \/ JMP(op, h, e, r)
         \/ JSR(op, h, e, r)
         \/ RTS(op, h, e, r)
         \/ RTI(op, h, e, r)
         \/ BRK(op, h, e, r)
         \/ WAI(op, h, e, r)
         \/ Stop(op, h, e, r)

cpu_step ==
  /\ global_cycle_count' = Bump(global_cycle_count)
  /\ UNCHANGED CPU_VARIANT_MODE
  /\ \/ ServiceInterrupt("INT_NMI")
     \/ ServiceInterrupt("INT_IRQ")
     \/ Halted
     \/ Instruction

----------------------------------------------------------------------------
(* What the host does between steps *)

Controller(c) ==
  /\ ic' = c
  /\ UNCHANGED <<REG, mem, CYCLES, CPU_VARIANT_MODE, CPU_WAITING,
                 CPU_STOPPED, global_cycle_count>>

SetIrq(active) == Controller(interrupt_set_irq(ic, active))
SetNmi(active) == Controller(interrupt_set_nmi(ic, active))
cpu_irq == Controller(interrupt_set_irq(ic, 1))
cpu_nmi == Controller(interrupt_set_nmi(interrupt_set_nmi(ic, 1), 0))
cpu_init == Controller(interrupt_init)
ClearHistory == Controller(interrupt_clear_history(ic))

cpu_set_variant(variant) ==
  /\ CPU_VARIANT_MODE' = variant
  /\ UNCHANGED <<REG, mem, CYCLES, CPU_WAITING, CPU_STOPPED, ic,
                 global_cycle_count>>

Host ==
  \/ \E active \in {0, 1} : SetIrq(active)
  \/ \E active \in {0, 1} : SetNmi(active)
  \/ cpu_irq
  \/ cpu_nmi
  \/ cpu_init
  \/ cpu_reset
  \/ ClearHistory
  \/ \E variant \in Variants : cpu_set_variant(variant)

Next == cpu_step \/ Host

Spec == Init /\ [][Next]_vars

----------------------------------------------------------------------------
(* Properties *)

\* Registers, cells and counters keep their C types.
TypeOK ==
  /\ REG \in T_REGISTER
  /\ mem \in [RAM -> Byte]
  /\ CYCLES \in 0 .. CYCLES_MOD - 1
  /\ CPU_VARIANT_MODE \in CPU_VARIANT
  /\ CPU_WAITING \in {0, 1} /\ CPU_STOPPED \in {0, 1}
  /\ ic \in INTERRUPT_CONTROLLER
  /\ global_cycle_count \in Count

\* FLAG_B exists only in the bytes PHP and BRK push: no pull, return, reset
\* or interrupt ever leaves it in the live status register.
BNeverLive == "B" \notin REG.P

\* A step that costs no cycles leaves the CPU stopped or waiting.  cpu_run
\* counts cycles, so any other free step could keep it looping.
UnbilledStepHalts ==
  [][cpu_step /\ CYCLES' = CYCLES => CPU_STOPPED' = 1 \/ CPU_WAITING' = 1]_vars

\* A latched NMI survives everything the host and the CPU do (a reset, a
\* cleared history, a halted or masked CPU) until the step that enters its
\* handler with the interrupted PC on the stack; only cpu_init discards it.
NmiDelivered ==
  [][ic.nmi_pending = 1 /\ ic'.nmi_pending = 0 =>
       \/ ic' = interrupt_init
       \/ /\ REG'.PC = bus_read16(NMI_VECTOR)
          /\ REG'.S = MEM_WORD(REG.S - 3)
          /\ LET cell(n) == STACK_START + MEM_WORD(REG.S - n)
             IN  {cell(0), cell(1)} \subseteq RAM =>
                   Word16(mem'[cell(1)], mem'[cell(0)]) = REG.PC]_vars

\* What an RTI would make of the registers.
Returned ==
  [REG EXCEPT !.S = MEM_WORD(@ + 3),
              !.P = PFlags(pop8(REG.S, 1)) \ {"B", "U"},
              !.PC = pop16(REG.S, 2)]

\* An NMI or an IRQ leaves the CPU one RTI away from the registers it had, BRK
\* from those with PC behind its padding byte, wherever the stack pointer
\* wraps; only U is lost, which RTI clears.  And RTI goes there.
InterruptsReturn ==
  [][LET frame == {STACK_START + MEM_WORD(REG.S - k) : k \in 0 .. 2}
         op    == bus_read(REG.PC)
     IN  /\ /\ ServiceInterrupt("INT_NMI") \/ ServiceInterrupt("INT_IRQ")
            /\ frame \subseteq RAM
            => Returned' = [REG EXCEPT !.P = @ \ {"U"}]
         /\ Instruction /\ op = \h00 /\ frame \subseteq RAM
            => Returned' = [REG EXCEPT !.P = @ \ {"U"},
                                       !.PC = MEM_TWO_WORDS(@ + 2)]
         /\ Instruction /\ op = \h40 => REG' = Returned /\ mem' = mem]_vars

\* "KIL (JAM) - halt the CPU permanently": a CPU that stays stopped executes
\* nothing, so its registers and its memory stay as they are.
StoppedStaysPut ==
  [][CPU_STOPPED = 1 /\ CPU_STOPPED' = 1 => UNCHANGED <<REG, mem>>]_vars

Dispatched == instr_dispatch(bus_read(REG.PC), CPU_VARIANT_MODE)

\* Read-modify-write handlers of documented opcodes.
DocumentedRmw ==
  {"ASL", "LSR", "ROL", "ROR", "INC", "DEC", "TRB", "TSB", "RMB", "SMB"}

\* op_suppresses_pagecross: a write or read-modify-write instruction's "base
\* cycle count is fixed and does not gain a page-cross penalty", whatever its
\* addressing mode and index; SLO, RLA, SRE, RRA, DCP and ISC, which the list
\* misses, are excepted.
WritesCostBaseCycles ==
  [][Instruction /\ Dispatched \in StoreHandlers \cup DocumentedRmw
       => CYCLES' = (CYCLES + BaseCycles(bus_read(REG.PC), CPU_VARIANT_MODE))
                      % CYCLES_MOD]_vars
=============================================================================
