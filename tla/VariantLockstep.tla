-------------------------- MODULE VariantLockstep --------------------------
(***************************************************************************)
(* The same program on both variants: an NMOS 6502 (REG, mem, ...) and a   *)
(* 65C02 (cREG, cMem, ...) take every step together.  Where the variants   *)
(* are documented to differ, Sync copies the first CPU to the second, so   *)
(* that the next instruction is compared from equal states again.          *)
(***************************************************************************)
EXTENDS Cpu6502

VARIABLES
  cREG, cMem, cCYCLES, cVARIANT, cWAITING, cSTOPPED, cIc, cPolls,
  before            \* the state the last step was taken from

cvars == <<cREG, cMem, cCYCLES, cVARIANT, cWAITING, cSTOPPED, cIc, cPolls>>

lvars == <<vars, cvars, before>>

Cmos == INSTANCE Cpu6502 WITH
          REG <- cREG, mem <- cMem, CYCLES <- cCYCLES,
          CPU_VARIANT_MODE <- cVARIANT, CPU_WAITING <- cWAITING,
          CPU_STOPPED <- cSTOPPED, ic <- cIc, global_cycle_count <- cPolls

LInit ==
  /\ Init /\ CPU_VARIANT_MODE = NMOS
  /\ cREG = REG /\ cMem = mem /\ cCYCLES = CYCLES /\ cVARIANT = CMOS
  /\ cWAITING = 0 /\ cSTOPPED = 0
  /\ cIc = ic /\ cPolls = global_cycle_count
  /\ before = [op |-> \hEA, P |-> REG.P, pointer |-> 0]

Same == REG = cREG /\ mem = cMem /\ CYCLES = cCYCLES /\ ic = cIc

\* The 151 documented opcodes of the 6502.
Official ==
  ({op \in Byte : op % 4 = 1 \/ op % 16 \in {0, 6, 8, 14}}
     \ {\h80, \h89, \h9E})
  \cup {\h0A, \h2A, \h4A, \h6A, \h8A, \h9A, \hAA, \hBA, \hCA, \hEA, \hA2}
  \cup {\h24, \h84, \h94, \hA4, \hB4, \hC4, \hE4}
  \cup {\h2C, \h4C, \h6C, \h8C, \hAC, \hBC, \hCC, \hEC}

\* Both execute the same documented opcode.
Lockstep ==
  /\ Same
  /\ bus_read(REG.PC) \in Official
  /\ cpu_step /\ Cmos!cpu_step
  /\ before' = [op |-> bus_read(REG.PC), P |-> REG.P,
                pointer |-> bus_read16(MEM_TWO_WORDS(REG.PC + 1))]

Sync ==
  /\ ~ Same
  /\ cREG' = REG /\ cMem' = mem /\ cCYCLES' = CYCLES /\ cIc' = ic
  /\ before' = [before EXCEPT !.op = \hEA]
  /\ UNCHANGED <<vars, cVARIANT, cWAITING, cSTOPPED, cPolls>>

LNext == Lockstep \/ Sync

LSpec == LInit /\ [][LNext]_lvars

----------------------------------------------------------------------------
(* Properties *)

\* The registers differ only in flags of fs.
OnlyFlags(fs) == [REG EXCEPT !.P = @ \ fs] = [cREG EXCEPT !.P = @ \ fs]

\* The README's table of CPU variant differences, with the interrupt
\* sequence's "65C02: BRK/IRQ/NMI clear the Decimal flag" and the cycle that
\* the 65C02's JMP adds: after a documented opcode the variants agree on every
\* register, flag, cell and cycle but
\*  - N and Z of a decimal ADC or SBC (never its result, C or V),
\*  - the target of JMP ($xxFF), and one cycle of every JMP ($nnnn),
\*  - D after a BRK.
VariantsDifferAsDocumented ==
  /\ mem = cMem
  /\ \/ REG = cREG
     \/ /\ Entry(INSTR_HANDLERS, before.op) \in {"ADC", "SBC"}
        /\ "D" \in before.P
        /\ OnlyFlags({"N", "Z"})
     \/ /\ before.op = \h6C /\ before.pointer % 256 = 255
        /\ [REG EXCEPT !.PC = 0] = [cREG EXCEPT !.PC = 0]
     \/ before.op = \h00 /\ OnlyFlags({"D"})
  /\ cCYCLES = (CYCLES + OneIf(before.op = \h6C)) % CYCLES_MOD
  /\ CPU_STOPPED = 0 /\ CPU_WAITING = 0
=============================================================================
