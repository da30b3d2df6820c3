---------------------------- MODULE Transparency ----------------------------
(***************************************************************************)
(* Two CPUs run the same program.  One (REG, mem, ...) is interrupted at   *)
(* any instruction boundary; the other (aloneREG, aloneMem) never is, and  *)
(* takes a step whenever the first executes an instruction of the main     *)
(* program.  depth counts the handlers the first one is inside of.         *)
(* Interrupts are transparent if the two agree whenever depth is 0.        *)
(***************************************************************************)
EXTENDS Cpu6502

CONSTANTS
  MaxNmis,      \* how many NMI pulses arrive
  MaxDepth,     \* where the handler count saturates: more than can nest
  MainLoop      \* an address the main program passes again and again

VARIABLES
  depth, nmis,
  tick,                                 \* toggled by each call of cpu_step
  aloneREG, aloneMem, aloneWAITING, aloneSTOPPED,
  aloneIc, aloneCYCLES, alonePolls      \* constant: no interrupt, modulus 1

alone == <<aloneREG, aloneMem, aloneWAITING, aloneSTOPPED, aloneIc,
           aloneCYCLES, alonePolls>>

tvars == <<vars, depth, nmis, tick, alone>>

\* The CPU without interrupts.
Alone == INSTANCE Cpu6502 WITH
           REG <- aloneREG, mem <- aloneMem,
           CPU_WAITING <- aloneWAITING, CPU_STOPPED <- aloneSTOPPED,
           ic <- aloneIc, CYCLES <- aloneCYCLES, CYCLES_MOD <- 1,
           global_cycle_count <- alonePolls, COUNT_MOD <- 1

TInit ==
  /\ Init
  /\ depth = 0 /\ nmis = 0 /\ tick = 0
  /\ aloneREG = REG /\ aloneMem = mem
  /\ aloneWAITING = 0 /\ aloneSTOPPED = 0
  /\ aloneIc = ic /\ aloneCYCLES = 0 /\ alonePolls = 0

Polled == interrupt_poll(ic, REG.P)

\* An interrupt sequence enters a handler.  If the main program was waiting
\* in WAI, this is what it waited for, and the other CPU goes on as well.
Enter == /\ Polled # "INT_NONE"
         /\ cpu_step
         /\ depth' = IF depth < MaxDepth THEN depth + 1 ELSE depth
         /\ aloneWAITING' = 0
         /\ UNCHANGED <<aloneREG, aloneMem, aloneSTOPPED, aloneIc,
                        aloneCYCLES, alonePolls>>

\* An instruction of the main program, taken by both CPUs.
MainStep == /\ Polled = "INT_NONE" /\ depth = 0 /\ CPU_WAITING = 0
            /\ cpu_step
            /\ Alone!cpu_step
            /\ UNCHANGED depth

\* A step while the main program waits in WAI.
WaitStep == /\ Polled = "INT_NONE" /\ CPU_WAITING = 1
            /\ cpu_step
            /\ UNCHANGED <<depth, alone>>

\* An instruction of a handler; its RTI leaves it.
HandlerStep == /\ Polled = "INT_NONE" /\ depth > 0 /\ CPU_WAITING = 0
               /\ cpu_step
               /\ depth' = IF CPU_STOPPED = 0 /\ bus_read(REG.PC) = \h40
                           THEN depth - 1 ELSE depth
               /\ UNCHANGED alone

\* The peripherals: the IRQ line moves freely, NMI pulses arrive.
Peripheral == /\ \/ \E active \in {0, 1} : SetIrq(active) /\ UNCHANGED nmis
                 \/ nmis < MaxNmis /\ cpu_nmi /\ nmis' = nmis + 1
              /\ UNCHANGED <<depth, tick, alone>>

Step == /\ Enter \/ MainStep \/ WaitStep \/ HandlerStep
        /\ tick' = 1 - tick
        /\ UNCHANGED nmis

TNext == Step \/ Peripheral

TSpec == TInit /\ [][TNext]_tvars

\* cpu_run and the loops of main.c call cpu_step again and again; tick tells
\* each call, also of a CPU that waits and changes nothing.
Ticks == tick' = 1 - tick

FairSpec == TSpec /\ WF_tick(Ticks)

----------------------------------------------------------------------------
(* Properties *)

\* The cells the main program can still read: all but the free part of the
\* stack page.
Live(a) == a \notin STACK_START .. STACK_START + REG.S

\* Wherever the interrupts of any kind hit, and however they nest, once the
\* handlers have returned the interrupted program has the registers, the
\* flags (but U, which RTI clears and nothing reads), the stack and the data
\* it would have had without them.
Transparent ==
  depth = 0 =>
    /\ [REG EXCEPT !.P = @ \ {"U"}] = [aloneREG EXCEPT !.P = @ \ {"U"}]
    /\ \A a \in RAM : Live(a) => mem[a] = aloneMem[a]

\* When the NMIs are over and the IRQ line stays released, the main program
\* runs on: no interrupt is served for ever and every handler returns.
Released == <>[](ic.irq_line = 0)
Resumes == Released => []<>(depth = 0 /\ REG.PC = MainLoop)

\* An NMI ends the wait of WAI and its handler returns to the waiting
\* program.
WokenResumes ==
  Released => ((CPU_WAITING = 1 /\ ic.nmi_pending = 1)
                 ~> (CPU_WAITING = 0 /\ depth = 0))
=============================================================================
