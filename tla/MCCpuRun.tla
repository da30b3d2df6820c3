------------------------------ MODULE MCCpuRun ------------------------------
(***************************************************************************)
(* cpu_run over every opcode of both variants: the prologue of Programs    *)
(* costs 15 cycles, so the budget ends behind the opcode, and the counter  *)
(* wraps around on the way.  Before the first run an NMI may be raised;    *)
(* a second run starts where the first one has left the counter.           *)
(***************************************************************************)
EXTENDS CpuRun, Programs

CONSTANT MaxSteps        \* no run starts after so many steps

MCImages ==
  ImagesOf(Byte, {\h00, \hFF}, {\h99}, {\hF1}, {<<\hFF, \h02>>})

BoundedNext ==
  \/ RunLoop
  \/ global_cycle_count < MaxSteps /\ \E n \in Budgets : cpu_run(n)
  \/ /\ ~ run.active /\ global_cycle_count = 0
     /\ cpu_nmi
     /\ UNCHANGED <<run, spent>>

BoundedSpec == RunInit /\ [][BoundedNext]_runVars /\ WF_runVars(RunLoop)
=============================================================================
