------------------------- MODULE MCVariantLockstep -------------------------
(* Every documented opcode, after a prologue that sets the registers. *)
EXTENDS VariantLockstep, Programs

CONSTANT MaxSteps        \* steps per program: the prologue and the opcode

MCImages ==
  ImagesOf(Official, {\h00, \h09, \hFF}, {\h99, \h7F, \h00}, {\h00, \hF1},
           {<<\h10, \h02>>, <<\hFF, \h02>>})

BoundedLockstep == global_cycle_count < MaxSteps /\ Lockstep

BoundedSpec == LInit /\ [][BoundedLockstep \/ Sync]_lvars
=============================================================================
