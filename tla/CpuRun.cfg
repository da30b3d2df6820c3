CONSTANTS
  MAX_INTERRUPT_HISTORY = 1
  COUNT_MOD = 16
  CYCLES_MOD = 32
  RAM <- ProgramRAM
  ROM <- VectorROM
  Images <- MCImages
  Variants = {"CPU_VARIANT_NMOS_6502", "CPU_VARIANT_CMOS_65C02"}
  Budgets = {4, 23}
  MAX_STEP_CYCLES = 9
  MaxSteps = 3
SPECIFICATION BoundedSpec
INVARIANTS BudgetKept
PROPERTIES RunReturns DisassemblyFollowsPC WritesCostBaseCycles
CHECK_DEADLOCK FALSE
