CONSTANTS
  MAX_INTERRUPT_HISTORY = 1
  COUNT_MOD = 64
  CYCLES_MOD = 128
  RAM <- ProgramRAM
  ROM <- VectorROM
  Images <- MCImages
  Variants = {"CPU_VARIANT_NMOS_6502", "CPU_VARIANT_CMOS_65C02"}
  MaxSteps = 7
SPECIFICATION BoundedSpec
INVARIANTS VariantsDifferAsDocumented
CHECK_DEADLOCK FALSE
