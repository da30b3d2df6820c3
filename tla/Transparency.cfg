CONSTANTS
  MAX_INTERRUPT_HISTORY = 1
  COUNT_MOD = 1
  CYCLES_MOD = 1
  RAM <- MCRAM
  ROM <- MCROM
  Images <- MCImages
  Variants = {"CPU_VARIANT_NMOS_6502", "CPU_VARIANT_CMOS_65C02"}
  MaxNmis = 2
  MainLoop = 32776
  MaxDepth = 6
SPECIFICATION FairSpec
INVARIANTS Transparent
PROPERTIES Resumes WokenResumes
