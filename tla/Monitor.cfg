CONSTANTS
  CYCLES_MOD = 7
  UINT64 = 32
  SECOND = 1
  RATE_LIMIT = 10
  CYCLE_HISTORY_SIZE = 2
  AVERAGED = 1
  PERCENT = 2
  MAX_ELAPSED = 2
  PCs = {0, 1}
  StepCycles = {1}
  RESET_CYCLES = 1
  INSTRUCTIONS_PER_FRAME = 2
  LOG_EVERY = 2
  INSTRUCTION_LOG_SIZE = 2
  INSTRUCTION_LOG_DISPLAY = 2
  SAMPLE_MS = 2
  Elapsed = {1, 2}
SPECIFICATION MonitorSpec
INVARIANTS FramesObeyKeys SpeedIsReal
PROPERTIES LogShowsRecent QuitIsHeeded
CHECK_DEADLOCK FALSE
