CONSTANTS
  ADDR_SPACE = 4
  MAX_MEM_REGIONS = 2
  MemByte = {0, 1}
  Blobs <- MCBlobs
  IoHandlers <- MCIoHandlers
  BUF_SIZE = 2
  UINT32 = 8
  BYTE = 2
  RESET_VECTOR = 2
  CPU_TEST_RUN_LIMIT = 2
  Defaults <- MCDefaults
  SampleRom <- MCSample
  Argvs <- MCArgvs
  Strtol <- MCStrtol
  Files <- MCFiles
SPECIFICATION MachineSpec
INVARIANT CrossingRejected
CHECK_DEADLOCK FALSE
