CONSTANTS
  SPACE = 4
  UINT32 = 16
  MAX_BREAKPOINTS = 2
  MAX_WATCHPOINTS = 2
  Types = {"EXEC", "ACCESS"}
  Pointers = {1, 2}
  Name <- MCName
  Value = {0, 1}
  MaxCount = 3
  Hosts <- MCHosts
SPECIFICATION DebuggerSpec
INVARIANTS LabelsOwned SearchIsExact HotspotsAreTop
PROPERTIES ChecksFollowCalls ImplementsBreakpointList ImplementsWatchpointList
