CONSTANTS
  MAX_INTERRUPT_HISTORY = 2
  COUNT_MOD = 2
  Pcs <- MCPcs
  Statuses <- MCStatuses
SPECIFICATION Spec
INVARIANTS IndexFollowsTotals RingFillsFromZero IrqsWereUnmasked
PROPERTIES NmiNeverDropped DumpShowsRecentEvents
