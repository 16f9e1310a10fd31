SPECIFICATION Spec
CONSTANTS
  DayLength = 11
  Interval = 3
  WindowStart = 3
  WindowEnd = 7
  Grace = 1
  TradingDays = {0}
  UnknownDays = {2}
  Horizon = 32
CHECK_DEADLOCK FALSE
INVARIANTS OnePerSlot NoSlotSleptThrough
