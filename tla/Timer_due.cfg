SPECIFICATION Spec
CONSTANTS
  Timers = {t1, t2}
  SetWhileDue = TRUE
  MaxSets = 2
  MaxTicks = 2
INVARIANTS
  TotalPositive
CHECK_DEADLOCK FALSE
