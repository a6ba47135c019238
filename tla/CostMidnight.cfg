SPECIFICATION CostSpec
CONSTANTS
  Costs = {1, 2}
  DaysPerMonth = 2
  MaxDay = 2
  MaxRecords = 2
CHECK_DEADLOCK FALSE
INVARIANTS
  CountedOnce
