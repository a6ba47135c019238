SPECIFICATION SubAgentsSpec
CONSTANTS
  Sessions = {s1, s2}
  MaxConcurrent = 1
INVARIANTS
  KillStopsTask
CHECK_DEADLOCK FALSE
