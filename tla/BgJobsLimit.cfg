SPECIFICATION JobsSpec
CONSTANTS
  JobCalls = {c1, c2, c3}
  MaxJobs = 1
INVARIANTS
  LimitKept
CHECK_DEADLOCK FALSE
