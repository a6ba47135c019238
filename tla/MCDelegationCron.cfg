SPECIFICATION MCSpec
CONSTANTS
  lead = lead
  worker = worker
  NoAgent = NoAgent
  NoCorr = NoCorr
  NoKey = NoKey
  Agents = {lead, worker}
  Lead = lead
  AgentOf <- MCAgentOf
  Corrs = {c1, c2, c3}
  Ids <- MCIds
  Keys = {c1, c2, c3}
  DelegateKeys = {c1, c2, c3}
  KeyCorr <- MCKeyCorr
  Envelopes <- MCEnvelopes
  MaxInbox = 4
  MaxDeadLetters = 1
  MaxContext = 2
  MaxSeen = 1
  MaxPublishes = 12
  JobIds = {j1, j2}
  NoJob = NoJob
  n1 = n1
  padded = padded
  Names = {n1, padded}
  Trimmed <- MCTrimmed
  NoName = NoName
  Schedules <- MCSchedules
  Editors = {e1, e2}
  CliUsers = {u1}
  Slots = {s1}
  Runners = {r1}
  Nobody = Nobody
  Keep = Keep
  Adds <- MCAdds
  Patches <- MCPatches
  MaxTasks = 2
  Retries = 1
  HistoryLimit = 1
  InitialTables <- MCTables
  MaxNow = 2
  MaxEvents = 2
INVARIANTS
  StateMatchesCall
  LeadReadsInOrder
  UniqueNames
  RunsApart
  OneShotAccounting
  HistoryFollowsJobs
PROPERTIES
  ImplementsStates
  DueRunKept
  RemovedStaysRemoved
  
CHECK_DEADLOCK FALSE
