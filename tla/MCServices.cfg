SPECIFICATION MCSpec
CONSTANTS
  c1 = c1
  c2 = c2
  t1 = t1
  s1 = s1
  s2 = s2
  a1 = a1
  a2 = a2
  k1 = k1
  k2 = k2
  elf = elf
  big = big
  lite = lite
  cla = cla
  alice = alice
  relay = relay
  Sessions = {s1, s2}
  MaxConcurrent = 1
  JobCalls = {c1, c2, s1}
  MaxJobs = 1
  Scopes = {alice, relay}
  Telegram = {alice}
  MaxMessages = 3
  QueueCapacity = 2
  MaxInFlight = 2
  Asks = {photo, note}
  Images = {photo}
  MaxHistory = 4
  KeepLast = 2
  MaxClears = 2
  ModelCalls = {c1}
  Chain <- MCChain
  Providers <- MCProviders
  Elfgate = elf
  ProxyOnly = {cla}
  Remaps <- MCRemaps
  MaxRetries = 1
  ToolCalls = {c1, c2}
  Tools = {t1}
  ToolOf <- MCToolOf
  AskerOf <- MCAskerOf
  Approvers = {a1, a2}
  NoTool = NoTool
  MaxResolved = 1
  MaxCommands = 2
  Components = {s1, s2}
  Listeners = {s2}
  InitialBackoff = 2
  MaxBackoff = 7
  MaxEnds = 3
  Costs = {1}
  DaysPerMonth = 2
  MaxDay = 2
  MaxRecords = 4
CHECK_DEADLOCK FALSE
INVARIANTS
  SlotsBounded
  NoLeakedSlot
  OvershootBounded
  EntryIsLive
  NoneEscapes
  OneTurnAtATime
  ShutdownDrains
  EndedTurnsClosed
  GivesUpOnlyAtTheEnd
  NotAskedAgain
  OneQuestion
  DecisionUsedOnce
  BackoffFollowsFailures
  TotalsOneTooHighAtMost
PROPERTIES
  StatusSteps
  QueueAnswered
  SlotsFreed
  MessagesEnd
  TurnsMindTheirOwn
  CallEnds
  CallAnswered
