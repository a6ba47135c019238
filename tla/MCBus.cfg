SPECIFICATION MCSpec
CONSTANTS
  a1 = a1
  a2 = a2
  c1 = c1
  c2 = c2
  notes = notes
  state1 = state1
  output1 = output1
  state2 = state2
  broken = broken
  NoAgent = NoAgent
  NoCorr = NoCorr
  NoKey = NoKey
  Agents = {a1, a2}
  Ids = {m1, m2}
  Corrs = {c1, c2}
  Keys = {notes, state1, output1, state2, broken}
  DelegateKeys = {state1, output1, state2, broken}
  KeyCorr <- MCKeyCorr
  Envelopes <- MCEnvelopes
  MaxInbox = 2
  MaxDeadLetters = 2
  MaxContext = 2
  MaxSeen = 0
  MaxPublishes = 4
SYMMETRY MessageSymmetry
INVARIANTS
  TypeOK
  OrderedInboxes
  DedupeWindow
  BookkeepingExact
  DeadLetterAccounting
  LockedUntilEviction
  ContextIndexesExact
PROPERTIES
  ImplementsMailboxes
  EvictsOnlyOldest
