SPECIFICATION Spec
CONSTANTS
  Scopes = {alice}
  Telegram = {alice}
  MaxMessages = 3
  QueueCapacity = 2
  MaxInFlight = 2
INVARIANTS
  StopReaches
CHECK_DEADLOCK FALSE
