SPECIFICATION FairSpec
CONSTANTS
  Scopes = {alice}
  Telegram = {alice}
  MaxMessages = 3
  QueueCapacity = 2
  MaxInFlight = 2
PROPERTIES
  StopAnswered
CHECK_DEADLOCK FALSE
