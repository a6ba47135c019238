SPECIFICATION HistoriesSpec
CONSTANTS
  Asks = {photo, note}
  Images = {photo}
  MaxHistory = 4
  KeepLast = 2
  MaxClears = 1
INVARIANTS
  FailedImageGone
CHECK_DEADLOCK FALSE
