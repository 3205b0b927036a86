SPECIFICATION FairSpec
CONSTANTS
  QUEUE_MAX_ITEMS = 2
  MAX_QUEUE_READERS = 2
  MAX_QUEUE_WRITERS = 1
  newPacingEnable = FALSE
  pacingOnThresh = 100
  pacingOffThresh = 75
  alpha = 25
  minWritesPerInterval = 1
  pacingInterval = 1
  QUEUE_MIN_WRITES_LIMIT = 1
  MaxTail = 4
  MaxElapsed = 1
  MaxPerInterval = 2
  SpareWriter = FALSE
PROPERTIES
  WaiterReads
  WriteReturns
