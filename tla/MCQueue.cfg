SPECIFICATION Spec
CONSTANTS
  QUEUE_MAX_ITEMS = 3
  MAX_QUEUE_READERS = 2
  MAX_QUEUE_WRITERS = 2
  newPacingEnable = TRUE
  pacingOnThresh = 50
  pacingOffThresh = 25
  alpha = 25
  minWritesPerInterval = 1
  pacingInterval = 1
  QUEUE_MIN_WRITES_LIMIT = 1
  MaxTail = 4
  MaxElapsed = 2
  MaxPerInterval = 1
  SpareWriter = TRUE
INVARIANTS
  TypeOK
  RefCounts
  BuffersIntact
  NeverStillFull
  NoLostWakeup
PROPERTIES
  ImplementsPubSub
CHECK_DEADLOCK FALSE
