SPECIFICATION FairSpec
CONSTANTS
  p = p
  Peer = {p}
  MaxThreads = 2
  MAX_SESSION_IDS = 1
  MaxBorn = 2
  QueueSize = 2
  TableSize = 1
  Commands = {"clear", "disable", "enable", "delete", "launch", "label"}
  MaxEvents = 2
  RouteRefresh = TRUE
  Transfers = TRUE
CONSTRAINT
  SlotsTakenOnce
INVARIANTS
  OwnSession
  LabelSafe
  UpdatesToOwnRib
  EndsTheRightSession
PROPERTIES
  NoTableLeaked
  Reclaimed
CHECK_DEADLOCK FALSE
