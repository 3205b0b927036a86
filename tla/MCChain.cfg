CONSTANTS
  Users = {u1, u2}
  Addrs = {1, 2}
  Configured <- MCConfigured
  Origins = {1}
  MaxSlots = 2
  MaxStructs = 2
  MaxThreads = 2
  MaxFd = 5
  MaxCommands = 2
  MaxFailures = 1
SPECIFICATION FairSpec
INVARIANTS OneForwarder ConnectionsIntact
PROPERTY Obeys
CHECK_DEADLOCK FALSE
