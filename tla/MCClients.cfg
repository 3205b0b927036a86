CONSTANTS
  Order <- MCOrder
  Ports = {1, 2, 3}
  InUse = {3}
  Configured <- MCConfigured
  MaxClients = 2
  MaxFd = 5
  MaxOthers = 1
  MaxIDs = 2
  MaxEvents = 2
SPECIFICATION FairSpec
PROPERTIES ListensWhereTold Answered KilledEnds
CHECK_DEADLOCK FALSE
