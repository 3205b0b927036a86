SPECIFICATION FeedSpec
CONSTANTS
  a = a
  b = b
  Prefix = {a, b}
  Peer = {p, q}
  p = p
  q = q
  SessionIDs = {0, 1}
  Update <- Updates
  Reports = {"QUEUES_STATUS"}
  QueueSize = 2
  MaxMessages = 3
  UINT_MAX = 4
  FirstNumber = 3
  XML_BUFFER_LEN = 25
SYMMETRY Peers
INVARIANTS
  
  Framed
CHECK_DEADLOCK FALSE
