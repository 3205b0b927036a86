CONSTANTS
  Conns = {c1, c2}
  Address <- MCAddress
  Tuples <- MCTuples
  MaxSlots = 2
  MaxWriters = 4
  MaxMrts = 2
  MaxItems = 4
SYMMETRY MCSymmetry
SPECIFICATION Spec
INVARIANTS WritesWhatIsFollowed NotLeftEstablished
CHECK_DEADLOCK FALSE
