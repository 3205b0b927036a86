SPECIFICATION Spec
CONSTANTS
  a = a
  m1 = m1
  m2 = m2
  path1 = path1
  path2 = path2
  path3 = path3
  attr1 = attr1
  attr2 = attr2
  V4 = {a}
  Mp = {m1, m2}
  Paths = {path1, path2, path3}
  Attrs = {attr1, attr2}
  NoAttr = NoAttr
  Keys <- MCKeys
  NumBuckets = 2
  Hash <- MCHash
  Room = 1
  MaxPrefixes = 2
  MaxHollow = 1
  NULL = NULL
INVARIANTS RefsAgree NodesUsedAreLive TransferComplete
PROPERTIES ImplementsRib
