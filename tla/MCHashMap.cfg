SPECIFICATION FairSpec
CONSTANTS
  a = a
  b = b
  c = c
  d = d
  e = e
  Keys <- MCKeys
  Values = {v1, v2}
  Hash <- MCHash
  InitSize = 2
  k_max_load_factor = 0
  k_resizing_work = 3
INVARIANTS
  TypeOK
  NodesInOwnBucket
  KeysUnique
  SizesExact
  CursorOK
  LoadBounded
PROPERTIES
  ImplementsKVStore
  CommandEnds
CHECK_DEADLOCK FALSE
