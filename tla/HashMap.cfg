SPECIFICATION Spec
CONSTANTS
  k1 = k1
  k2 = k2
  k3 = k3
  k4 = k4
  k5 = k5
  node = node
  other = other
  Keys <- Keys_five
  Vals = {node, other}
  NULL = NULL
  Hash <- Hash_colliding
  InitCapacity = 2
  MaxCount = 8
CHECK_DEADLOCK FALSE
INVARIANTS TypeOK KeysFit KeysOnce
PROPERTY IsAMap
