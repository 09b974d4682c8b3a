CONSTANTS
  Key = {1, 2, 3, 4, 5, 6, 7, 8, 9, 10}
  Item = {1}
  Kinds = {"rbtree"}
  InitCap = 1
  MaxLen = 1
  Sso = 3
  IndexMod = 8
  PoolCap = 2
  MaxGen = 0
SPECIFICATION Spec
INVARIANTS
  RemovalRestores
CHECK_DEADLOCK FALSE
