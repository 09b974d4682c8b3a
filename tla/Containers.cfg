CONSTANTS
  Key = {1, 2, 3, 4, 5, 6, 7}
  Item = {1, 2}
  Kinds = {"rbtree", "avl", "queue", "stack", "array", "strings", "pool"}
  InitCap = 1
  MaxLen = 5
  Sso = 3
  IndexMod = 8
  PoolCap = 2
  MaxGen = 2
SPECIFICATION Spec
INVARIANTS
  TypeOK
  Sound
  ValidatorAgrees
PROPERTIES
  Refinement
  FixupEnds
CHECK_DEADLOCK FALSE
