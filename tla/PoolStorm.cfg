CONSTANTS
  Thread = {t1, t2}
  Cap = 2
  IdxMod = 6
  MaxAllocs = 3
  MaxRecycles = 3
SPECIFICATION Spec
INVARIANTS
  TypeOK
  NoSlotLost
PROPERTIES
  StaleForEver
  AccessibleUntilCleanup
CHECK_DEADLOCK FALSE
