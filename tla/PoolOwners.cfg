CONSTANTS
  Thread = {t1, t2}
  Cap = 3
  IdxMod = 4
  MaxGen = 2
  Overcommit = FALSE
SPECIFICATION FairSpec
INVARIANTS
  TypeOK
  UniqueOwner
  NoSlotLost
  OwnedHandlesValid
PROPERTIES
  Refinement
  RecycledComesBack
