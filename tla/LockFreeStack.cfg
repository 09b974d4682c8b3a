CONSTANTS
  Pusher = {p1, p2}
  Popper = {q1, q2}
  Rounds = 2
  Cap = 2
  Fenced = TRUE
SPECIFICATION FairSpec
INVARIANTS
  TypeOK
  PendingIsLock
PROPERTIES
  Refinement
  TestEnds
