CONSTANTS
  Var = {a, b, c}
  Base = 4
  Size = 25
  Requests = {1, 9}
  Alignments = {2, 4}
  MaxStale = 1
SPECIFICATION Spec
INVARIANT UsedMemoryAdds
CHECK_DEADLOCK FALSE
