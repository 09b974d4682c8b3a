CONSTANTS
  Var = {a, b, c}
  Base = 5
  Size = 16
  Requests = {1, 5}
  Alignments = {1, 8}
  PadBits = 3
  MaxAlign = 4
  ChunkSize = 5
  ChunkAlign = 2
  MaskLen = 1
  MaskBits = 2
  BuddyAlign = 1
  L2Log2 = 1
  Bits = 4
  MaxAllocs = 5
  TlsfRequests = {1, 3, 6}
SPECIFICATION Spec
SYMMETRY VarSymmetry
INVARIANTS
  TypeOK
  Aligned
  Sound
  AssertsHold
PROPERTIES
  FitsWell
  Refinement
CHECK_DEADLOCK FALSE
