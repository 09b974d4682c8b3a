CONSTANTS
  Key = {k1, k2, k3}
  Value = {1, 2}
  HashMax = 4
  InitCap = 4
  MinLoad = 20
  MaxLoad = 75
  MaxCap = 8
  AnyAdd = TRUE
SPECIFICATION Spec
PROPERTY RemovedIsGone
