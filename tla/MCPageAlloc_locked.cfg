SPECIFICATION Spec
CONSTANTS
  Clients = {p, q}
  Count = 5
  KernelLimit = 4
  UserStart = 2
  KernelBase = 2
  AddrPages = 16
  Sizes = {1, 2}
  Locked = TRUE
SYMMETRY ClientSymmetry
INVARIANTS
  NoDoubleAllocation
  BitmapExact
  SearchIsFirstFit
