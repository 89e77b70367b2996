SPECIFICATION Spec
CONSTANTS
  Clients = {p, q}
  Count = 3
  KernelLimit = 3
  UserStart = 1
  KernelBase = 2
  AddrPages = 16
  Sizes = {1}
  Locked = FALSE
INVARIANT NoDoubleAllocation
