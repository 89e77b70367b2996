SPECIFICATION Spec
CONSTANTS
  Entries = 6
  FrameCount = 8
  KernelStart = 1
  KernelFreeEnd = 2
  UserStart = 3
  KernelLimit = 20
  KernelMap <- MapAll
  Calls = {"copy", "destroy"}
  MaxProcs = 2
  Addrs = {12, 13}
  KernelDir = kernelDir
  None = none
INVARIANTS
  KernelKept
CHECK_DEADLOCK FALSE
