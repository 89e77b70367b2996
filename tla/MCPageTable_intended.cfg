SPECIFICATION Spec
CONSTANTS
  Entries = 4
  FrameCount = 10
  KernelStart = 1
  KernelFreeEnd = 12
  UserStart = 3
  KernelLimit = 20
  KernelMap <- MapAll
  Calls = {"copy", "destroy"}
  MaxProcs = 2
  Addrs = {12, 13}
  KernelDir = kernelDir
  None = none
VIEW UsedPart
INVARIANTS
  KernelKept
  NoPageShared
  NothingLeaked
CHECK_DEADLOCK FALSE
