SPECIFICATION FairSpec
CONSTANTS
  Main = main
  Tasks = {main, t1, t2, t3}
  NoTask = noTask
  Slots = {3, 6, 7}
  Slice = 2
INVARIANTS
  NeverRunsHalfMade
  PidsDistinct
  DescriptorOwned
PROPERTIES
  ReadyIsRoundRobin
  EveryTaskRuns
CHECK_DEADLOCK FALSE
