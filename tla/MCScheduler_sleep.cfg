SPECIFICATION Spec
CONSTANTS
  Idle = idle
  First = first
  Tasks = {first, c1, c2}
  SleepTail = sleepTail
  NoTask = noTask
  TimeSlice = 2
  SleepMs = {0, 1}
  GdtSlots = 4
  TickWrap = 8
  WalkVisitsTail = TRUE
  SleepByAddress = TRUE
PROPERTY SleepSuspends
CHECK_DEADLOCK FALSE
