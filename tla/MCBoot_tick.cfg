SPECIFICATION FairBoot
CONSTANTS
  Idle = idle
  First = first
  Tasks = {first, c1, c2}
  SleepTail = sleepTail
  NoTask = noTask
  TimeSlice = 2
  SleepMs = {0, 1}
  GdtSlots = 3
  TickWrap = 8
  WalkVisitsTail = TRUE
  SleepByAddress = TRUE
  CallsFirstInit = FALSE
PROPERTY TickAcknowledged
CHECK_DEADLOCK FALSE
