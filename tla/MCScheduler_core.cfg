SPECIFICATION PreemptiveSpec
CONSTANTS
  Idle = idle
  First = first
  Tasks = {first, c1, c2}
  SleepTail = sleepTail
  NoTask = noTask
  TimeSlice = 2
  SleepMs = {0, 2}
  GdtSlots = 4
  TickWrap = 1
  WalkVisitsTail = FALSE
  SleepByAddress = FALSE
INVARIANTS
  RunningIsHead
  QueuesExclusive
  NoTaskLost
  SleepersParked
  OneTickPending
  IdleCanBeWoken
  TaskListComplete
PROPERTIES
  ReadyIsRoundRobin
  ReadyTaskRuns
  SleeperWakes
CHECK_DEADLOCK FALSE
