SPECIFICATION FairSpec
CONSTANTS
  Main = main
  Workers = {w1, w2, w3}
  Ticks = 2
  InitValue = 1
  ValueWrap = 3
  Waiters = {main, w1, w2, w3}
  Signallers = {w3}
  MaxSignals = 2
INVARIANTS
  OneListPerThread
  NoLostWakeup
  PermitsRespected
  HeldTickAnswered
PROPERTY ReadyThreadRuns
CHECK_DEADLOCK FALSE
