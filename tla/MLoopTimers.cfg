SPECIFICATION FairSpec
CONSTANTS
  Nobody = Nobody
  NullCb = {t3}
  Timers = {t1, t2, t3}
  Events = {}
  Procs = {}
  Ios = {}
  Readers = {}
  Writers = {}
  Sockets = {}
  MaxBatch = 1
  Msecs = {1, 2}
  MaxNow = 2
  MaxTime = 2
  IntHalf = 3
  MaxPid = 0
  RerunCancelled = FALSE
  MaxEpollTimeout = 2
  MaxRuns = 1
INVARIANTS
  TimerListConsistent
  TimersSorted
PROPERTIES
  RearmedWaits
  TimersAreAService
  DueTimerServed
