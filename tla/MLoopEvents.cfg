SPECIFICATION FairSpec
CONSTANTS
  Nobody = Nobody
  NullCb = {}
  Timers = {t1}
  Events = {e1, e2}
  Procs = {}
  Ios = {}
  Readers = {}
  Writers = {}
  Sockets = {}
  MaxBatch = 1
  Msecs = {1}
  MaxNow = 1
  MaxTime = 1
  IntHalf = 2
  MaxPid = 0
  RerunCancelled = FALSE
  MaxEpollTimeout = 1
  MaxRuns = 1
INVARIANTS
  EventListConsistent
PROPERTIES
  SleepsOnlyWhenIdle
  FiredEventHandled
  StopTerminates
