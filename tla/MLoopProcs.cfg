SPECIFICATION FairSpec
CONSTANTS
  Nobody = Nobody
  NullCb = {p2}
  Timers = {}
  Events = {}
  Procs = {p1, p2}
  Ios = {}
  Readers = {}
  Writers = {}
  Sockets = {}
  MaxBatch = 1
  Msecs = {1}
  MaxNow = 1
  MaxTime = 1
  IntHalf = 2
  MaxPid = 3
  RerunCancelled = FALSE
  MaxEpollTimeout = 1
  MaxRuns = 1
INVARIANTS
  ProcListConsistent
PROPERTIES
  ZombieReaped
  CancelledProcDone
  SleepsOnlyWhenIdle
