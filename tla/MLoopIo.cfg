SPECIFICATION FairSpec
CONSTANTS
  Nobody = Nobody
  NullCb = {}
  Timers = {}
  Events = {}
  Procs = {}
  Ios = {r1, r2, f1}
  Readers = {r1, r2}
  Writers = {}
  Sockets = {r1}
  MaxBatch = 2
  Msecs = {1}
  MaxNow = 0
  MaxTime = 1
  IntHalf = 2
  MaxPid = 0
  RerunCancelled = FALSE
  MaxEpollTimeout = 1
  MaxRuns = 1
INVARIANTS
  IoListConsistent
  EofAfterData
PROPERTIES
  FilesServed
