SPECIFICATION TcpFairSpec
CONSTANTS
  Nobody = Nobody
  NullCb = {}
  Timers = {te}
  Events = {}
  Procs = {}
  Ios = {ls, ce, ci, c1, c2}
  Readers = {ci, c1, c2}
  Writers = {ce}
  Sockets = {ls, ce, ci, c1, c2}
  MaxBatch = 5
  Msecs = {1}
  MaxNow = 1
  MaxTime = 2
  IntHalf = 3
  MaxPid = 0
  RerunCancelled = FALSE
  MaxEpollTimeout = 1
  MaxRuns = 1
  Listener = ls
  Conns = {c1, c2}
  Backlog = 2
  ConnEvt = ce
  ClientIo = ci
  TimeEvt = te
  ConnTimeout = 1
  OurConn = c1
  Silent = {c2, ci}
INVARIANTS
  ServerConsistent
  ClientConsistent
PROPERTIES
  HangupCloses
  ConnectAnswered
