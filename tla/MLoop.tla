-------------------------------- MODULE MLoop -------------------------------
(***************************************************************************)
(* The main loop of libmasc (src/mloop.c): mloop_init, mloop_run,          *)
(* mloop_stop and mloop_destroy around its timers, events, processes and   *)
(* files, epoll_wait, and the signals that reach the process.              *)
(***************************************************************************)
EXTENDS MLoopTimers, MLoopEvents, MLoopProcs, MLoopIo

CONSTANTS
  MaxEpollTimeout,  (* MLOOP_MAX_EPOLL_TIMEOUT, 1000 in config.h.in        *)
  MaxRuns           (* BOUND: how often the application calls mloop_run    *)

ASSUME MLoopAssumption ==
  /\ MaxEpollTimeout \in Nat
  /\ MaxRuns \in Nat

\* An object is either a timer, or a file, or another of the loop's objects.
ASSUME ObjectsAssumption ==
  /\ Timers \cap (Events \cup Procs \cup Ios) = {}
  /\ Ios \cap (Events \cup Procs) = {}

VARIABLES
  timeout,  (* the argument of epoll_wait, 0 where there is none           *)
  wakeAt,   (* when epoll_wait times out, Never if its timeout is negative *)
  runs      (* how often mloop_run was called                              *)

pollVars == <<timeout, wakeAt>>
vars == <<coreVars, timerVars, eventVars, procVars, ioVars, pollVars, runs>>

Never == -1

-----------------------------------------------------------------------------
\* mloop_init: empty lists, signal handlers installed.  pending_event and
\* got_sigchld keep their values.
MLoopInit ==
  /\ pc = "idle"
  /\ ~initialised
  /\ initialised' = TRUE
  /\ running' = FALSE
  /\ UNCHANGED <<pc, callback, now, timerVars, eventVars, procVars, ioVars,
                 pollVars,
                 runs>>

\* mloop_destroy: not initialised any more, and everything that is in a list
\* is deleted.
MLoopDestroy ==
  /\ pc = "idle"
  /\ initialised
  /\ initialised' = FALSE
  /\ TimersDestroy
  /\ EventsDestroy
  /\ ProcsDestroy
  /\ IosDestroy
  /\ UNCHANGED <<running, pc, callback, now, pollVars, runs>>

\* mloop_run, called from outside of the loop.
MLoopRun ==
  /\ pc = "idle"
  /\ initialised
  /\ runs < MaxRuns
  /\ runs' = runs + 1
  /\ running' = TRUE
  /\ pc' = "top"
  /\ UNCHANGED <<initialised, callback, now, timerVars, eventVars, procVars,
                 ioVars, pollVars>>

\* The loop's condition is false: mloop_run returns.
LoopExit ==
  /\ At("top")
  /\ ~running
  /\ GoTo("idle")
  /\ UNCHANGED <<timerVars, eventVars, procVars, ioVars,
                 pollVars, runs>>

-----------------------------------------------------------------------------
\* PLANTED BUG: without a timer the loop sleeps until something happens.
CalculateTimeoutForever ==
  IF ~running \/ pendingEvent \/ gotSigchld
  THEN 0
  ELSE IF timers = <<>> THEN Never ELSE NextTimer(MaxEpollTimeout)

\* PLANTED BUG: a SIGCHLD that came after the children were handled is not
\* looked at.
CalculateTimeoutBlind ==
  IF ~running \/ pendingEvent
  THEN 0
  ELSE NextTimer(MaxEpollTimeout)

\* _calculate_timeout
CalculateTimeout ==
  IF ~running \/ pendingEvent \/ gotSigchld
  THEN 0
  ELSE NextTimer(MaxEpollTimeout)

Poll ==
  /\ At("poll")
  /\ GoTo("enter")
  /\ timeout' = CalculateTimeout
  /\ UNCHANGED <<timerVars, eventVars, procVars, ioVars, wakeAt, runs>>

\* epoll_wait starts to wait.
EpollEnter ==
  /\ At("enter")
  /\ GoTo("wait")
  /\ wakeAt' = IF timeout < 0 THEN Never ELSE now + timeout
  /\ timeout' = 0
  /\ UNCHANGED <<timerVars, eventVars, procVars, ioVars, runs>>

\* epoll_wait times out.  A time beyond the bound of the clock never comes:
\* once the clock has stopped, such a wait is over too.
EpollTimeout ==
  /\ At("wait")
  /\ Ready = {}
  /\ wakeAt # Never
  /\ wakeAt <= now \/ now = MaxNow
  /\ GoTo("top")
  /\ UNCHANGED <<timerVars, eventVars, procVars, ioVars,
                 pollVars, runs>>

-----------------------------------------------------------------------------
\* A step of one part leaves the others as they are.
Core(step) ==
  step /\ UNCHANGED <<timerVars, eventVars, procVars, ioVars, pollVars, runs>>
Timer(step) ==
  step /\ UNCHANGED <<eventVars, procVars, ioVars, pollVars, runs>>
Event(step) ==
  step /\ UNCHANGED <<timerVars, procVars, ioVars, pollVars, runs>>
Proc(step) ==
  step /\ UNCHANGED <<timerVars, eventVars, ioVars, pollVars, runs>>
Io(step) ==
  step /\ UNCHANGED <<timerVars, eventVars, procVars, pollVars, runs>>

\* The loop's own steps: one thread, at each place exactly one of them.
LoopStep ==
  \/ LoopExit
  \/ Timer(TimersBegin)
  \/ Timer(ExpireTimer)
  \/ Timer(TimersDone)
  \/ Event(EventsBegin)
  \/ Event(HandleEvent)
  \/ Event(EventsDone)
  \/ Proc(ProcsBegin)
  \/ \E pid \in Pids : Proc(Reap(pid))
  \/ Proc(ProcsDone)
  \/ Poll
  \/ EpollEnter
  \/ EpollTimeout
  \/ Io(EpollReport)
  \/ \E i \in Ios : Io(HandleIo(i))
  \/ Io(ReaderRead)
  \/ Io(ReaderEof)
  \/ Io(ReaderDone)
  \/ Io(IosDone)

\* What the application does before and after mloop_run, or in a callback.
UserStep ==
  \/ MLoopInit
  \/ MLoopDestroy
  \/ MLoopRun
  \/ Core(Stop)
  \/ \E t \in Timers :
       \/ Timer(TimerInit(t))
       \/ \E m \in Msecs : Timer(TimerNew(t, m))
       \/ \E m \in Msecs \cup {0} : Timer(TimerIn(t, m)) \/ Timer(TimerAdd(t, m))
       \/ Timer(TimerCancel(t))
       \/ Timer(TimerDelete(t))
  \/ \E e \in Events :
       \/ Event(EventInit(e))
       \/ Event(EventNew(e))
       \/ Event(EventAdd(e))
       \/ Event(EventRemove(e))
       \/ Event(EventDelete(e))
       \/ Event(EventFire(e))
  \/ \E p \in Procs :
       \/ Proc(ProcNew(p))
       \/ Proc(ProcRerun(p))
       \/ Proc(ProcCancel(p))
       \/ Proc(ProcDelete(p))
  \/ \E i \in Ios :
       \/ Io(IoNew(i))
       \/ Io(IoCancel(i))
       \/ Io(IoDelete(i))
       \/ Io(UserRead(i))

\* What reaches the program from outside.
Signal ==
  \/ Core(SigTerm)
  \/ Proc(SigChld)
  \/ \E e \in Events : Event(SignalFire(e))
  \/ \E pid \in Pids : Proc(ChildExit(pid))
  \/ \E i \in Ios : Io(FileChange(i))

Next == LoopStep \/ Core(Return) \/ UserStep \/ Signal \/ Core(Tick)

Init ==
  /\ CoreInit
  /\ TimersInit
  /\ EventsInit
  /\ ProcsInit
  /\ IosInit
  /\ timeout = 0
  /\ wakeAt = 0
  /\ runs = 0

Spec == Init /\ [][Next]_vars

(***************************************************************************)
(* Fairness.  The thread goes on running: the loop takes its next step, a  *)
(* callback returns (an application whose callback does not return has no  *)
(* loop).  The kernel lets time pass, delivers a pending SIGCHLD and lets  *)
(* a child that was sent SIGKILL end.  epoll_wait hands out ready files in *)
(* turns (epoll_wait(2) on maxevents), so a file that is ready again and   *)
(* again is reported.  Nothing is assumed of the application's calls, of   *)
(* its signals, or of a child nobody killed.                               *)
(***************************************************************************)
Fairness ==
  /\ WF_vars(LoopStep)
  /\ WF_vars(Core(Return))
  /\ WF_vars(Core(Tick))
  /\ WF_vars(Proc(SigChld))
  /\ \A pid \in Pids : WF_vars(child[pid] = "killed" /\ Proc(ChildExit(pid)))
  /\ \A i \in Ios : SF_vars(Io(EpollReport) /\ i \in DOMAIN batch')

FairSpec == Spec /\ Fairness

-----------------------------------------------------------------------------
CoreTypeOK ==
  /\ initialised \in BOOLEAN
  /\ running \in BOOLEAN
  /\ pc \in Labels
  /\ callback \in Timers \cup Events \cup Procs \cup Ios \cup {Nobody}
  /\ now \in 0 .. MaxNow
  /\ timeout \in Int
  /\ wakeAt \in Int
  /\ runs \in 0 .. MaxRuns

\* Every variable of the loop and of its parts has a value of its type.
TypeOK == /\ CoreTypeOK /\ TimersTypeOK /\ EventsTypeOK /\ ProcsTypeOK
          /\ IosTypeOK

-----------------------------------------------------------------------------
\* The timers of the loop are a timer service: a callback is called only for
\* an armed timer whose time has come, in the order of the times, and of the
\* arming among timers armed for the same time (mloop.c:120-132, 361-384).
Service == INSTANCE TimerService WITH
  armed <- armOrder,
  due <- [t \in Timers |-> IF timerPending[t] THEN timerTime[t] ELSE 0],
  clock <- now,
  serving <- IF callback \in Timers THEN callback ELSE Nobody,
  Times <- 0 .. MaxTime,
  NoTimer <- Nobody

TimersAreAService == Service!Spec

\* Once it is stopped, by a callback or by a signal that hits the loop at any
\* point, even between _calculate_timeout and epoll_wait, mloop_run returns.
StopTerminates == (pc # "idle" /\ ~running) ~> (pc = "idle")

\* The loop decides to sleep only when it has nothing to do: it runs, no timer
\* is due, no event is fired, and no terminated child is left whose SIGCHLD
\* was delivered already (mloop.c:403-433, 459-489).
SleepsOnlyWhenIdle ==
  [][timeout' > timeout =>
       /\ running
       /\ \A t \in Timers : timerPending[t] => timerTime[t] > now
       /\ \A e \in Events : ~fired[e]
       /\ \A pid \in Pids : child[pid] = "zombie" => sigchld]_vars

\* While the loop runs, a timer whose time has come is handled (unless it is
\* cancelled or armed for a later time), whatever the other timers do.
DueTimerServed ==
  \A t \in Timers :
    (running /\ timerPending[t] /\ timerTime[t] <= now)
      ~> (~running \/ ~timerPending[t] \/ timerTime[t] > now)

\* While the loop runs, no fire of an added event is lost, no matter at which
\* point of the loop a signal handler or a callback fires it.  This holds if
\* the callbacks do not go on adding events for ever: the iterator also comes
\* to those, and one pass of _handle_events (mloop.c:392) need never end.
FiredEventHandled ==
  <>[][pc = "firing" => Len(events') <= Len(events)]_events =>
    \A e \in Events :
      (running /\ Listed(e) /\ fired[e]) ~> (~running \/ ~Listed(e) \/ ~fired[e])

\* While the loop runs, a terminated child is waited for, however its SIGCHLD
\* coincides with that of another child or with the reaping of one.
ZombieReaped ==
  \A pid \in Pids :
    (running /\ child[pid] = "zombie") ~> (~running \/ child[pid] = "reaped")

\* While the loop runs, a process that was cancelled is reported as done.
CancelledProcDone ==
  \A p \in Procs :
    (running /\ Tracked(p) /\ ~procRunning[p]) ~> (~running \/ ~Tracked(p))

\* Data that a reader's file has received are read.
DataRead ==
  \A i \in Readers :
    (running /\ i \in registered /\ unread[i])
      ~> (~running \/ i \notin registered \/ ~unread[i])

EofReported(S) ==
  \A i \in S :
    (running /\ i \in registered /\ eof[i])
      ~> \/ ~running
         \/ i \notin registered
         \/ callback = i /\ report = {"rdhup"}

\* While the loop runs, a reader is served whatever the other files do: data
\* are read, and that the other end has closed a socket is reported
\* (mloop.c:435-457, ioreader.c:8-39).
FilesServed == DataRead /\ EofReported(Readers \cap Sockets)

=============================================================================
