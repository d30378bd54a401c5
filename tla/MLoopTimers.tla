----------------------------- MODULE MLoopTimers ----------------------------
(***************************************************************************)
(* The timers of the main loop: mloop_timer_* and _handle_timers in        *)
(* src/mloop.c, the MlTimer objects of src/mloop/timer.c.                  *)
(*                                                                         *)
(* An application that uses a timer after it was deleted, or that asks for *)
(* "the previous time" of a timer that never had one, is outside of the    *)
(* contract of masc/mloop.h and is not modelled.                           *)
(***************************************************************************)
EXTENDS MLoopCore, MascList

CONSTANTS
  Timers,   (* the MlTimer objects                                         *)
  Msecs,    (* the positive msec arguments the application uses            *)
  MaxTime,  (* BOUND: no timer is armed for a time beyond it               *)
  IntHalf   (* an int holds -IntHalf .. IntHalf - 1 (2^31 in the build)    *)

ASSUME TimerAssumption ==
  /\ Nobody \notin Timers
  /\ Msecs \subseteq Nat \ {0}
  /\ MaxTime \in Nat
  /\ IntHalf \in Nat \ {0}

VARIABLES
  timers,        (* static List timers                                     *)
  timerAlive,    (* which MlTimer objects are initialised and not freed    *)
  timerPending,  (* MlTimer.pending                                        *)
  timerTime,     (* MlTimer.time, the absolute time it is armed for        *)
  timerMsec,     (* MlTimer.msec, the relative time last asked for         *)
  snap,          (* the local variable time of _handle_timers              *)
  armOrder,      (* HISTORY: the armed timers, the one armed last at the end *)
  rearmed        (* HISTORY: the timers that mloop_timer_in or _new armed  *)
                 (* since the current pass of _handle_timers began         *)

timerVars == <<timers, timerAlive, timerPending, timerTime, timerMsec, snap,
               armOrder, rearmed>>

TimersInit ==
  /\ timers = <<>>
  /\ timerAlive = [t \in Timers |-> FALSE]
  /\ timerPending = [t \in Timers |-> FALSE]
  /\ timerTime = [t \in Timers |-> 0]
  /\ timerMsec = [t \in Timers |-> 0]
  /\ snap = 0
  /\ armOrder = <<>>
  /\ rearmed = {}

-----------------------------------------------------------------------------
\* The conversion of an unsigned long difference to int.
IntCast(d) ==
  IF d \in -IntHalf .. IntHalf - 1 THEN d
  ELSE ((d + IntHalf) % (2 * IntHalf)) - IntHalf

Disarmed(order, t) == RemoveFirst(order, t)

\* PLANTED BUG: _timer_set leaves a pending timer in the list.
StillListed(t) == timers

\* The list without t, as mloop_timer_cancle leaves it.
Cancelled(t) ==
  IF timerPending[t] THEN ListRemove(timers, t) ELSE timers

\* The msec a timer keeps when it is armed with argument m (0: less than 1).
Period(t, m) == IF m > 0 THEN m ELSE timerMsec[t]

\* PLANTED BUG: the timer goes in front of those that compare equal.
TimerOrderFront(list, t, time) ==
  ListSortIn(list, t, {other \in Timers : time[other] >= time[t]})

\* list_sort_in with ml_timer_cmp, where time maps each timer to its absolute time.
TimerOrder(list, t, time) ==
  ListSortIn(list, t, {other \in Timers : IntCast(time[other] - time[t]) > 0})

\* PLANTED BUG: the timer is put into the list before it takes the new time.
TimerSetLate(t, time) ==
  /\ time <= MaxTime
  /\ timerTime' = [timerTime EXCEPT ![t] = time]
  /\ timerPending' = [timerPending EXCEPT ![t] = TRUE]
  /\ timers' = TimerOrder(Cancelled(t), t, timerTime)
  /\ armOrder' = Append(Disarmed(armOrder, t), t)

\* _timer_set of an initialised loop: leave the list, take the new time, and
\* go back into the list where ml_timer_cmp wants it.
TimerSet(t, time) ==
  LET timeNow == [timerTime EXCEPT ![t] = time] IN
  /\ time <= MaxTime
  /\ timerTime' = timeNow
  /\ timerPending' = [timerPending EXCEPT ![t] = TRUE]
  /\ timers' = TimerOrder(Cancelled(t), t, timeNow)
  /\ armOrder' = Append(Disarmed(armOrder, t), t)

\* What becomes of a deleted timer's memory: all fields as in a fresh one.
TimerFreed(t) ==
  /\ timerAlive' = [timerAlive EXCEPT ![t] = FALSE]
  /\ timerPending' = [timerPending EXCEPT ![t] = FALSE]
  /\ timerTime' = [timerTime EXCEPT ![t] = 0]
  /\ timerMsec' = [timerMsec EXCEPT ![t] = 0]

NotRearmed(t) == rearmed' = rearmed \ {t}

Rearmed(t) ==
  rearmed' = IF pc = "timers" THEN rearmed \cup {t} ELSE rearmed

-----------------------------------------------------------------------------
\* ml_timer_init or ml_timer_new: a timer that is not armed.
TimerInit(t) ==
  /\ UserCode
  /\ ~timerAlive[t]
  /\ timerAlive' = [timerAlive EXCEPT ![t] = TRUE]
  /\ UNCHANGED <<coreVars, timers, timerPending, timerTime, timerMsec, snap,
                 armOrder, rearmed>>

\* mloop_timer_new(m, ...) with m > 0.
TimerNew(t, m) ==
  /\ UserCode
  /\ initialised
  /\ ~timerAlive[t]
  /\ timerAlive' = [timerAlive EXCEPT ![t] = TRUE]
  /\ timerMsec' = [timerMsec EXCEPT ![t] = m]
  /\ TimerSet(t, now + m)
  /\ Rearmed(t)
  /\ UNCHANGED <<coreVars, snap>>

\* What mloop_timer_in and mloop_timer_add share: the new msec is kept even
\* if the loop is not initialised, the timer is armed only if it is.
Retrigger(t, m, time) ==
  /\ UserCode
  /\ timerAlive[t]
  /\ Period(t, m) > 0
  /\ timerMsec' = [timerMsec EXCEPT ![t] = Period(t, m)]
  /\ IF initialised
     THEN TimerSet(t, time)
     ELSE UNCHANGED <<timers, timerPending, timerTime, armOrder>>
  /\ UNCHANGED <<coreVars, timerAlive, snap>>

\* mloop_timer_in
TimerIn(t, m) == Retrigger(t, m, now + Period(t, m)) /\ Rearmed(t)

\* mloop_timer_add, of a timer that has a previous absolute time.
TimerAdd(t, m) ==
  /\ timerTime[t] > 0
  /\ Retrigger(t, m, timerTime[t] + Period(t, m))
  /\ NotRearmed(t)

\* mloop_timer_cancle of a pending timer (it does nothing to any other).
TimerCancel(t) ==
  /\ UserCode
  /\ initialised
  /\ timerAlive[t]
  /\ timerPending[t]
  /\ timers' = Cancelled(t)
  /\ timerPending' = [timerPending EXCEPT ![t] = FALSE]
  /\ armOrder' = Disarmed(armOrder, t)
  /\ NotRearmed(t)
  /\ UNCHANGED <<coreVars, timerAlive, timerTime, timerMsec, snap>>

\* ml_timer_delete, or ml_timer_destroy of a timer that is not on the heap.
TimerDelete(t) ==
  /\ UserCode
  /\ timerAlive[t]
  /\ timers' = Cancelled(t)
  /\ armOrder' = Disarmed(armOrder, t)
  /\ TimerFreed(t)
  /\ NotRearmed(t)
  /\ UNCHANGED <<coreVars, snap>>

-----------------------------------------------------------------------------
\* The loop goes round: _handle_timers reads the time once for the pass.
TimersBegin ==
  /\ At("top")
  /\ running
  /\ GoTo("timers")
  /\ snap' = now
  /\ rearmed' = {}
  /\ UNCHANGED <<timers, timerAlive, timerPending, timerTime, timerMsec,
                 armOrder>>

\* PLANTED BUG: the clock is read again for every timer.
ExpiredByNow == timers # <<>> /\ timerTime[Head(timers)] <= now

Expired == timers # <<>> /\ timerTime[Head(timers)] <= snap

\* The first timer has expired: it leaves the list, is not pending any more
\* and its callback is called; a timer without one is deleted.
ExpireTimer ==
  /\ At("timers")
  /\ running
  /\ Expired
  /\ LET t == Head(timers) IN
     /\ timers' = Tail(timers)
     /\ armOrder' = Disarmed(armOrder, t)
     /\ Call(t)
     /\ IF t \in NullCb
        THEN TimerFreed(t)
        ELSE /\ timerPending' = [timerPending EXCEPT ![t] = FALSE]
             /\ UNCHANGED <<timerAlive, timerTime, timerMsec>>
     /\ NotRearmed(t)
  /\ UNCHANGED <<initialised, running, pc, now, snap>>

\* No timer is left, the first one is not due, or the loop was stopped.
TimersDone ==
  /\ At("timers")
  /\ ~running \/ ~Expired
  /\ GoTo("events")
  /\ snap' = 0
  /\ rearmed' = {}
  /\ UNCHANGED <<timers, timerAlive, timerPending, timerTime, timerMsec,
                 armOrder>>

\* PLANTED BUG: no special case for a timer that is due already.
NextTimerNegative(maxTimeout) ==
  IF timers = <<>> THEN maxTimeout
  ELSE IntCast(timerTime[Head(timers)] - now)

\* _next_timer: how long epoll_wait may sleep, maxTimeout without a timer.
NextTimer(maxTimeout) ==
  IF timers = <<>> THEN maxTimeout
  ELSE LET diff == IntCast(timerTime[Head(timers)] - now)
       IN  IF diff < 0 THEN 0 ELSE diff

\* mloop_destroy: list_destroy deletes the timers that are in the list.
TimersDestroy ==
  LET gone == ToSet(timers) IN
  /\ timers' = <<>>
  /\ armOrder' = <<>>
  /\ timerAlive' = [t \in Timers |-> timerAlive[t] /\ t \notin gone]
  /\ timerPending' = [t \in Timers |-> FALSE]
  /\ timerTime' = [t \in Timers |-> IF t \in gone THEN 0 ELSE timerTime[t]]
  /\ timerMsec' = [t \in Timers |-> IF t \in gone THEN 0 ELSE timerMsec[t]]
  /\ rearmed' = {}
  /\ UNCHANGED snap

-----------------------------------------------------------------------------
TimersTypeOK ==
  /\ timers \in Seq(Timers)
  /\ timerAlive \in [Timers -> BOOLEAN]
  /\ timerPending \in [Timers -> BOOLEAN]
  /\ timerTime \in [Timers -> 0 .. MaxTime]
  /\ timerMsec \in [Timers -> Msecs \cup {0}]
  /\ snap \in 0 .. MaxNow
  /\ armOrder \in Seq(Timers)
  /\ rearmed \in SUBSET Timers

\* The list of timers and the objects agree: a timer is pending exactly when
\* it is in the list, it is there once, and only live timers are: whatever
\* callbacks re-arm, cancel or delete, neither mloop_timer_cancle nor
\* mloop_destroy meets a freed timer (mloop.c:120-158, timer.c:30-40).
TimerListConsistent ==
  /\ IsInjective(timers)
  /\ \A t \in Timers : timerPending[t] <=> t \in ToSet(timers)
  /\ \A t \in Timers : timerPending[t] => timerAlive[t]

\* The list is in the order of the times the timers are armed for, which is
\* what lets _handle_timers and _next_timer look at its first node only.
TimersSorted ==
  \A i, j \in 1 .. Len(timers) :
    i < j => timerTime[timers[i]] <= timerTime[timers[j]]

\* One pass of _handle_timers does not run a timer that was armed by
\* mloop_timer_in during that pass: a callback that keeps retriggering its
\* timer cannot keep the loop from its events, processes and files.
RearmedWaits ==
  [][At("timers") /\ callback' # Nobody => callback' \notin rearmed]_callback
=============================================================================
