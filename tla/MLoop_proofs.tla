---------------------------- MODULE MLoop_proofs ---------------------------
(***************************************************************************)
(* The main loop, for every value of the constants:                        *)
(*   TypeCorrect        every variable has a value of its type;            *)
(*   TimersConsistent   the list and the timers agree at any time;         *)
(*   TimersInOrder      the list is sorted, if no two times are further    *)
(*                      apart than an int can tell;                        *)
(*   RearmedTimersWait  a pass does not run what was armed during it;      *)
(*   TimersServed       the timers of the loop are a timer service, under  *)
(*                      the condition of TimersInOrder;                    *)
(*   EventsConsistent, ProcsConsistent, IosConsistent                      *)
(*                      the other lists agree with their objects;          *)
(*   EofComesLast       a reader hears of the end of its file behind all   *)
(*                      data;                                              *)
(*   SleepsIdle         the loop sleeps only when there is nothing to do.  *)
(*                                                                         *)
(* TimerListConsistent and TimersSorted are inductive together with        *)
(* TypeOK.  RearmedWaits needs a strengthening, RearmedLater: what was     *)
(* armed during the pass is armed for a time after the pass began.  The    *)
(* refinement needs ArmedInOrder: timers that are armed for the same time  *)
(* stand in the list in the order in which they were armed.                *)
(*                                                                         *)
(* Each of the other list invariants is inductive together with TypeOK and *)
(* with what the loop's place or its initialisation says of the part: an   *)
(* iterator or a reported file exists only inside the handler that uses    *)
(* it, and an uninitialised loop has empty lists.                          *)
(***************************************************************************)
EXTENDS MLoop, MascListLemmas

-----------------------------------------------------------------------------
(***************************************************************************)
(* TypeOK is inductive: each step below shows that one action keeps it.    *)
(***************************************************************************)
\* The list operations keep lists of S lists of S.
LEMMA ListTypes ==
  ASSUME NEW S, NEW s \in Seq(S), NEW e
  PROVE  /\ RemoveFirst(s, e) \in Seq(S)
         /\ ListRemove(s, e) \in Seq(S)
         /\ s # << >> => Head(s) \in S /\ Tail(s) \in Seq(S)
         /\ e \in S => Append(s, e) \in Seq(S)
<1>1. RemoveFirst(s, e) \in Seq(S)
  <2>1. CASE e \notin ToSet(s)
    BY <2>1, RemoveFirstAbsent
  <2>2. CASE e \in ToSet(s)
    BY <2>2, RemoveFirstIsRemoveAt, RemoveAtProperties
  <2>3. QED
    BY <2>1, <2>2
<1>2. QED
  BY <1>1, HeadTailProperties, AppendProperties DEF ListRemove

LEMMA IntCastType ==
  ASSUME NEW d \in Int
  PROVE  IntCast(d) \in Int
<1>1. IntHalf \in Nat \ {0}
  BY TimerAssumption
<1>2. (d + IntHalf) % (2 * IntHalf) \in Int
  BY <1>1
<1>3. QED
  BY <1>1, <1>2 DEF IntCast

\* _timer_set puts the timer somewhere into the list.
LEMMA TimerOrderPlace ==
  ASSUME NEW list \in Seq(Timers), NEW t \in Timers, NEW time
  PROVE  \E k \in 1 .. Len(list) + 1 :
           /\ TimerOrder(list, t, time) = InsertAt(list, k, t)
           /\ \A i \in 1 .. Len(list) :
                /\ i < k => ~(IntCast(time[list[i]] - time[t]) > 0)
                /\ i = k => IntCast(time[list[i]] - time[t]) > 0
<1> DEFINE I == {i \in 1 .. Len(list) : IntCast(time[list[i]] - time[t]) > 0}
<1> DEFINE greater == {other \in Timers : IntCast(time[other] - time[t]) > 0}
<1> DEFINE J == {i \in 1 .. Len(list) : list[i] \in greater}
<1>1. Len(list) \in Nat
  BY LenProperties
<1>a. \A i \in 1 .. Len(list) : list[i] \in Timers
  BY ElementOfSeq
<1>b. J = I
  BY <1>a
<1>c. TimerOrder(list, t, time)
        = InsertAt(list, IF (IF J # {} THEN Min(J) ELSE 0) = 0
                         THEN Len(list) + 1
                         ELSE (IF J # {} THEN Min(J) ELSE 0), t)
  BY DEF TimerOrder, ListSortIn, SelectInSeq
<1> HIDE DEF J, greater
<1>2. CASE I = {}
  <2>1. TimerOrder(list, t, time) = InsertAt(list, Len(list) + 1, t)
    BY <1>2, <1>b, <1>c
  <2>2. QED
    BY <1>1, <1>2, <2>1
<1>3. CASE I # {}
  <2>1. I \in SUBSET Nat
    BY <1>1
  <2>2. PICK m \in I : m = Min(I) /\ \A j \in I : m <= j
    BY <1>3, <2>1, MinOfNats
  <2>3. m \in 1 .. Len(list) /\ m # 0 /\ m \in 1 .. Len(list) + 1
    BY <1>1, <2>2
  <2>4. TimerOrder(list, t, time) = InsertAt(list, m, t)
    BY <1>3, <1>b, <1>c, <2>2, <2>3
  <2>5. \A i \in 1 .. Len(list) : i < m => i \notin I
    <3> SUFFICES ASSUME NEW i \in 1 .. Len(list), i < m, i \in I
                 PROVE  FALSE
      OBVIOUS
    <3>1. m <= i
      BY <2>2
    <3>2. m \in Int /\ i \in Int
      BY <1>1, <2>3
    <3>3. QED
      BY <3>1, <3>2
  <2>6. QED
    BY <1>1, <2>2, <2>3, <2>4, <2>5
<1>4. QED
  BY <1>2, <1>3

-----------------------------------------------------------------------------
\* A part whose variables do not change keeps its types.
LEMMA TypeFrame ==
  /\ TimersTypeOK /\ UNCHANGED timerVars => TimersTypeOK'
  /\ EventsTypeOK /\ UNCHANGED eventVars => EventsTypeOK'
  /\ ProcsTypeOK /\ UNCHANGED procVars => ProcsTypeOK'
  /\ IosTypeOK /\ UNCHANGED ioVars => IosTypeOK'
<1>1. TimersTypeOK /\ UNCHANGED timerVars => TimersTypeOK'
  BY DEF TimersTypeOK, timerVars
<1>2. EventsTypeOK /\ UNCHANGED eventVars => EventsTypeOK'
  BY DEF EventsTypeOK, eventVars
<1>3. ProcsTypeOK /\ UNCHANGED procVars => ProcsTypeOK'
  BY DEF ProcsTypeOK, procVars
<1>4. IosTypeOK /\ UNCHANGED ioVars => IosTypeOK'
  BY DEF IosTypeOK, ioVars, Wanted
<1>5. QED
  BY <1>1, <1>2, <1>3, <1>4

\* Arming a timer for a natural time.
LEMMA TimerSetTypes ==
  ASSUME TimersTypeOK, NEW t \in Timers, NEW time \in Nat, TimerSet(t, time)
  PROVE  /\ timers' \in Seq(Timers)
         /\ timerPending' \in [Timers -> BOOLEAN]
         /\ timerTime' \in [Timers -> 0 .. MaxTime]
         /\ armOrder' \in Seq(Timers)
<1>1. Cancelled(t) \in Seq(Timers)
  BY ListTypes DEF Cancelled, TimersTypeOK
<1> DEFINE timeNow == [timerTime EXCEPT ![t] = time]
<1>2. timers' \in Seq(Timers)
  <2>1. timers' = TimerOrder(Cancelled(t), t, timeNow)
    BY DEF TimerSet
  <2> HIDE DEF timeNow
  <2>2. PICK k \in 1 .. Len(Cancelled(t)) + 1 :
          TimerOrder(Cancelled(t), t, timeNow) = InsertAt(Cancelled(t), k, t)
    BY <1>1, TimerOrderPlace
  <2>3. Len(Cancelled(t)) \in Nat
    BY <1>1, LenProperties
  <2>4. InsertAt(Cancelled(t), k, t) \in Seq(Timers)
    BY <1>1, <2>3, InsertAtProperties
  <2>5. QED
    BY <2>1, <2>2, <2>4
<1>3. time \in 0 .. MaxTime
  BY TimerAssumption DEF TimerSet
<1>4. timerTime' \in [Timers -> 0 .. MaxTime]
  BY <1>3 DEF TimerSet, TimersTypeOK
<1>5. timerPending' \in [Timers -> BOOLEAN]
  BY DEF TimerSet, TimersTypeOK
<1>6. armOrder' \in Seq(Timers)
  <2>1. Disarmed(armOrder, t) \in Seq(Timers)
    BY ListTypes DEF Disarmed, TimersTypeOK
  <2>2. QED
    BY <2>1, AppendProperties DEF TimerSet
<1>7. QED
  BY <1>2, <1>4, <1>5, <1>6

\* What the parts of TypeOK say of the timers' surroundings.
TimerEnv == now \in 0 .. MaxNow /\ TimersTypeOK

LEMMA RetriggerTypes ==
  ASSUME TimerEnv, NEW t \in Timers, NEW m \in Msecs \cup {0},
         NEW time \in Nat, Retrigger(t, m, time), rearmed' \in SUBSET Timers
  PROVE  TimersTypeOK'
<1>1. Period(t, m) \in Msecs \cup {0}
  BY TimerAssumption DEF Period, TimerEnv, TimersTypeOK
<1>2. timerMsec' \in [Timers -> Msecs \cup {0}]
  BY <1>1 DEF Retrigger, TimerEnv, TimersTypeOK
<1>3. CASE initialised
  <2>1. TimerSet(t, time)
    BY <1>3 DEF Retrigger
  <2>2. QED
    BY <1>2, <2>1, TimerSetTypes DEF Retrigger, TimerEnv, TimersTypeOK, coreVars
<1>4. CASE ~initialised
  BY <1>2, <1>4 DEF Retrigger, TimerEnv, TimersTypeOK, coreVars
<1>5. QED
  BY <1>3, <1>4

\* The steps of the timers, by the application and by the loop.
TimerUserStep ==
  \E t \in Timers :
    \/ TimerInit(t)
    \/ \E m \in Msecs : TimerNew(t, m)
    \/ \E m \in Msecs \cup {0} : TimerIn(t, m) \/ TimerAdd(t, m)
    \/ TimerCancel(t)
    \/ TimerDelete(t)

TimerLoopStep == TimersBegin \/ ExpireTimer \/ TimersDone

LEMMA TimerUserTypes ==
  ASSUME TimerEnv, TimerUserStep
  PROVE  TimersTypeOK'
<1>1. PICK t \in Timers :
        \/ TimerInit(t)
        \/ \E m \in Msecs : TimerNew(t, m)
        \/ \E m \in Msecs \cup {0} : TimerIn(t, m) \/ TimerAdd(t, m)
        \/ TimerCancel(t)
        \/ TimerDelete(t)
  BY DEF TimerUserStep
<1>2. /\ Msecs \subseteq Nat /\ MaxTime \in Nat
      /\ now \in Nat
      /\ timerTime[t] \in Nat
      /\ timerMsec[t] \in Msecs \cup {0}
  BY TimerAssumption, ClockAssumption DEF TimerEnv, TimersTypeOK
<1>3. CASE TimerInit(t)
  BY <1>3 DEF TimerInit, TimerEnv, TimersTypeOK
<1>4. ASSUME NEW m \in Msecs, TimerNew(t, m)
      PROVE  TimersTypeOK'
  <2>1. TimerSet(t, now + m) /\ now + m \in Nat
    BY <1>2, <1>4 DEF TimerNew
  <2>2. rearmed' \in SUBSET Timers
    BY <1>4 DEF TimerNew, Rearmed, TimerEnv, TimersTypeOK
  <2>3. QED
    BY <1>4, <2>1, <2>2, TimerSetTypes DEF TimerNew, TimerEnv, TimersTypeOK
<1>5. ASSUME NEW m \in Msecs \cup {0}
      PROVE  /\ Period(t, m) \in Nat
             /\ now + Period(t, m) \in Nat
             /\ timerTime[t] + Period(t, m) \in Nat
  <2>1. Period(t, m) \in Nat
    <3>1. \A x \in Msecs \cup {0} : x \in Nat
      BY <1>2
    <3>2. QED
      BY <1>2, <3>1 DEF Period
  <2>2. QED
    BY <1>2, <2>1
<1>6. ASSUME NEW m \in Msecs \cup {0}, TimerIn(t, m)
      PROVE  TimersTypeOK'
  <2>1. rearmed' \in SUBSET Timers
    BY <1>6 DEF TimerIn, Rearmed, TimerEnv, TimersTypeOK
  <2>2. QED
    BY <1>5, <1>6, <2>1, RetriggerTypes DEF TimerIn
<1>7. ASSUME NEW m \in Msecs \cup {0}, TimerAdd(t, m)
      PROVE  TimersTypeOK'
  <2>1. rearmed' \in SUBSET Timers
    BY <1>7 DEF TimerAdd, NotRearmed, TimerEnv, TimersTypeOK
  <2>2. QED
    BY <1>5, <1>7, <2>1, RetriggerTypes DEF TimerAdd
<1>8. Cancelled(t) \in Seq(Timers) /\ Disarmed(armOrder, t) \in Seq(Timers)
  BY ListTypes DEF Cancelled, Disarmed, TimerEnv, TimersTypeOK
<1>9. CASE TimerCancel(t)
  BY <1>8, <1>9 DEF TimerCancel, NotRearmed, TimerEnv, TimersTypeOK
<1>10. CASE TimerDelete(t)
  BY <1>2, <1>8, <1>10
  DEF TimerDelete, TimerFreed, NotRearmed, TimerEnv, TimersTypeOK
<1>11. QED
  BY <1>1, <1>3, <1>4, <1>6, <1>7, <1>9, <1>10

LEMMA TimerLoopTypes ==
  ASSUME TimerEnv, TimerLoopStep
  PROVE  TimersTypeOK'
<1>1. CASE TimersBegin
  BY <1>1 DEF TimersBegin, TimerEnv, TimersTypeOK
<1>2. CASE ExpireTimer
  <2> DEFINE t == Head(timers)
  <2>1. timers # << >>
    BY <1>2 DEF ExpireTimer, Expired
  <2>2. t \in Timers /\ Tail(timers) \in Seq(Timers)
    BY <2>1, ListTypes DEF TimerEnv, TimersTypeOK
  <2>3. Disarmed(armOrder, t) \in Seq(Timers)
    BY ListTypes DEF Disarmed, TimerEnv, TimersTypeOK
  <2>4. MaxTime \in Nat
    BY TimerAssumption
  <2> HIDE DEF t
  <2>5. /\ timers' = Tail(timers)
        /\ armOrder' = Disarmed(armOrder, t)
        /\ IF t \in NullCb
           THEN TimerFreed(t)
           ELSE /\ timerPending' = [timerPending EXCEPT ![t] = FALSE]
                /\ UNCHANGED <<timerAlive, timerTime, timerMsec>>
        /\ NotRearmed(t)
        /\ snap' = snap
    BY <1>2 DEF ExpireTimer, t
  <2>6. CASE t \in NullCb
    <3>1. 0 \in 0 .. MaxTime /\ 0 \in Msecs \cup {0}
      BY <2>4
    <3>2. QED
      BY <2>2, <2>3, <2>5, <2>6, <3>1
      DEF TimerFreed, NotRearmed, TimerEnv, TimersTypeOK
  <2>7. CASE t \notin NullCb
    BY <2>2, <2>3, <2>5, <2>7 DEF NotRearmed, TimerEnv, TimersTypeOK
  <2>8. QED
    BY <2>6, <2>7
<1>3. CASE TimersDone
  BY <1>3, ClockAssumption DEF TimersDone, TimerEnv, TimersTypeOK
<1>4. QED
  BY <1>1, <1>2, <1>3 DEF TimerLoopStep

LEMMA TimersDestroyTypes ==
  ASSUME TimersTypeOK, TimersDestroy
  PROVE  TimersTypeOK'
<1>1. << >> \in Seq(Timers)
  BY EmptySeq
<1>2. 0 \in 0 .. MaxTime
  BY TimerAssumption
<1>3. \A t \in Timers :
        /\ timerAlive[t] \in BOOLEAN
        /\ timerTime[t] \in 0 .. MaxTime
        /\ timerMsec[t] \in Msecs \cup {0}
  BY DEF TimersTypeOK
<1>4. QED
  BY <1>1, <1>2, <1>3 DEF TimersDestroy, TimersTypeOK

-----------------------------------------------------------------------------
EventUserStep ==
  \E e \in Events :
    \/ EventInit(e)
    \/ EventNew(e)
    \/ EventAdd(e)
    \/ EventRemove(e)
    \/ EventDelete(e)
    \/ EventFire(e)
    \/ SignalFire(e)

EventLoopStep == EventsBegin \/ HandleEvent \/ EventsDone

\* The node behind another one holds an event, or there is none.
LEMMA NodeTypes ==
  ASSUME EventsTypeOK, NEW e \in Events
  PROVE  /\ NextNode(e) \in Events \cup {Nobody}
         /\ FirstNode(events, Nobody) \in Events \cup {Nobody}
<1>1. /\ events \in Seq(Events)
      /\ Len(events) \in Nat
      /\ \A i \in 1 .. Len(events) : events[i] \in Events
  BY LenProperties, ElementOfSeq DEF EventsTypeOK
<1>2. NextNode(e) \in Events \cup {Nobody}
  <2> DEFINE I == {i \in 1 .. Len(events) : events[i] = e}
             at == IF I # {} THEN Min(I) ELSE 0
  <2>1. at \in Nat
    <3>1. I \in SUBSET Nat
      BY <1>1
    <3>2. QED
      BY <3>1, MinOfNats
  <2>2. NextNode(e) = IF at \in 1 .. Len(events) - 1 THEN events[at + 1]
                                                     ELSE Nobody
    BY DEF NextNode, NodeAfter, SelectInSeq
  <2> HIDE DEF at
  <2>3. QED
    BY <1>1, <2>1, <2>2
<1>3. FirstNode(events, Nobody) \in Events \cup {Nobody}
  BY <1>1, ListTypes DEF FirstNode
<1>4. QED
  BY <1>2, <1>3

LEMMA EventUserTypes ==
  ASSUME EventsTypeOK, EventUserStep
  PROVE  EventsTypeOK'
<1>1. PICK e \in Events :
        \/ EventInit(e)
        \/ EventNew(e)
        \/ EventAdd(e)
        \/ EventRemove(e)
        \/ EventDelete(e)
        \/ EventFire(e)
        \/ SignalFire(e)
  BY DEF EventUserStep
<1>2. Append(events, e) \in Seq(Events) /\ ListRemove(events, e) \in Seq(Events)
  BY ListTypes DEF EventsTypeOK
<1>3. CASE EventInit(e)
  BY <1>3 DEF EventInit, EventsTypeOK
<1>4. CASE EventNew(e)
  BY <1>2, <1>4 DEF EventNew, EventsTypeOK
<1>5. CASE EventAdd(e)
  BY <1>2, <1>5 DEF EventAdd, EventsTypeOK
<1>6. CASE EventRemove(e)
  BY <1>2, <1>6 DEF EventRemove, EventsTypeOK
<1>7. CASE EventDelete(e)
  BY <1>2, <1>7 DEF EventDelete, EventsTypeOK
<1>8. CASE EventFire(e) \/ SignalFire(e)
  BY <1>8 DEF EventFire, SignalFire, Fire, EventsTypeOK
<1>9. QED
  BY <1>1, <1>3, <1>4, <1>5, <1>6, <1>7, <1>8

LEMMA EventLoopTypes ==
  ASSUME EventsTypeOK, EventLoopStep
  PROVE  EventsTypeOK'
<1>1. CASE EventsBegin
  <2>1. FirstNode(events, Nobody) \in Events \cup {Nobody}
    BY ListTypes DEF FirstNode, EventsTypeOK
  <2>2. QED
    BY <1>1, <2>1 DEF EventsBegin, EventsTypeOK
<1>2. CASE HandleEvent
  <2>1. itNext \in Events
    BY <1>2 DEF HandleEvent, EventsTypeOK
  <2>2. NextNode(itNext) \in Events \cup {Nobody}
    BY <2>1, NodeTypes
  <2>3. QED
    BY <1>2, <2>1, <2>2 DEF HandleEvent, EventsTypeOK
<1>3. CASE EventsDone
  BY <1>3 DEF EventsDone, EventsTypeOK
<1>4. QED
  BY <1>1, <1>2, <1>3 DEF EventLoopStep

LEMMA EventsDestroyTypes ==
  ASSUME EventsTypeOK, EventsDestroy
  PROVE  EventsTypeOK'
<1>1. << >> \in Seq(Events)
  BY EmptySeq
<1>2. QED
  BY <1>1 DEF EventsDestroy, EventsTypeOK

-----------------------------------------------------------------------------
ProcUserStep ==
  \E p \in Procs :
    \/ ProcNew(p)
    \/ ProcRerun(p)
    \/ ProcCancel(p)
    \/ ProcDelete(p)

ProcLoopStep ==
  \/ ProcsBegin
  \/ \E pid \in Pids : Reap(pid)
  \/ ProcsDone

ProcKernelStep == SigChld \/ \E pid \in Pids : ChildExit(pid)

States == {"new", "run", "killed", "zombie", "reaped"}

LEMMA ProcRunTypes ==
  ASSUME ProcsTypeOK, NEW p \in Procs, ProcRun(p)
  PROVE  /\ procs' \in Seq(Procs)
         /\ procRunning' \in [Procs -> BOOLEAN]
         /\ procPid' \in [Procs -> Pids \cup {0}]
         /\ gotSigchld' \in BOOLEAN
         /\ child' \in [Pids -> States]
         /\ sigchld' \in BOOLEAN
<1>1. Append(procs, p) \in Seq(Procs)
  BY ListTypes DEF ProcsTypeOK
<1>2. PICK pid \in Pids :
        /\ child' = [child EXCEPT ![pid] = "run"]
        /\ procRunning' = [procRunning EXCEPT ![p] = TRUE]
        /\ procPid' = [procPid EXCEPT ![p] = pid]
        /\ procs' = Append(procs, p)
        /\ UNCHANGED <<gotSigchld, sigchld>>
  BY DEF ProcRun
<1>3. QED
  BY <1>1, <1>2 DEF ProcsTypeOK, States

LEMMA KilledTypes ==
  ASSUME ProcsTypeOK, NEW pid, Killed(pid)
  PROVE  child' \in [Pids -> States]
BY DEF Killed, ProcsTypeOK, States

LEMMA ProcUserTypes ==
  ASSUME ProcsTypeOK, ProcUserStep
  PROVE  ProcsTypeOK'
<1>1. PICK p \in Procs :
        \/ ProcNew(p)
        \/ ProcRerun(p)
        \/ ProcCancel(p)
        \/ ProcDelete(p)
  BY DEF ProcUserStep
<1>2. CASE ProcNew(p)
  BY <1>2, ProcRunTypes DEF ProcNew, ProcsTypeOK, States
<1>3. CASE ProcRerun(p)
  BY <1>3, ProcRunTypes DEF ProcRerun, ProcsTypeOK, States
<1>4. CASE ProcCancel(p)
  BY <1>4, KilledTypes DEF ProcCancel, ProcsTypeOK, States
<1>5. CASE ProcDelete(p)
  <2>1. procs' \in Seq(Procs)
    BY <1>5, ListTypes DEF ProcDelete, Untracked, ProcsTypeOK
  <2>2. child' \in [Pids -> States]
    <3>1. CASE procRunning[p]
      BY <1>5, <3>1, KilledTypes DEF ProcDelete
    <3>2. CASE ~procRunning[p]
      BY <1>5, <3>2 DEF ProcDelete, ProcsTypeOK, States
    <3>3. QED
      BY <3>1, <3>2
  <2>3. QED
    BY <1>5, <2>1, <2>2 DEF ProcDelete, ProcFreed, ProcsTypeOK, States
<1>6. QED
  BY <1>1, <1>2, <1>3, <1>4, <1>5

\* The MlProc that _handle_processes finds for a pid, if it finds one.
LEMMA FinishFinds ==
  ASSUME ProcsTypeOK, NEW pid \in Pids, Finish(pid)
  PROVE  \/ /\ UNCHANGED <<procs, procAlive, procRunning, procPid, callback>>
            /\ \A k \in 1 .. Len(procs) : procPid[procs[k]] # pid
         \/ \E k \in 1 .. Len(procs) :
              /\ procPid[procs[k]] = pid
              /\ procs' = ListRemove(procs, procs[k])
              /\ Call(procs[k])
              /\ IF procs[k] \in NullCb
                 THEN ProcFreed(procs[k])
                 ELSE /\ procRunning' = [procRunning EXCEPT ![procs[k]] = FALSE]
                      /\ UNCHANGED <<procAlive, procPid>>
<1> DEFINE I == {i \in 1 .. Len(procs) : procPid[procs[i]] = pid}
           at == IF I # {} THEN Min(I) ELSE 0
<1>1. Len(procs) \in Nat
  BY LenProperties DEF ProcsTypeOK
<1>2. IF at = 0
      THEN UNCHANGED <<procs, procAlive, procRunning, procPid, callback>>
      ELSE LET p == procs[at] IN
           /\ procs' = ListRemove(procs, p)
           /\ Call(p)
           /\ IF p \in NullCb
              THEN ProcFreed(p)
              ELSE /\ procRunning' = [procRunning EXCEPT ![p] = FALSE]
                   /\ UNCHANGED <<procAlive, procPid>>
  BY DEF Finish, IsPid, SelectInSeq
<1>3. CASE I = {}
  BY <1>2, <1>3
<1>4. CASE I # {}
  <2>1. I \in SUBSET Nat
    BY <1>1
  <2>2. PICK m \in I : m = at
    BY <1>4, <2>1, MinOfNats
  <2>3. m \in 1 .. Len(procs) /\ m # 0 /\ procPid[procs[m]] = pid
    BY <1>1, <2>2
  <2> HIDE DEF at
  <2>4. QED
    BY <1>2, <2>2, <2>3
<1>5. QED
  BY <1>3, <1>4

LEMMA ProcLoopTypes ==
  ASSUME ProcsTypeOK, ProcLoopStep
  PROVE  ProcsTypeOK'
<1>1. CASE ProcsBegin
  BY <1>1 DEF ProcsBegin, ProcsTypeOK
<1>2. ASSUME NEW pid \in Pids, Reap(pid)
      PROVE  ProcsTypeOK'
  <2>1. /\ Finish(pid)
        /\ child' = [child EXCEPT ![pid] = "reaped"]
        /\ gotSigchld' = gotSigchld
        /\ sigchld' = sigchld
    BY <1>2 DEF Reap
  <2>2. CASE UNCHANGED <<procs, procAlive, procRunning, procPid, callback>>
    BY <2>1, <2>2 DEF ProcsTypeOK
  <2>3. ASSUME NEW k \in 1 .. Len(procs),
               procs' = ListRemove(procs, procs[k]),
               IF procs[k] \in NullCb
               THEN ProcFreed(procs[k])
               ELSE /\ procRunning' = [procRunning EXCEPT ![procs[k]] = FALSE]
                    /\ UNCHANGED <<procAlive, procPid>>
        PROVE  ProcsTypeOK'
    <3>1. procs' \in Seq(Procs)
      BY <2>3, ListTypes DEF ProcsTypeOK
    <3>2. CASE procs[k] \in NullCb
      BY <2>1, <2>3, <3>1, <3>2 DEF ProcFreed, ProcsTypeOK
    <3>3. CASE procs[k] \notin NullCb
      BY <2>1, <2>3, <3>1, <3>3 DEF ProcsTypeOK
    <3>4. QED
      BY <3>2, <3>3
  <2>4. QED
    BY <2>1, <2>2, <2>3, FinishFinds
<1>3. CASE ProcsDone
  BY <1>3 DEF ProcsDone, procVars, ProcsTypeOK
<1>4. QED
  BY <1>1, <1>2, <1>3 DEF ProcLoopStep

LEMMA ProcKernelTypes ==
  ASSUME ProcsTypeOK, ProcKernelStep
  PROVE  ProcsTypeOK'
<1>1. CASE SigChld
  BY <1>1 DEF SigChld, ProcsTypeOK
<1>2. ASSUME NEW pid \in Pids, ChildExit(pid)
      PROVE  ProcsTypeOK'
  BY <1>2 DEF ChildExit, ProcsTypeOK
<1>3. QED
  BY <1>1, <1>2 DEF ProcKernelStep

LEMMA ProcsDestroyTypes ==
  ASSUME ProcsTypeOK, ProcsDestroy
  PROVE  ProcsTypeOK'
<1>1. << >> \in Seq(Procs)
  BY EmptySeq
<1>2. QED
  BY <1>1 DEF ProcsDestroy, ProcsTypeOK

-----------------------------------------------------------------------------
IoUserStep ==
  \E i \in Ios :
    \/ IoNew(i)
    \/ IoCancel(i)
    \/ IoDelete(i)
    \/ UserRead(i)
    \/ FileChange(i)

IoLoopStep ==
  \/ EpollReport
  \/ \E i \in Ios : HandleIo(i)
  \/ ReaderRead
  \/ ReaderEof
  \/ ReaderDone
  \/ IosDone

LEMMA IoUserTypes ==
  ASSUME IosTypeOK, IoUserStep
  PROVE  IosTypeOK'
<1>1. PICK i \in Ios :
        IoNew(i) \/ IoCancel(i) \/ IoDelete(i) \/ UserRead(i) \/ FileChange(i)
  BY DEF IoUserStep
<1>2. Append(mlios, i) \in Seq(Ios) /\ ListRemove(mlios, i) \in Seq(Ios)
  BY ListTypes DEF IosTypeOK
<1>3. CASE IoNew(i)
  BY <1>2, <1>3 DEF IoNew, fileVars, dispatchVars, IosTypeOK
<1>4. CASE IoCancel(i)
  BY <1>2, <1>4 DEF IoCancel, Unregistered, fileVars, dispatchVars, IosTypeOK
<1>5. CASE IoDelete(i)
  BY <1>2, <1>5 DEF IoDelete, Unregistered, fileVars, dispatchVars, IosTypeOK
<1>6. CASE UserRead(i)
  BY <1>6 DEF UserRead, dispatchVars, IosTypeOK
<1>7. CASE FileChange(i)
  BY <1>7 DEF FileChange, dispatchVars, IosTypeOK
<1>8. QED
  BY <1>1, <1>3, <1>4, <1>5, <1>6, <1>7

LEMMA IoLoopTypes ==
  ASSUME IosTypeOK, IoLoopStep
  PROVE  IosTypeOK'
<1>1. CASE EpollReport
  <2>1. PICK some \in SUBSET Ready : batch' = [i \in some |-> Flags(i)]
    BY <1>1 DEF EpollReport
  <2>2. some \subseteq Ios
    BY <2>1 DEF Ready, IosTypeOK
  <2>3. DOMAIN batch' = some /\ \A i \in some : batch'[i] \subseteq Wanted(i)
    BY <2>1 DEF Flags
  <2>4. QED
    BY <1>1, <2>2, <2>3 DEF EpollReport, fileVars, IosTypeOK
<1>2. ASSUME NEW i \in Ios, HandleIo(i)
      PROVE  IosTypeOK'
  <2>1. /\ i \in DOMAIN batch
        /\ batch[i] \subseteq Wanted(i)
        /\ DOMAIN batch \subseteq Ios
    BY <1>2 DEF HandleIo, IosTypeOK
  <2>2. /\ DOMAIN batch' \subseteq Ios
        /\ \A j \in DOMAIN batch' : batch'[j] \subseteq Wanted(j)
    <3>1. batch' = [j \in DOMAIN batch \ {i} |-> batch[j]]
      BY <1>2 DEF HandleIo
    <3>2. QED
      BY <2>1, <3>1 DEF IosTypeOK
  <2> DEFINE evs == MlIoEvents(batch[i])
  <2>3. evs \subseteq {"in", "rdhup", "out"}
    BY <2>1 DEF MlIoEvents, Wanted
  <2>4. i \in Readers => evs \subseteq {"in", "rdhup"}
    BY <2>1, IoAssumption DEF MlIoEvents, Wanted
  <2> HIDE DEF evs
  <2>5. IF i \in Readers /\ evs # {}
        THEN /\ reader' = i
             /\ todo' = evs
             /\ UNCHANGED <<callback, report>>
        ELSE /\ IF evs # {} THEN Call(i) /\ report' = evs
                            ELSE UNCHANGED <<callback, report>>
             /\ UNCHANGED <<reader, todo>>
    BY <1>2 DEF HandleIo, evs
  <2>6. /\ reader' \in Readers \cup {Nobody}
        /\ todo' \subseteq {"in", "rdhup"}
        /\ report' \subseteq {"in", "rdhup", "out"}
    BY <2>3, <2>4, <2>5 DEF IosTypeOK
  <2>7. UNCHANGED <<mlios, ioAlive, registered, unread, eof, writable>>
    BY <1>2 DEF HandleIo, fileVars
  <2>8. QED
    BY <2>2, <2>6, <2>7 DEF IosTypeOK
<1>3. CASE ReaderRead
  <2>1. report' \subseteq {"in", "rdhup", "out"}
    BY <1>3 DEF ReaderRead, IosTypeOK
  <2>2. unread' \in [Ios -> BOOLEAN]
    BY <1>3 DEF ReaderRead, IosTypeOK
  <2>3. QED
    BY <1>3, <2>1, <2>2 DEF ReaderRead, IosTypeOK
<1>4. CASE ReaderEof
  BY <1>4 DEF ReaderEof, fileVars, IosTypeOK
<1>5. CASE ReaderDone
  BY <1>5 DEF ReaderDone, fileVars, IosTypeOK
<1>6. CASE IosDone
  BY <1>6 DEF IosDone, fileVars, IosTypeOK
<1>7. QED
  BY <1>1, <1>2, <1>3, <1>4, <1>5, <1>6 DEF IoLoopStep

LEMMA IosDestroyTypes ==
  ASSUME IosTypeOK, IosDestroy
  PROVE  IosTypeOK'
<1>1. << >> \in Seq(Ios)
  BY EmptySeq
<1>2. QED
  BY <1>1 DEF IosDestroy, fileVars, dispatchVars, IosTypeOK

-----------------------------------------------------------------------------
Objects == Timers \cup Events \cup Procs \cup Ios

LEMMA CoreFrame ==
  ASSUME CoreTypeOK, UNCHANGED <<coreVars, pollVars, runs>>
  PROVE  CoreTypeOK'
BY DEF CoreTypeOK, coreVars, pollVars

LEMMA CoreGoTo ==
  ASSUME CoreTypeOK, NEW l \in Labels, GoTo(l), UNCHANGED <<pollVars, runs>>
  PROVE  CoreTypeOK'
BY DEF CoreTypeOK, GoTo, pollVars

LEMMA CoreCall ==
  ASSUME CoreTypeOK, NEW obj \in Objects, Call(obj),
         UNCHANGED <<initialised, running, pc, now, pollVars, runs>>
  PROVE  CoreTypeOK'
<1>1. callback' \in Objects \cup {Nobody}
  BY DEF Call
<1>2. QED
  BY <1>1 DEF CoreTypeOK, Objects, pollVars

\* A signal leaves the loop where it is or brings it to its condition.
LEMMA CoreInterrupted ==
  ASSUME CoreTypeOK, Interrupted, running' \in BOOLEAN,
         UNCHANGED <<initialised, callback, now, pollVars, runs>>
  PROVE  CoreTypeOK'
<1>1. pc' \in Labels
  BY DEF Interrupted, CoreTypeOK, Labels
<1>2. QED
  BY <1>1 DEF CoreTypeOK, pollVars

-----------------------------------------------------------------------------
\* The steps of one part at a time.
LEMMA TimerStepTypes ==
  ASSUME TypeOK, Timer(TimerUserStep \/ TimerLoopStep)
  PROVE  TypeOK'
<1>1. /\ EventsTypeOK' /\ ProcsTypeOK' /\ IosTypeOK'
      /\ UNCHANGED <<pollVars, runs>>
      /\ CoreTypeOK /\ TimerEnv
  BY TypeFrame DEF Timer, TypeOK, TimerEnv, CoreTypeOK
<1>2. TimersTypeOK'
  BY <1>1, TimerUserTypes, TimerLoopTypes DEF Timer
<1>3. CASE TimerUserStep
  <2>1. UNCHANGED coreVars
    BY <1>3 DEF TimerUserStep, TimerInit, TimerNew, TimerIn, TimerAdd,
                Retrigger, TimerCancel, TimerDelete
  <2>2. QED
    BY <1>1, <1>2, <2>1, CoreFrame DEF TypeOK
<1>4. CASE TimersBegin
  <2>1. GoTo("timers") /\ "timers" \in Labels
    BY <1>4 DEF TimersBegin, Labels
  <2>2. QED
    BY <1>1, <1>2, <2>1, CoreGoTo DEF TypeOK
<1>5. CASE ExpireTimer
  <2>1. timers # << >>
    BY <1>5 DEF ExpireTimer, Expired
  <2>2. Head(timers) \in Objects
    BY <1>1, <2>1, ListTypes DEF TimerEnv, TimersTypeOK, Objects
  <2>3. Call(Head(timers)) /\ UNCHANGED <<initialised, running, pc, now>>
    BY <1>5 DEF ExpireTimer
  <2>4. QED
    BY <1>1, <1>2, <2>2, <2>3, CoreCall DEF TypeOK
<1>6. CASE TimersDone
  <2>1. GoTo("events") /\ "events" \in Labels
    BY <1>6 DEF TimersDone, Labels
  <2>2. QED
    BY <1>1, <1>2, <2>1, CoreGoTo DEF TypeOK
<1>7. QED
  BY <1>3, <1>4, <1>5, <1>6 DEF Timer, TimerLoopStep

LEMMA EventStepTypes ==
  ASSUME TypeOK, Event(EventUserStep \/ EventLoopStep)
  PROVE  TypeOK'
<1>1. /\ TimersTypeOK' /\ ProcsTypeOK' /\ IosTypeOK'
      /\ UNCHANGED <<pollVars, runs>>
      /\ CoreTypeOK /\ EventsTypeOK
  BY TypeFrame DEF Event, TypeOK
<1>2. EventsTypeOK'
  BY <1>1, EventUserTypes, EventLoopTypes DEF Event
<1>3. CASE EventUserStep
  <2>1. PICK e \in Events :
          \/ UNCHANGED coreVars
          \/ SignalFire(e)
    BY <1>3 DEF EventUserStep, EventInit, EventNew, EventAdd, EventRemove,
                EventDelete, EventFire
  <2>2. CASE UNCHANGED coreVars
    BY <1>1, <1>2, <2>2, CoreFrame DEF TypeOK
  <2>3. CASE SignalFire(e)
    <3>1. Interrupted /\ UNCHANGED <<initialised, running, callback, now>>
      BY <2>3 DEF SignalFire
    <3>2. running' \in BOOLEAN
      BY <1>1, <3>1 DEF CoreTypeOK
    <3>3. QED
      BY <1>1, <1>2, <3>1, <3>2, CoreInterrupted DEF TypeOK
  <2>4. QED
    BY <2>1, <2>2, <2>3
<1>4. CASE EventsBegin
  <2>1. PICK l \in Labels : GoTo(l)
    BY <1>4 DEF EventsBegin, Labels
  <2>2. QED
    BY <1>1, <1>2, <2>1, CoreGoTo DEF TypeOK
<1>5. CASE HandleEvent
  <2>1. /\ UNCHANGED <<initialised, running, pc, now>>
        /\ itNext # Nobody
        /\ Call(itNext) \/ callback' = callback
    BY <1>5 DEF HandleEvent
  <2>2. itNext \in Objects
    BY <1>1, <2>1 DEF EventsTypeOK, Objects
  <2>3. CASE Call(itNext)
    BY <1>1, <1>2, <2>1, <2>2, <2>3, CoreCall DEF TypeOK
  <2>4. CASE callback' = callback
    BY <1>1, <1>2, <2>1, <2>4, CoreFrame DEF TypeOK, coreVars
  <2>5. QED
    BY <2>1, <2>3, <2>4
<1>6. CASE EventsDone
  <2>1. GoTo("procs") /\ "procs" \in Labels
    BY <1>6 DEF EventsDone, Labels
  <2>2. QED
    BY <1>1, <1>2, <2>1, CoreGoTo DEF TypeOK
<1>7. QED
  BY <1>3, <1>4, <1>5, <1>6 DEF Event, EventLoopStep

LEMMA ProcStepTypes ==
  ASSUME TypeOK, Proc(ProcUserStep \/ ProcLoopStep \/ ProcKernelStep)
  PROVE  TypeOK'
<1>1. /\ TimersTypeOK' /\ EventsTypeOK' /\ IosTypeOK'
      /\ UNCHANGED <<pollVars, runs>>
      /\ CoreTypeOK /\ ProcsTypeOK
  BY TypeFrame DEF Proc, TypeOK
<1>2. ProcsTypeOK'
  BY <1>1, ProcUserTypes, ProcLoopTypes, ProcKernelTypes DEF Proc
<1>3. CASE ProcUserStep \/ \E pid \in Pids : ChildExit(pid)
  <2>1. UNCHANGED coreVars
    BY <1>3 DEF ProcUserStep, ProcNew, ProcRerun, ProcCancel, ProcDelete,
                ChildExit
  <2>2. QED
    BY <1>1, <1>2, <2>1, CoreFrame DEF TypeOK
<1>4. CASE SigChld
  <2>1. Interrupted /\ UNCHANGED <<initialised, running, callback, now>>
    BY <1>4 DEF SigChld
  <2>2. running' \in BOOLEAN
    BY <1>1, <2>1 DEF CoreTypeOK
  <2>3. QED
    BY <1>1, <1>2, <2>1, <2>2, CoreInterrupted DEF TypeOK
<1>5. CASE ProcsBegin
  <2>1. PICK l \in Labels : GoTo(l)
    BY <1>5 DEF ProcsBegin, Labels
  <2>2. QED
    BY <1>1, <1>2, <2>1, CoreGoTo DEF TypeOK
<1>6. ASSUME NEW pid \in Pids, Reap(pid)
      PROVE  TypeOK'
  <2>1. Finish(pid) /\ UNCHANGED <<initialised, running, pc, now>>
    BY <1>6 DEF Reap
  <2>2. CASE callback' = callback
    BY <1>1, <1>2, <2>1, <2>2, CoreFrame DEF TypeOK, coreVars
  <2>3. ASSUME NEW k \in 1 .. Len(procs), Call(procs[k])
        PROVE  TypeOK'
    <3>1. procs[k] \in Objects
      BY <1>1, ElementOfSeq DEF ProcsTypeOK, Objects
    <3>2. QED
      BY <1>1, <1>2, <2>1, <2>3, <3>1, CoreCall DEF TypeOK
  <2>4. QED
    BY <1>1, <2>1, <2>2, <2>3, FinishFinds
<1>7. CASE ProcsDone
  <2>1. GoTo("poll") /\ "poll" \in Labels
    BY <1>7 DEF ProcsDone, Labels
  <2>2. QED
    BY <1>1, <1>2, <2>1, CoreGoTo DEF TypeOK
<1>8. QED
  BY <1>3, <1>4, <1>5, <1>6, <1>7 DEF Proc, ProcLoopStep, ProcKernelStep

LEMMA IoStepTypes ==
  ASSUME TypeOK, Io(IoUserStep \/ IoLoopStep)
  PROVE  TypeOK'
<1>1. /\ TimersTypeOK' /\ EventsTypeOK' /\ ProcsTypeOK'
      /\ UNCHANGED <<pollVars, runs>>
      /\ CoreTypeOK /\ IosTypeOK
  BY TypeFrame DEF Io, TypeOK
<1>2. IosTypeOK'
  BY <1>1, IoUserTypes, IoLoopTypes DEF Io
<1>3. CASE IoUserStep \/ ReaderDone
  <2>1. UNCHANGED coreVars
    BY <1>3 DEF IoUserStep, IoNew, IoCancel, IoDelete, UserRead, FileChange,
                ReaderDone
  <2>2. QED
    BY <1>1, <1>2, <2>1, CoreFrame DEF TypeOK
<1>4. CASE EpollReport \/ IosDone
  <2>1. PICK l \in Labels : GoTo(l)
    BY <1>4 DEF EpollReport, IosDone, Labels
  <2>2. QED
    BY <1>1, <1>2, <2>1, CoreGoTo DEF TypeOK
<1>5. CASE ReaderRead \/ ReaderEof \/ \E i \in Ios : HandleIo(i)
  <2>1. /\ UNCHANGED <<initialised, running, pc, now>>
        /\ \/ callback' = callback
           \/ \E i \in Ios : Call(i)
    <3>1. Readers \subseteq Ios
      BY IoAssumption
    <3>2. reader # Nobody => reader \in Ios
      BY <1>1, <3>1 DEF IosTypeOK
    <3>3. QED
      BY <1>5, <3>2 DEF ReaderRead, ReaderEof, HandleIo
  <2>2. CASE callback' = callback
    BY <1>1, <1>2, <2>1, <2>2, CoreFrame DEF TypeOK, coreVars
  <2>3. CASE \E i \in Ios : Call(i)
    BY <1>1, <1>2, <2>1, <2>3, CoreCall DEF TypeOK, Objects
  <2>4. QED
    BY <2>1, <2>2, <2>3
<1>6. QED
  BY <1>3, <1>4, <1>5 DEF Io, IoLoopStep

-----------------------------------------------------------------------------
\* Every step is one of a part, or one of the loop around the parts.
LEMMA NextCases ==
  ASSUME Next
  PROVE  \/ Timer(TimerUserStep \/ TimerLoopStep)
         \/ Event(EventUserStep \/ EventLoopStep)
         \/ Proc(ProcUserStep \/ ProcLoopStep \/ ProcKernelStep)
         \/ Io(IoUserStep \/ IoLoopStep)
         \/ Core(Return) \/ Core(Stop) \/ Core(SigTerm) \/ Core(Tick)
         \/ MLoopInit \/ MLoopRun \/ MLoopDestroy
         \/ LoopExit \/ Poll \/ EpollEnter \/ EpollTimeout
<1>1. CASE LoopStep
  BY <1>1 DEF LoopStep, Timer, Event, Proc, Io,
              TimerLoopStep, EventLoopStep, ProcLoopStep, IoLoopStep
<1>2. CASE UserStep
  BY <1>2 DEF UserStep, Timer, Event, Proc, Io,
              TimerUserStep, EventUserStep, ProcUserStep, IoUserStep
<1>3. CASE Signal
  BY <1>3 DEF Signal, Event, Proc, Io,
              EventUserStep, ProcKernelStep, IoUserStep
<1>4. QED
  BY <1>1, <1>2, <1>3 DEF Next

LEMMA TimeoutType ==
  ASSUME TypeOK
  PROVE  CalculateTimeout \in Int
<1>1. MaxEpollTimeout \in Int
  BY MLoopAssumption
<1>2. CASE timers = << >>
  BY <1>1, <1>2 DEF CalculateTimeout, NextTimer
<1>3. CASE timers # << >>
  <2>1. Head(timers) \in Timers
    BY <1>3, ListTypes DEF TypeOK, TimersTypeOK
  <2>2. timerTime[Head(timers)] \in 0 .. MaxTime /\ now \in 0 .. MaxNow
    BY <2>1 DEF TypeOK, TimersTypeOK, CoreTypeOK
  <2>3. timerTime[Head(timers)] - now \in Int
    BY <2>2, TimerAssumption, ClockAssumption
  <2>4. IntCast(timerTime[Head(timers)] - now) \in Int
    BY <2>3, IntCastType
  <2>5. QED
    BY <1>3, <2>4 DEF CalculateTimeout, NextTimer
<1>4. QED
  BY <1>2, <1>3

LEMMA TypeInit == Init => TypeOK
<1> SUFFICES ASSUME Init PROVE TypeOK
  OBVIOUS
<1>1. MaxNow \in Nat /\ MaxTime \in Nat /\ MaxRuns \in Nat
  BY ClockAssumption, TimerAssumption, MLoopAssumption
<1>2. /\ << >> \in Seq(Timers) /\ << >> \in Seq(Events)
      /\ << >> \in Seq(Procs) /\ << >> \in Seq(Ios)
  BY EmptySeq
<1>3. 0 \in 0 .. MaxNow /\ 0 \in 0 .. MaxTime /\ 0 \in 0 .. MaxRuns
  BY <1>1
<1>4. CoreTypeOK
  <2>1. /\ initialised \in BOOLEAN /\ running \in BOOLEAN
        /\ pc \in Labels /\ callback = Nobody
    BY DEF Init, CoreInit, Labels
  <2>2. now \in 0 .. MaxNow /\ runs \in 0 .. MaxRuns
    BY <1>3 DEF Init, CoreInit
  <2>3. timeout \in Int /\ wakeAt \in Int
    BY DEF Init
  <2>4. QED
    BY <2>1, <2>2, <2>3 DEF CoreTypeOK
<1>5. TimersTypeOK
  BY <1>2, <1>3 DEF Init, TimersInit, TimersTypeOK
<1>6. EventsTypeOK
  BY <1>2 DEF Init, EventsInit, EventsTypeOK
<1>7. ProcsTypeOK
  BY <1>2 DEF Init, ProcsInit, ProcsTypeOK
<1>8. IosTypeOK
  BY <1>2 DEF Init, IosInit, NoBatch, IosTypeOK
<1>9. QED
  BY <1>4, <1>5, <1>6, <1>7, <1>8 DEF TypeOK

LEMMA TypeStep == TypeOK /\ [Next]_vars => TypeOK'
<1> SUFFICES ASSUME TypeOK, [Next]_vars PROVE TypeOK'
  OBVIOUS
<1>1. CoreTypeOK /\ TimersTypeOK /\ EventsTypeOK /\ ProcsTypeOK /\ IosTypeOK
  BY DEF TypeOK
<1>2. CASE UNCHANGED <<timerVars, eventVars, procVars, ioVars>> /\ CoreTypeOK'
  BY <1>1, <1>2, TypeFrame DEF TypeOK
<1>3. CASE UNCHANGED vars
  <2>1. CoreTypeOK'
    BY <1>1, <1>3, CoreFrame DEF vars
  <2>2. QED
    BY <1>2, <1>3, <2>1 DEF vars
<1>4. CASE Core(Return) \/ Core(Stop) \/ MLoopInit
  <2>1. CoreTypeOK'
    BY <1>1, <1>4 DEF Core, Return, Stop, MLoopInit, CoreTypeOK, pollVars
  <2>2. QED
    BY <1>2, <1>4, <2>1 DEF Core, MLoopInit
<1>5. CASE Core(SigTerm)
  <2>1. Interrupted /\ running' \in BOOLEAN
    BY <1>5 DEF Core, SigTerm
  <2>2. UNCHANGED <<initialised, callback, now, pollVars, runs>>
    BY <1>5 DEF Core, SigTerm
  <2>3. CoreTypeOK'
    BY <1>1, <2>1, <2>2, CoreInterrupted
  <2>4. QED
    BY <1>2, <1>5, <2>3 DEF Core
<1>6. CASE Core(Tick)
  <2>1. now' \in 0 .. MaxNow
    <3>1. now \in 0 .. MaxNow /\ now < MaxNow /\ now' = now + 1
      BY <1>1, <1>6 DEF Core, Tick, CoreTypeOK
    <3>2. QED
      BY <3>1, ClockAssumption
  <2>2. CoreTypeOK'
    BY <1>1, <1>6, <2>1 DEF Core, Tick, CoreTypeOK, pollVars
  <2>3. QED
    BY <1>2, <1>6, <2>2 DEF Core
<1>7. CASE MLoopRun
  <2>1. runs' \in 0 .. MaxRuns
    <3>1. runs \in 0 .. MaxRuns /\ runs < MaxRuns /\ runs' = runs + 1
      BY <1>1, <1>7 DEF MLoopRun, CoreTypeOK
    <3>2. QED
      BY <3>1, MLoopAssumption
  <2>2. CoreTypeOK'
    BY <1>1, <1>7, <2>1 DEF MLoopRun, CoreTypeOK, Labels, pollVars
  <2>3. QED
    BY <1>2, <1>7, <2>2 DEF MLoopRun
<1>8. CASE MLoopDestroy
  <2>1. TimersTypeOK' /\ EventsTypeOK' /\ ProcsTypeOK' /\ IosTypeOK'
    BY <1>1, <1>8, TimersDestroyTypes, EventsDestroyTypes, ProcsDestroyTypes,
       IosDestroyTypes DEF MLoopDestroy
  <2>2. CoreTypeOK'
    BY <1>1, <1>8 DEF MLoopDestroy, CoreTypeOK, pollVars
  <2>3. QED
    BY <2>1, <2>2 DEF TypeOK
<1>9. CASE LoopExit \/ EpollTimeout
  <2>1. PICK l \in Labels : GoTo(l)
    BY <1>9 DEF LoopExit, EpollTimeout, Labels
  <2>2. CoreTypeOK'
    BY <1>1, <1>9, <2>1, CoreGoTo DEF LoopExit, EpollTimeout
  <2>3. QED
    BY <1>2, <1>9, <2>2 DEF LoopExit, EpollTimeout
<1>10. CASE Poll
  <2>1. timeout' \in Int
    BY <1>10, TimeoutType DEF Poll
  <2>2. CoreTypeOK'
    BY <1>1, <1>10, <2>1 DEF Poll, GoTo, CoreTypeOK, Labels
  <2>3. QED
    BY <1>2, <1>10, <2>2 DEF Poll
<1>11. CASE EpollEnter
  <2>1. wakeAt' \in Int /\ timeout' \in Int
    <3>1. timeout \in Int /\ now \in Int
      BY <1>1, ClockAssumption DEF CoreTypeOK
    <3>2. Never \in Int /\ now + timeout \in Int
      BY <3>1 DEF Never
    <3>3. QED
      BY <1>11, <3>2 DEF EpollEnter
  <2>2. CoreTypeOK'
    BY <1>1, <1>11, <2>1 DEF EpollEnter, GoTo, CoreTypeOK, Labels
  <2>3. QED
    BY <1>2, <1>11, <2>2 DEF EpollEnter
<1>12. QED
  BY <1>3, <1>4, <1>5, <1>6, <1>7, <1>8, <1>9, <1>10, <1>11, NextCases,
     TimerStepTypes, EventStepTypes, ProcStepTypes, IoStepTypes

\* Whatever the application, the signals, the files and the clock do, every
\* variable of the main loop has a value of its type.
THEOREM TypeCorrect == Spec => []TypeOK
BY TypeInit, TypeStep, PTL DEF Spec

-----------------------------------------------------------------------------
(***************************************************************************)
(* TimerListConsistent.                                                    *)
(***************************************************************************)
TimersInv == TypeOK /\ TimerListConsistent

LEMMA TimersFrame ==
  ASSUME TimerListConsistent, UNCHANGED timerVars
  PROVE  TimerListConsistent'
BY DEF TimerListConsistent, timerVars

\* What mloop_timer_cancle leaves: t is not in the list, everything else is
\* where it was.
LEMMA CancelledList ==
  ASSUME TimersInv, NEW t \in Timers
  PROVE  /\ Cancelled(t) \in Seq(Timers)
         /\ IsInjective(Cancelled(t))
         /\ ToSet(Cancelled(t)) = ToSet(timers) \ {t}
<1>1. timers \in Seq(Timers) /\ IsInjective(timers)
  BY DEF TimersInv, TypeOK, TimersTypeOK, TimerListConsistent
<1>2. CASE timerPending[t]
  BY <1>1, <1>2, RemoveFirstInjective DEF Cancelled, ListRemove
<1>3. CASE ~timerPending[t]
  <2>1. t \notin ToSet(timers)
    BY <1>3 DEF TimersInv, TimerListConsistent
  <2>2. QED
    BY <1>1, <1>3, <2>1 DEF Cancelled
<1>4. QED
  BY <1>2, <1>3

\* _timer_set puts the timer into the list once.
LEMMA TimerSetList ==
  ASSUME TimersInv, NEW t \in Timers, NEW time, TimerSet(t, time)
  PROVE  /\ IsInjective(timers')
         /\ ToSet(timers') = ToSet(timers) \cup {t}
         /\ timerPending' = [timerPending EXCEPT ![t] = TRUE]
<1> DEFINE list == Cancelled(t)
           timeNow == [timerTime EXCEPT ![t] = time]
<1>1. /\ list \in Seq(Timers)
      /\ IsInjective(list)
      /\ ToSet(list) = ToSet(timers) \ {t}
  BY CancelledList
<1>2. timers' = TimerOrder(list, t, timeNow)
  BY DEF TimerSet
<1> HIDE DEF list, timeNow
<1>3. PICK k \in 1 .. Len(list) + 1 :
        TimerOrder(list, t, timeNow) = InsertAt(list, k, t)
  BY <1>1, TimerOrderPlace
<1>4. Len(list) \in Nat
  BY <1>1, LenProperties
<1>5. /\ IsInjective(InsertAt(list, k, t))
      /\ ToSet(InsertAt(list, k, t)) = ToSet(list) \cup {t}
  BY <1>1, <1>4, InsertAtInjective
<1>6. QED
  BY <1>1, <1>2, <1>3, <1>5 DEF TimerSet

LEMMA TimerUserConsistent ==
  ASSUME TimersInv, TimerUserStep
  PROVE  TimerListConsistent'
<1>1. PICK t \in Timers :
        \/ TimerInit(t)
        \/ \E m \in Msecs : TimerNew(t, m)
        \/ \E m \in Msecs \cup {0} : TimerIn(t, m) \/ TimerAdd(t, m)
        \/ TimerCancel(t)
        \/ TimerDelete(t)
  BY DEF TimerUserStep
<1>2. /\ timerAlive \in [Timers -> BOOLEAN]
      /\ timerPending \in [Timers -> BOOLEAN]
  BY DEF TimersInv, TypeOK, TimersTypeOK
<1>3. CASE TimerInit(t)
  BY <1>2, <1>3 DEF TimerInit, TimersInv, TimerListConsistent
<1>4. ASSUME NEW m \in Msecs, TimerNew(t, m)
      PROVE  TimerListConsistent'
  <2>1. /\ TimerSet(t, now + m)
        /\ timerAlive' = [timerAlive EXCEPT ![t] = TRUE]
    BY <1>4 DEF TimerNew
  <2>2. QED
    BY <1>2, <2>1, TimerSetList DEF TimersInv, TimerListConsistent
<1>5. ASSUME NEW m \in Msecs \cup {0}, NEW time, Retrigger(t, m, time)
      PROVE  TimerListConsistent'
  <2>1. timerAlive[t] /\ timerAlive' = timerAlive
    BY <1>5 DEF Retrigger
  <2>2. CASE initialised
    <3>1. TimerSet(t, time)
      BY <1>5, <2>2 DEF Retrigger
    <3>2. QED
      BY <1>2, <2>1, <3>1, TimerSetList DEF TimersInv, TimerListConsistent
  <2>3. CASE ~initialised
    BY <1>5, <2>1, <2>3 DEF Retrigger, TimersInv, TimerListConsistent
  <2>4. QED
    BY <2>2, <2>3
<1>6. CASE TimerCancel(t)
  BY <1>2, <1>6, CancelledList DEF TimerCancel, TimersInv, TimerListConsistent
<1>7. CASE TimerDelete(t)
  BY <1>2, <1>7, CancelledList
  DEF TimerDelete, TimerFreed, TimersInv, TimerListConsistent
<1>8. QED
  BY <1>1, <1>3, <1>4, <1>5, <1>6, <1>7 DEF TimerIn, TimerAdd

LEMMA TimerLoopConsistent ==
  ASSUME TimersInv, TimerLoopStep
  PROVE  TimerListConsistent'
<1>1. CASE TimersBegin \/ TimersDone
  BY <1>1 DEF TimersBegin, TimersDone, TimersInv, TimerListConsistent
<1>2. CASE ExpireTimer
  <2> DEFINE t == Head(timers)
  <2>1. timers # << >>
    BY <1>2 DEF ExpireTimer, Expired
  <2>2. /\ timers \in Seq(Timers) /\ IsInjective(timers)
        /\ timerAlive \in [Timers -> BOOLEAN]
        /\ timerPending \in [Timers -> BOOLEAN]
    BY DEF TimersInv, TypeOK, TimersTypeOK, TimerListConsistent
  <2>3. t \in Timers
    BY <2>1, <2>2, ListTypes
  <2>4. /\ IsInjective(Tail(timers))
        /\ ToSet(Tail(timers)) = ToSet(timers) \ {t}
    BY <2>1, <2>2, TailInjective
  <2> HIDE DEF t
  <2>5. /\ timers' = Tail(timers)
        /\ IF t \in NullCb
           THEN TimerFreed(t)
           ELSE /\ timerPending' = [timerPending EXCEPT ![t] = FALSE]
                /\ UNCHANGED <<timerAlive, timerTime, timerMsec>>
    BY <1>2 DEF ExpireTimer, t
  <2>6. CASE t \in NullCb
    BY <2>2, <2>3, <2>4, <2>5, <2>6
    DEF TimerFreed, TimersInv, TimerListConsistent
  <2>7. CASE t \notin NullCb
    BY <2>2, <2>3, <2>4, <2>5, <2>7 DEF TimersInv, TimerListConsistent
  <2>8. QED
    BY <2>6, <2>7
<1>3. QED
  BY <1>1, <1>2 DEF TimerLoopStep

LEMMA TimersDestroyConsistent ==
  ASSUME TimersInv, TimersDestroy
  PROVE  TimerListConsistent'
<1>1. ToSet(<< >>) = {} /\ IsInjective(<< >>)
  BY DEF ToSet, IsInjective
<1>2. QED
  BY <1>1 DEF TimersDestroy, TimerListConsistent

\* The steps that do not touch the timers at all.
LEMMA OtherSteps ==
  ASSUME [Next]_vars
  PROVE  \/ Timer(TimerUserStep \/ TimerLoopStep)
         \/ MLoopDestroy
         \/ UNCHANGED timerVars
BY NextCases DEF Event, Proc, Io, Core, MLoopInit, MLoopRun, LoopExit, Poll,
                 EpollEnter, EpollTimeout, vars

LEMMA TimersConsistentStep == TimersInv /\ [Next]_vars => TimersInv'
<1> SUFFICES ASSUME TimersInv, [Next]_vars PROVE TimersInv'
  OBVIOUS
<1>1. TypeOK'
  BY TypeStep DEF TimersInv
<1>2. TimerListConsistent'
  BY OtherSteps, TimerUserConsistent, TimerLoopConsistent, TimersFrame,
     TimersDestroyConsistent DEF Timer, MLoopDestroy, TimersInv
<1>3. QED
  BY <1>1, <1>2 DEF TimersInv

LEMMA TimersConsistentInit == Init => TimersInv
<1>1. ToSet(<< >>) = {} /\ IsInjective(<< >>)
  BY DEF ToSet, IsInjective
<1>2. QED
  BY <1>1, TypeInit DEF Init, TimersInit, TimersInv, TimerListConsistent

\* A timer is pending exactly when it is in the list, it is there once, and
\* only live timers are.
THEOREM TimersConsistent == Spec => []TimerListConsistent
<1>1. TimersInv => TimerListConsistent
  BY DEF TimersInv
<1>2. QED
  BY <1>1, TimersConsistentInit, TimersConsistentStep, PTL DEF Spec

-----------------------------------------------------------------------------
(***************************************************************************)
(* TimersSorted, under the condition that ml_timer_cmp compares what it    *)
(* means to compare: the difference of two times fits into an int.         *)
(***************************************************************************)
FitsInt == MaxTime < IntHalf

SortedInv == TimersInv /\ TimersSorted

LEMMA SortedIsInOrder == TimersSorted <=> InOrder(timers, timerTime)
BY DEF TimersSorted, InOrder

LEMMA IntCastExact ==
  ASSUME FitsInt, NEW a \in 0 .. MaxTime, NEW b \in 0 .. MaxTime
  PROVE  IntCast(a - b) = a - b
<1>1. MaxTime \in Nat /\ IntHalf \in Nat
  BY TimerAssumption
<1>2. a - b \in -IntHalf .. IntHalf - 1
  BY <1>1 DEF FitsInt
<1>3. QED
  BY <1>2 DEF IntCast

\* list_sort_in with ml_timer_cmp keeps a sorted list sorted.
LEMMA TimerOrderSorted ==
  ASSUME FitsInt, NEW list \in Seq(Timers), NEW t \in Timers,
         NEW time \in [Timers -> 0 .. MaxTime], InOrder(list, time)
  PROVE  InOrder(TimerOrder(list, t, time), time)
<1>1. Len(list) \in Nat /\ MaxTime \in Nat
  BY LenProperties, TimerAssumption
<1>2. \A i \in 1 .. Len(list) : list[i] \in Timers
  BY ElementOfSeq
<1>3. PICK k \in 1 .. Len(list) + 1 :
        /\ TimerOrder(list, t, time) = InsertAt(list, k, t)
        /\ \A i \in 1 .. Len(list) :
             /\ i < k => ~(IntCast(time[list[i]] - time[t]) > 0)
             /\ i = k => IntCast(time[list[i]] - time[t]) > 0
  BY TimerOrderPlace
<1>4. \A i \in 1 .. Len(list) :
        /\ time[list[i]] \in 0 .. MaxTime
        /\ time[t] \in 0 .. MaxTime
        /\ IntCast(time[list[i]] - time[t]) = time[list[i]] - time[t]
  BY <1>2, IntCastExact
<1>5. \A i \in 1 .. Len(list) : i < k => time[list[i]] <= time[t]
  BY <1>1, <1>3, <1>4
<1>6. \A i \in 1 .. Len(list) : i >= k => time[t] <= time[list[i]]
  <2> SUFFICES ASSUME NEW i \in 1 .. Len(list), i >= k
               PROVE  time[t] <= time[list[i]]
    OBVIOUS
  <2>1. k \in 1 .. Len(list)
    BY <1>1
  <2>2. time[list[k]] > time[t]
    BY <1>1, <1>3, <1>4, <2>1
  <2>3. time[list[k]] <= time[list[i]]
    <3>1. CASE i = k
      BY <1>1, <1>4, <3>1
    <3>2. CASE i > k
      BY <2>1, <3>2 DEF InOrder
    <3>3. QED
      BY <1>1, <3>1, <3>2
  <2>4. QED
    BY <1>1, <1>4, <2>1, <2>2, <2>3
<1>7. time \in [Timers -> Int]
  BY <1>1
<1>8. InOrder(InsertAt(list, k, t), time)
  BY <1>1, <1>5, <1>6, <1>7, InsertAtInOrder
<1>9. QED
  BY <1>3, <1>8

LEMMA TimerSetSorted ==
  ASSUME FitsInt, SortedInv, NEW t \in Timers, NEW time \in Nat,
         TimerSet(t, time)
  PROVE  TimersSorted'
<1> DEFINE list == Cancelled(t)
           timeNow == [timerTime EXCEPT ![t] = time]
<1>1. /\ list \in Seq(Timers)
      /\ t \notin ToSet(list)
      /\ ToSet(list) \subseteq Timers
  <2>1. list \in Seq(Timers) /\ ToSet(list) = ToSet(timers) \ {t}
    BY CancelledList DEF SortedInv
  <2>2. QED
    BY <2>1, ToSetMember, ElementOfSeq
<1>2. timerTime \in [Timers -> 0 .. MaxTime] /\ time \in 0 .. MaxTime
  BY TimerAssumption DEF TimerSet, SortedInv, TimersInv, TypeOK, TimersTypeOK
<1>3. InOrder(list, timerTime)
  <2>1. InOrder(timers, timerTime) /\ timers \in Seq(Timers)
    BY SortedIsInOrder DEF SortedInv, TimersInv, TypeOK, TimersTypeOK
  <2>2. QED
    BY <2>1, RemoveFirstInOrder DEF Cancelled, ListRemove
<1> HIDE DEF list
<1>4. \A x \in ToSet(list) : timeNow[x] = timerTime[x]
  BY <1>1, <1>2
<1>5. timeNow \in [Timers -> 0 .. MaxTime]
  BY <1>2
<1>6. timers' = TimerOrder(list, t, timeNow) /\ timerTime' = timeNow
  BY DEF TimerSet, list
<1> HIDE DEF timeNow
<1>7. InOrder(list, timeNow)
  BY <1>1, <1>3, <1>4, InOrderAgree
<1>8. InOrder(TimerOrder(list, t, timeNow), timeNow)
  BY <1>1, <1>5, <1>7, TimerOrderSorted
<1>9. QED
  BY <1>6, <1>8 DEF TimersSorted, InOrder

\* A timer that leaves the list, and may take any time then.
LEMMA RemovedSorted ==
  ASSUME SortedInv, NEW t \in Timers,
         timers' = Cancelled(t),
         \A x \in Timers \ {t} : timerTime'[x] = timerTime[x]
  PROVE  TimersSorted'
<1>1. InOrder(timers, timerTime) /\ timers \in Seq(Timers)
  BY SortedIsInOrder DEF SortedInv, TimersInv, TypeOK, TimersTypeOK
<1>2. InOrder(Cancelled(t), timerTime)
  BY <1>1, RemoveFirstInOrder DEF Cancelled, ListRemove
<1>3. /\ Cancelled(t) \in Seq(Timers)
      /\ ToSet(Cancelled(t)) = ToSet(timers) \ {t}
  BY CancelledList DEF SortedInv
<1>4. \A x \in ToSet(Cancelled(t)) : timerTime'[x] = timerTime[x]
  <2>1. ToSet(timers) \subseteq Timers
    BY <1>1, ToSetMember, ElementOfSeq
  <2>2. QED
    BY <1>3, <2>1
<1>5. InOrder(Cancelled(t), timerTime')
  BY <1>2, <1>3, <1>4, InOrderAgree
<1>6. QED
  BY <1>5 DEF TimersSorted, InOrder

LEMMA TimerUserSorted ==
  ASSUME FitsInt, SortedInv, TimerUserStep
  PROVE  TimersSorted'
<1>1. PICK t \in Timers :
        \/ TimerInit(t)
        \/ \E m \in Msecs : TimerNew(t, m)
        \/ \E m \in Msecs \cup {0} : TimerIn(t, m) \/ TimerAdd(t, m)
        \/ TimerCancel(t)
        \/ TimerDelete(t)
  BY DEF TimerUserStep
<1>2. /\ Msecs \subseteq Nat
      /\ now \in Nat /\ timerTime[t] \in Nat
      /\ timerMsec[t] \in Msecs \cup {0}
      /\ timerTime \in [Timers -> 0 .. MaxTime]
  BY TimerAssumption, ClockAssumption
  DEF SortedInv, TimersInv, TypeOK, CoreTypeOK, TimersTypeOK
<1>3. CASE TimerInit(t)
  BY <1>3 DEF TimerInit, SortedInv, TimersSorted
<1>4. ASSUME NEW m \in Msecs, TimerNew(t, m)
      PROVE  TimersSorted'
  <2>1. now + m \in Nat /\ TimerSet(t, now + m)
    BY <1>2, <1>4 DEF TimerNew
  <2>2. QED
    BY <2>1, TimerSetSorted
<1>5. ASSUME NEW m \in Msecs \cup {0}, NEW time \in Nat, Retrigger(t, m, time)
      PROVE  TimersSorted'
  <2>1. CASE initialised
    BY <1>5, <2>1, TimerSetSorted DEF Retrigger
  <2>2. CASE ~initialised
    BY <1>5, <2>2 DEF Retrigger, SortedInv, TimersSorted
  <2>3. QED
    BY <2>1, <2>2
<1>6. ASSUME NEW m \in Msecs \cup {0}
      PROVE  /\ now + Period(t, m) \in Nat
             /\ timerTime[t] + Period(t, m) \in Nat
  <2>1. \A x \in Msecs \cup {0} : x \in Nat
    BY <1>2
  <2>2. Period(t, m) \in Nat
    BY <1>2, <2>1 DEF Period
  <2>3. QED
    BY <1>2, <2>2
<1>7. CASE \E m \in Msecs \cup {0} : TimerIn(t, m) \/ TimerAdd(t, m)
  BY <1>5, <1>6, <1>7 DEF TimerIn, TimerAdd
<1>8. CASE TimerCancel(t)
  BY <1>8, RemovedSorted DEF TimerCancel
<1>9. CASE TimerDelete(t)
  BY <1>2, <1>9, RemovedSorted DEF TimerDelete, TimerFreed
<1>10. QED
  BY <1>1, <1>3, <1>4, <1>7, <1>8, <1>9

LEMMA TimerLoopSorted ==
  ASSUME SortedInv, TimerLoopStep
  PROVE  TimersSorted'
<1>1. CASE TimersBegin \/ TimersDone
  BY <1>1 DEF TimersBegin, TimersDone, SortedInv, TimersSorted
<1>2. CASE ExpireTimer
  <2> DEFINE t == Head(timers)
  <2>1. timers # << >>
    BY <1>2 DEF ExpireTimer, Expired
  <2>2. /\ timers \in Seq(Timers) /\ IsInjective(timers)
        /\ timerTime \in [Timers -> 0 .. MaxTime]
        /\ InOrder(timers, timerTime)
    BY SortedIsInOrder
    DEF SortedInv, TimersInv, TypeOK, TimersTypeOK, TimerListConsistent
  <2>3. /\ Tail(timers) \in Seq(Timers)
        /\ ToSet(Tail(timers)) = ToSet(timers) \ {t}
    BY <2>1, <2>2, TailInjective
  <2>4. ToSet(timers) \subseteq Timers
    BY <2>2, ToSetMember, ElementOfSeq
  <2>5. InOrder(Tail(timers), timerTime)
    BY <2>1, <2>2, TailInOrder
  <2> HIDE DEF t
  <2>6. /\ timers' = Tail(timers)
        /\ TimerFreed(t) \/ timerTime' = timerTime
    BY <1>2 DEF ExpireTimer, t
  <2>7. \A x \in ToSet(Tail(timers)) : timerTime'[x] = timerTime[x]
    BY <2>2, <2>3, <2>4, <2>6 DEF TimerFreed
  <2>8. InOrder(Tail(timers), timerTime')
    BY <2>3, <2>5, <2>7, InOrderAgree
  <2>9. QED
    BY <2>6, <2>8 DEF TimersSorted, InOrder
<1>3. QED
  BY <1>1, <1>2 DEF TimerLoopStep

LEMMA SortedStep == FitsInt /\ SortedInv /\ [Next]_vars => SortedInv'
<1> SUFFICES ASSUME FitsInt, SortedInv, [Next]_vars PROVE SortedInv'
  OBVIOUS
<1>1. TimersInv'
  BY TimersConsistentStep DEF SortedInv
<1>2. CASE Timer(TimerUserStep \/ TimerLoopStep)
  BY <1>1, <1>2, TimerUserSorted, TimerLoopSorted DEF Timer, SortedInv
<1>3. CASE MLoopDestroy
  <2>1. timers' = << >>
    BY <1>3 DEF MLoopDestroy, TimersDestroy
  <2>2. QED
    BY <1>1, <2>1 DEF SortedInv, TimersSorted
<1>4. CASE UNCHANGED timerVars
  BY <1>1, <1>4 DEF SortedInv, TimersSorted, timerVars
<1>5. QED
  BY <1>2, <1>3, <1>4, OtherSteps

LEMMA SortedInit == Init => SortedInv
BY TimersConsistentInit DEF Init, TimersInit, SortedInv, TimersSorted

\* If the difference of any two times fits into an int, the list is always in
\* the order of the times: the first node is the one to look at.
THEOREM TimersInOrder == FitsInt => (Spec => []TimersSorted)
<1> SUFFICES ASSUME FitsInt PROVE Spec => []TimersSorted
  OBVIOUS
<1>1. SortedInv /\ [Next]_vars => SortedInv'
  BY SortedStep
<1>2. SortedInv => TimersSorted
  BY DEF SortedInv
<1>3. QED
  BY <1>1, <1>2, SortedInit, PTL DEF Spec

-----------------------------------------------------------------------------
(***************************************************************************)
(* RearmedWaits.  A timer that was armed during the pass is armed for a    *)
(* time after the one the pass compares with, because the clock does not   *)
(* go back and a period is positive; and what leaves the list is at most   *)
(* that time.                                                              *)
(***************************************************************************)
RearmedLater ==
  /\ snap <= now
  /\ \A t \in rearmed : pc = "timers" /\ timerTime[t] > snap

\* mloop_run is entered only after mloop_init, and mloop_destroy is not called
\* while it runs.
RunsInitialised == pc # "idle" => initialised

RearmedInv == TypeOK /\ RunsInitialised /\ RearmedLater

\* The rest of the program does not take the loop out of the pass, and does
\* not call a callback during it.
LEMMA RestOfProgram ==
  ASSUME TypeOK,
         \/ Event(EventUserStep \/ EventLoopStep)
         \/ Proc(ProcUserStep \/ ProcLoopStep \/ ProcKernelStep)
         \/ Io(IoUserStep \/ IoLoopStep)
         \/ Core(Return) \/ Core(Stop) \/ Core(SigTerm) \/ Core(Tick)
         \/ MLoopInit \/ MLoopRun
         \/ LoopExit \/ Poll \/ EpollEnter \/ EpollTimeout
         \/ UNCHANGED vars
  PROVE  /\ UNCHANGED timerVars
         /\ now' >= now
         /\ pc = "timers" => pc' = "timers" /\ callback' \in {callback, Nobody}
         /\ RunsInitialised => RunsInitialised'
<1> USE DEF RunsInitialised
<1>1. now \in Nat
  BY ClockAssumption DEF TypeOK, CoreTypeOK
<1>2. CASE Event(EventUserStep \/ EventLoopStep)
  <2>1. UNCHANGED timerVars
    BY <1>2 DEF Event
  <2>2. CASE EventUserStep
    BY <1>1, <2>1, <2>2
    DEF EventUserStep, EventInit, EventNew, EventAdd, EventRemove, EventDelete,
        EventFire, SignalFire, Interrupted, coreVars
  <2>3. CASE EventLoopStep
    BY <1>1, <2>1, <2>3
    DEF EventLoopStep, EventsBegin, HandleEvent, EventsDone, At, GoTo
  <2>4. QED
    BY <1>2, <2>2, <2>3 DEF Event
<1>3. CASE Proc(ProcUserStep \/ ProcLoopStep \/ ProcKernelStep)
  <2>1. UNCHANGED timerVars
    BY <1>3 DEF Proc
  <2>2. CASE ProcUserStep
    BY <1>1, <2>1, <2>2
    DEF ProcUserStep, ProcNew, ProcRerun, ProcCancel, ProcDelete, coreVars
  <2>3. CASE ProcLoopStep
    BY <1>1, <2>1, <2>3
    DEF ProcLoopStep, ProcsBegin, Reap, ProcsDone, At, GoTo
  <2>4. CASE ProcKernelStep
    BY <1>1, <2>1, <2>4
    DEF ProcKernelStep, SigChld, ChildExit, Interrupted, coreVars
  <2>5. QED
    BY <1>3, <2>2, <2>3, <2>4 DEF Proc
<1>4. CASE Io(IoUserStep \/ IoLoopStep)
  <2>1. UNCHANGED timerVars
    BY <1>4 DEF Io
  <2>2. CASE IoUserStep
    BY <1>1, <2>1, <2>2
    DEF IoUserStep, IoNew, IoCancel, IoDelete, UserRead, FileChange, coreVars
  <2>3. CASE IoLoopStep
    <3>1. pc \in {"wait", "io"}
      BY <2>3 DEF IoLoopStep, EpollReport, HandleIo, ReaderRead, ReaderEof,
                  ReaderDone, IosDone, At
    <3>2. UNCHANGED <<initialised, now>>
      BY <2>3 DEF IoLoopStep, EpollReport, HandleIo, ReaderRead, ReaderEof,
                  ReaderDone, IosDone, GoTo, coreVars
    <3>3. QED
      BY <1>1, <2>1, <3>1, <3>2
  <2>4. QED
    BY <1>4, <2>2, <2>3 DEF Io
<1>5. CASE Core(Return) \/ Core(Stop) \/ Core(SigTerm) \/ Core(Tick)
  BY <1>1, <1>5 DEF Core, Return, Stop, SigTerm, Tick, Interrupted
<1>6. CASE \/ MLoopInit \/ MLoopRun
           \/ LoopExit \/ Poll \/ EpollEnter \/ EpollTimeout
  BY <1>1, <1>6 DEF MLoopInit, MLoopRun, LoopExit, Poll, EpollEnter,
                    EpollTimeout, At, GoTo
<1>7. CASE UNCHANGED vars
  BY <1>1, <1>7 DEF vars, coreVars
<1>8. QED
  BY <1>2, <1>3, <1>4, <1>5, <1>6, <1>7

LEMMA PassCases ==
  ASSUME TypeOK, [Next]_vars
  PROVE  \/ Timer(TimerUserStep \/ TimerLoopStep)
         \/ MLoopDestroy
         \/ /\ UNCHANGED timerVars
            /\ now' >= now
            /\ pc = "timers" =>
                 pc' = "timers" /\ callback' \in {callback, Nobody}
            /\ RunsInitialised => RunsInitialised'
<1>1. CASE UNCHANGED vars
  BY <1>1, RestOfProgram
<1>2. CASE Next
  BY <1>2, NextCases, RestOfProgram
<1>3. QED
  BY <1>1, <1>2

\* Arming a timer during the pass: for later than the pass began.
LEMMA TimerUserRearmed ==
  ASSUME RearmedInv, TimerUserStep
  PROVE  RearmedLater'
<1>1. PICK t \in Timers :
        \/ TimerInit(t)
        \/ \E m \in Msecs : TimerNew(t, m)
        \/ \E m \in Msecs \cup {0} : TimerIn(t, m) \/ TimerAdd(t, m)
        \/ TimerCancel(t)
        \/ TimerDelete(t)
  BY DEF TimerUserStep
<1>2. /\ \A x \in Msecs : x \in Nat /\ x > 0
      /\ now \in Nat /\ snap \in Nat
      /\ timerMsec[t] \in Msecs \cup {0}
      /\ timerTime \in [Timers -> 0 .. MaxTime]
      /\ rearmed \subseteq Timers
  BY TimerAssumption, ClockAssumption
  DEF RearmedInv, TypeOK, CoreTypeOK, TimersTypeOK
<1>3. UNCHANGED <<coreVars, snap>>
  BY <1>1 DEF TimerInit, TimerNew, TimerIn, TimerAdd, Retrigger, TimerCancel,
              TimerDelete
<1>4. ASSUME \A x \in Timers \ {t} : timerTime'[x] = timerTime[x],
             NotRearmed(t)
      PROVE  RearmedLater'
  BY <1>2, <1>3, <1>4
  DEF NotRearmed, RearmedInv, RearmedLater, coreVars
<1>5. ASSUME NEW time \in Nat, TimerSet(t, time), time > now, Rearmed(t)
      PROVE  RearmedLater'
  <2>1. timerTime' = [timerTime EXCEPT ![t] = time]
    BY <1>5 DEF TimerSet
  <2>2. /\ timerTime'[t] = time
        /\ \A x \in Timers \ {t} : timerTime'[x] = timerTime[x]
    BY <1>2, <2>1
  <2>3. time > snap
    BY <1>2, <1>5 DEF RearmedInv, RearmedLater
  <2>4. rearmed' \subseteq rearmed \cup {t} /\ (pc # "timers" => rearmed' = rearmed)
    BY <1>5 DEF Rearmed
  <2>5. QED
    BY <1>2, <1>3, <2>2, <2>3, <2>4
    DEF RearmedInv, RearmedLater, coreVars
<1>6. CASE TimerInit(t)
  BY <1>3, <1>6 DEF TimerInit, RearmedInv, RearmedLater, coreVars
<1>7. ASSUME NEW m \in Msecs, TimerNew(t, m)
      PROVE  RearmedLater'
  <2>1. now + m \in Nat /\ now + m > now
    BY <1>2
  <2>2. QED
    BY <1>5, <1>7, <2>1 DEF TimerNew
<1>8. ASSUME NEW m \in Msecs \cup {0}, TimerIn(t, m)
      PROVE  RearmedLater'
  <2>1. Period(t, m) > 0 /\ Period(t, m) \in Nat
    <3>1. \A x \in Msecs \cup {0} : x \in Nat
      BY <1>2
    <3>2. QED
      BY <1>2, <1>8, <3>1 DEF TimerIn, Retrigger, Period
  <2>2. now + Period(t, m) \in Nat /\ now + Period(t, m) > now
    BY <1>2, <2>1
  <2>3. CASE initialised
    BY <1>5, <1>8, <2>2, <2>3 DEF TimerIn, Retrigger
  <2>4. CASE ~initialised
    <3>1. rearmed' = rearmed /\ timerTime' = timerTime
      BY <1>8, <2>4
      DEF TimerIn, Retrigger, Rearmed, RearmedInv, RunsInitialised
    <3>2. QED
      BY <1>3, <3>1 DEF RearmedInv, RearmedLater, coreVars
  <2>5. QED
    BY <2>3, <2>4
<1>9. ASSUME NEW m \in Msecs \cup {0}, TimerAdd(t, m)
      PROVE  RearmedLater'
  <2>1. \A x \in Timers \ {t} : timerTime'[x] = timerTime[x]
    BY <1>2, <1>9 DEF TimerAdd, Retrigger, TimerSet
  <2>2. QED
    BY <1>4, <1>9, <2>1 DEF TimerAdd
<1>10. CASE TimerCancel(t)
  BY <1>4, <1>10 DEF TimerCancel
<1>11. CASE TimerDelete(t)
  <2>1. \A x \in Timers \ {t} : timerTime'[x] = timerTime[x]
    BY <1>2, <1>11 DEF TimerDelete, TimerFreed
  <2>2. QED
    BY <1>4, <1>11, <2>1 DEF TimerDelete
<1>12. QED
  BY <1>1, <1>6, <1>7, <1>8, <1>9, <1>10, <1>11

LEMMA ExpiredTimer ==
  ASSUME RearmedInv, ExpireTimer
  PROVE  /\ Head(timers) \in Timers \ rearmed
         /\ pc' = "timers"
         /\ RearmedLater'
<1> DEFINE t == Head(timers)
<1>1. timers # << >> /\ timerTime[t] <= snap
  BY DEF ExpireTimer, Expired
<1>2. /\ t \in Timers
      /\ snap \in Nat
      /\ timerTime \in [Timers -> 0 .. MaxTime]
      /\ rearmed \subseteq Timers
  <2>1. timers \in Seq(Timers)
    BY DEF RearmedInv, TypeOK, TimersTypeOK
  <2>2. t \in Timers
    BY <1>1, <2>1, ListTypes
  <2> HIDE DEF t
  <2>3. QED
    BY <2>2, ClockAssumption DEF RearmedInv, TypeOK, TimersTypeOK
<1> HIDE DEF t
<1>3. t \notin rearmed
  BY <1>1, <1>2, TimerAssumption DEF RearmedInv, RearmedLater
<1>4. /\ TimerFreed(t) \/ timerTime' = timerTime
      /\ NotRearmed(t)
      /\ UNCHANGED <<pc, now, snap>>
      /\ pc = "timers"
  BY DEF ExpireTimer, At, t
<1>5. \A x \in Timers \ {t} : timerTime'[x] = timerTime[x]
  BY <1>2, <1>4 DEF TimerFreed
<1>6. RearmedLater'
  BY <1>2, <1>4, <1>5 DEF NotRearmed, RearmedInv, RearmedLater
<1>7. QED
  BY <1>2, <1>3, <1>4, <1>6 DEF t

LEMMA RearmedStep == RearmedInv /\ [Next]_vars => RearmedInv'
<1> SUFFICES ASSUME RearmedInv, [Next]_vars PROVE RearmedInv'
  OBVIOUS
<1>1. TypeOK /\ TypeOK'
  BY TypeStep DEF RearmedInv
<1>2. now \in Nat /\ snap \in Nat
  BY <1>1, ClockAssumption DEF TypeOK, CoreTypeOK, TimersTypeOK
<1>3. CASE TimerUserStep
  <2>1. UNCHANGED coreVars
    BY <1>3 DEF TimerUserStep, TimerInit, TimerNew, TimerIn, TimerAdd,
                Retrigger, TimerCancel, TimerDelete
  <2>2. RunsInitialised'
    BY <2>1 DEF RearmedInv, RunsInitialised, coreVars
  <2>3. QED
    BY <1>1, <1>3, <2>2, TimerUserRearmed DEF RearmedInv
<1>4. CASE TimersBegin \/ TimersDone
  BY <1>1, <1>2, <1>4
  DEF TimersBegin, TimersDone, At, GoTo, RearmedInv, RunsInitialised,
      RearmedLater
<1>5. CASE ExpireTimer
  <2>1. RunsInitialised'
    BY <1>5 DEF ExpireTimer, RearmedInv, RunsInitialised
  <2>2. QED
    BY <1>1, <1>5, <2>1, ExpiredTimer DEF RearmedInv
<1>6. CASE MLoopDestroy
  BY <1>1, <1>6 DEF MLoopDestroy, TimersDestroy, RearmedInv, RunsInitialised,
                    RearmedLater
<1>7. CASE /\ UNCHANGED timerVars
           /\ now' >= now
           /\ pc = "timers" => pc' = "timers" /\ callback' \in {callback, Nobody}
           /\ RunsInitialised => RunsInitialised'
  <2>1. now' \in Nat
    BY <1>1, ClockAssumption DEF TypeOK, CoreTypeOK
  <2>2. snap' <= now'
    BY <1>2, <1>7, <2>1 DEF RearmedInv, RearmedLater, timerVars
  <2>3. QED
    BY <1>1, <1>7, <2>2 DEF RearmedInv, RearmedLater, timerVars
<1>8. QED
  BY <1>1, <1>3, <1>4, <1>5, <1>6, <1>7, PassCases DEF Timer, TimerLoopStep

LEMMA RearmedInit == Init => RearmedInv
<1>1. Init => RunsInitialised /\ RearmedLater
  BY DEF Init, CoreInit, TimersInit, RunsInitialised, RearmedLater
<1>2. QED
  BY <1>1, TypeInit DEF RearmedInv

\* A pass over the timers does not run a timer that a callback armed for some
\* milliseconds from now during that pass.
THEOREM RearmedTimersWait == Spec => RearmedWaits
<1>1. ASSUME RearmedInv, [Next]_vars
      PROVE  [At("timers") /\ callback' # Nobody
                => callback' \notin rearmed]_callback
  <2> SUFFICES ASSUME pc = "timers", callback = Nobody, callback' # Nobody
               PROVE  callback' \notin rearmed
    BY DEF At
  <2>1. TypeOK
    BY <1>1 DEF RearmedInv
  <2>2. CASE TimerUserStep
    BY <2>2 DEF TimerUserStep, TimerInit, TimerNew, TimerIn, TimerAdd,
                Retrigger, TimerCancel, TimerDelete, coreVars
  <2>3. CASE TimersBegin \/ TimersDone
    BY <2>3 DEF TimersBegin, TimersDone, GoTo
  <2>4. CASE ExpireTimer
    BY <1>1, <2>4, ExpiredTimer DEF ExpireTimer, Call
  <2>5. CASE MLoopDestroy
    BY <2>5 DEF MLoopDestroy
  <2>6. QED
    BY <1>1, <2>1, <2>2, <2>3, <2>4, <2>5, PassCases DEF Timer, TimerLoopStep
<1>2. QED
  BY <1>1, RearmedInit, RearmedStep, PTL DEF Spec, RearmedWaits

-----------------------------------------------------------------------------
(***************************************************************************)
(* TimersAreAService.  The first timer of the list is the one that the     *)
(* service serves next: the list is in the order of the times, and among   *)
(* equal times in the order of the arming.                                 *)
(***************************************************************************)
ArmedInOrder ==
  \A x, y \in Timers :
    Precedes(timers, x, y) /\ timerTime[x] = timerTime[y] => Precedes(armOrder, x, y)

ServiceInv ==
  /\ SortedInv
  /\ RearmedInv
  /\ IsInjective(armOrder)
  /\ ToSet(armOrder) = ToSet(timers)
  /\ ArmedInOrder

\* The variables of the service.
Due == [t \in Timers |-> IF timerPending[t] THEN timerTime[t] ELSE 0]
Serving == IF callback \in Timers THEN callback ELSE Nobody

ServiceVars == <<armOrder, Due, now, Serving>>

LEMMA ServiceFacts ==
  ASSUME ServiceInv
  PROVE  /\ timers \in Seq(Timers) /\ IsInjective(timers)
         /\ armOrder \in Seq(Timers) /\ IsInjective(armOrder)
         /\ ToSet(armOrder) = ToSet(timers)
         /\ ToSet(timers) \subseteq Timers
         /\ timerTime \in [Timers -> 0 .. MaxTime]
         /\ timerPending \in [Timers -> BOOLEAN]
         /\ \A t \in Timers : timerPending[t] <=> t \in ToSet(timers)
         /\ MaxTime \in Nat /\ now \in Nat /\ snap \in Nat /\ snap <= now
<1>1. /\ timers \in Seq(Timers) /\ IsInjective(timers)
      /\ armOrder \in Seq(Timers)
      /\ timerTime \in [Timers -> 0 .. MaxTime]
      /\ timerPending \in [Timers -> BOOLEAN]
      /\ \A t \in Timers : timerPending[t] <=> t \in ToSet(timers)
  BY DEF ServiceInv, SortedInv, TimersInv, TypeOK, TimersTypeOK, TimerListConsistent
<1>2. MaxTime \in Nat /\ now \in Nat /\ snap \in Nat /\ snap <= now
  BY TimerAssumption, ClockAssumption
  DEF ServiceInv, RearmedInv, RearmedLater, TypeOK, TimersTypeOK, CoreTypeOK
<1>3. ToSet(timers) \subseteq Timers
  BY <1>1, ToSetMember, ElementOfSeq
<1>4. QED
  BY <1>1, <1>2, <1>3 DEF ServiceInv

\* What the application does with a timer: it arms it, it takes it out of the list,
\* or it does neither.
LEMMA UserArms ==
  ASSUME ServiceInv, TimerUserStep
  PROVE  /\ UNCHANGED coreVars
         /\ \E t \in Timers :
              \/ \E time \in Nat : TimerSet(t, time)
              \/ TimerCancel(t) \/ TimerDelete(t)
              \/ UNCHANGED <<timers, timerPending, timerTime, armOrder>>
<1>1. PICK t \in Timers :
        \/ TimerInit(t)
        \/ \E m \in Msecs : TimerNew(t, m)
        \/ \E m \in Msecs \cup {0} : TimerIn(t, m) \/ TimerAdd(t, m)
        \/ TimerCancel(t)
        \/ TimerDelete(t)
  BY DEF TimerUserStep
<1>2. UNCHANGED coreVars
  BY <1>1 DEF TimerInit, TimerNew, TimerIn, TimerAdd, Retrigger, TimerCancel,
              TimerDelete
<1>3. /\ \A m \in Msecs \cup {0} : m \in Nat
      /\ now \in Nat /\ timerTime[t] \in Nat /\ timerMsec[t] \in Msecs \cup {0}
  BY TimerAssumption, ServiceFacts
  DEF ServiceInv, SortedInv, TimersInv, TypeOK, TimersTypeOK
<1>4. \A m \in Msecs \cup {0} :
        now + m \in Nat /\ now + Period(t, m) \in Nat /\ timerTime[t] + Period(t, m) \in Nat
  BY <1>3 DEF Period
<1>5. CASE \E m \in Msecs : TimerNew(t, m)
  BY <1>2, <1>4, <1>5 DEF TimerNew
<1>6. CASE \E m \in Msecs \cup {0} : TimerIn(t, m) \/ TimerAdd(t, m)
  BY <1>2, <1>4, <1>6 DEF TimerIn, TimerAdd, Retrigger
<1>7. QED
  BY <1>1, <1>2, <1>5, <1>6 DEF TimerInit

-----------------------------------------------------------------------------
\* A timer that is armed goes behind all that are armed for its time.
LEMMA SetInOrder ==
  ASSUME FitsInt, ServiceInv, NEW t \in Timers, NEW time \in Nat, TimerSet(t, time)
  PROVE  /\ IsInjective(armOrder')
         /\ ToSet(armOrder') = ToSet(timers')
         /\ ArmedInOrder'
<1> DEFINE list == Cancelled(t)
           order == RemoveFirst(armOrder, t)
           timeNow == [timerTime EXCEPT ![t] = time]
<1>1. /\ list \in Seq(Timers) /\ IsInjective(list)
      /\ ToSet(list) = ToSet(timers) \ {t}
  BY CancelledList DEF ServiceInv, SortedInv
<1>2. /\ order \in Seq(Timers) /\ IsInjective(order)
      /\ ToSet(order) = ToSet(timers) \ {t}
  BY ServiceFacts, RemoveFirstInjective
<1>3. /\ timers' = TimerOrder(list, t, timeNow)
      /\ timerTime' = timeNow
      /\ armOrder' = Append(order, t)
      /\ time <= MaxTime
  BY DEF TimerSet, Disarmed
<1>4. /\ IsInjective(armOrder')
      /\ ToSet(armOrder') = ToSet(timers) \cup {t}
      /\ t \notin ToSet(list)
  <2>1. t \notin ToSet(order) /\ t \notin ToSet(list)
    BY <1>1, <1>2
  <2> HIDE DEF order, list
  <2>2. /\ IsInjective(Append(order, t))
        /\ ToSet(Append(order, t)) = ToSet(order) \cup {t}
    BY <1>2, <2>1, AppendInjectiveSeq
  <2>3. QED
    BY <1>2, <1>3, <2>1, <2>2
<1>5. ToSet(timers') = ToSet(timers) \cup {t}
  BY TimerSetList DEF ServiceInv, SortedInv
<1>6. \A x, y \in Timers :
        Precedes(list, x, y) => Precedes(timers, x, y) /\ x # t /\ y # t
  <2>1. CASE timerPending[t]
    BY <2>1, ServiceFacts, RemoveFirstPrecedes DEF Cancelled, ListRemove
  <2>2. CASE ~timerPending[t]
    <3>1. list = timers /\ t \notin ToSet(timers)
      BY <2>2, ServiceFacts DEF Cancelled
    <3> HIDE DEF list
    <3>2. QED
      BY <3>1, ServiceFacts, PrecedesMembers
  <2>3. QED
    BY <2>1, <2>2
<1>7. /\ timeNow \in [Timers -> 0 .. MaxTime]
      /\ timeNow[t] = time
      /\ \A x \in Timers \ {t} : timeNow[x] = timerTime[x]
      /\ \A x \in Timers : timeNow[x] \in Nat
  BY <1>3, ServiceFacts
<1>8. InOrder(list, timeNow)
  <2>1. InOrder(list, timerTime)
    BY ServiceFacts, SortedIsInOrder, RemoveFirstInOrder
    DEF ServiceInv, SortedInv, Cancelled, ListRemove
  <2>2. \A x \in ToSet(list) : timeNow[x] = timerTime[x]
    BY <1>1, <1>4, <1>7, ServiceFacts
  <2> HIDE DEF list, timeNow
  <2>3. QED
    BY <1>1, <2>1, <2>2, InOrderAgree
<1> HIDE DEF list, order, timeNow
<1>9. PICK k \in 1 .. Len(list) + 1 :
        /\ TimerOrder(list, t, timeNow) = InsertAt(list, k, t)
        /\ \A i \in 1 .. Len(list) :
             /\ i < k => ~(IntCast(timeNow[list[i]] - timeNow[t]) > 0)
             /\ i = k => IntCast(timeNow[list[i]] - timeNow[t]) > 0
  BY <1>1, TimerOrderPlace
<1>10. Len(list) \in Nat /\ \A i \in 1 .. Len(list) : list[i] \in Timers
  BY <1>1, LenProperties, ElementOfSeq
<1>11. \A i \in 1 .. Len(list) : i >= k => timeNow[list[i]] # timeNow[t]
  <2> SUFFICES ASSUME NEW i \in 1 .. Len(list), i >= k
               PROVE  timeNow[list[i]] > timeNow[t]
    BY <1>7, <1>10
  <2>1. k \in 1 .. Len(list)
    BY <1>10
  <2>2. IntCast(timeNow[list[k]] - timeNow[t]) = timeNow[list[k]] - timeNow[t]
    BY <1>7, <1>10, <2>1, IntCastExact
  <2>3. timeNow[list[k]] > timeNow[t]
    BY <1>7, <1>9, <1>10, <2>1, <2>2
  <2>4. timeNow[list[k]] <= timeNow[list[i]]
    <3>1. CASE i = k
      BY <1>7, <1>10, <3>1
    <3>2. CASE i > k
      BY <1>8, <2>1, <3>2 DEF InOrder
    <3>3. QED
      BY <1>10, <2>1, <3>1, <3>2
  <2>5. QED
    BY <1>7, <1>10, <2>1, <2>3, <2>4
<1>12. ASSUME NEW x \in Timers, NEW y \in Timers,
              Precedes(timers', x, y), timerTime'[x] = timerTime'[y]
       PROVE  Precedes(armOrder', x, y)
  <2>1. \/ Precedes(list, x, y)
        \/ x = t /\ \E i \in 1 .. Len(list) : i >= k /\ list[i] = y
        \/ y = t /\ x \in ToSet(list)
    BY <1>1, <1>3, <1>9, <1>12, InsertAtPrecedes
  <2>2. CASE Precedes(list, x, y)
    <3>1. Precedes(timers, x, y) /\ x # t /\ y # t
      BY <1>6, <2>2
    <3>2. timerTime[x] = timerTime[y]
      BY <1>3, <1>7, <1>12, <3>1
    <3>3. Precedes(armOrder, x, y)
      BY <3>1, <3>2 DEF ServiceInv, ArmedInOrder
    <3>4. Precedes(order, x, y)
      BY <3>1, <3>3, ServiceFacts, RemoveFirstPrecedes DEF order
    <3>5. QED
      BY <1>2, <1>3, <3>4, AppendPrecedes
  <2>3. CASE x = t /\ \E i \in 1 .. Len(list) : i >= k /\ list[i] = y
    BY <1>3, <1>11, <1>12, <2>3
  <2>4. CASE y = t /\ x \in ToSet(list)
    BY <1>1, <1>2, <1>3, <2>4, AppendPrecedes
  <2>5. QED
    BY <2>1, <2>2, <2>3, <2>4
<1>13. QED
  BY <1>4, <1>5, <1>12 DEF ArmedInOrder

\* A timer that is disarmed, and may take any time then.
LEMMA RemovedInOrder ==
  ASSUME ServiceInv, NEW t \in Timers, timers' = Cancelled(t) \/ timers' = ListRemove(timers, t),
         armOrder' = Disarmed(armOrder, t),
         \A x \in Timers \ {t} : timerTime'[x] = timerTime[x]
  PROVE  /\ IsInjective(armOrder')
         /\ ToSet(armOrder') = ToSet(timers')
         /\ ArmedInOrder'
<1>1. timers' = RemoveFirst(timers, t)
  BY ServiceFacts, RemoveFirstAbsent DEF Cancelled, ListRemove
<1>2. armOrder' = RemoveFirst(armOrder, t)
  BY DEF Disarmed
<1>3. \A x, y \in Timers :
        /\ Precedes(timers', x, y) => Precedes(timers, x, y) /\ x # t /\ y # t
        /\ Precedes(armOrder, x, y) /\ x # t /\ y # t => Precedes(armOrder', x, y)
  BY <1>1, <1>2, ServiceFacts, RemoveFirstPrecedes
<1>4. ArmedInOrder'
  BY <1>3 DEF ServiceInv, ArmedInOrder
<1>5. /\ IsInjective(RemoveFirst(armOrder, t)) /\ IsInjective(RemoveFirst(timers, t))
      /\ ToSet(RemoveFirst(armOrder, t)) = ToSet(armOrder) \ {t}
      /\ ToSet(RemoveFirst(timers, t)) = ToSet(timers) \ {t}
  BY ServiceFacts, RemoveFirstInjective
<1>6. QED
  BY <1>1, <1>2, <1>4, <1>5, ServiceFacts

LEMMA ExpiredInOrder ==
  ASSUME ServiceInv, timers # << >>, timers' = Tail(timers),
         armOrder' = Disarmed(armOrder, Head(timers)),
         \A x \in Timers \ {Head(timers)} : timerTime'[x] = timerTime[x]
  PROVE  /\ IsInjective(armOrder')
         /\ ToSet(armOrder') = ToSet(timers')
         /\ ArmedInOrder'
<1> DEFINE t == Head(timers)
<1>1. /\ t \in ToSet(timers)
      /\ Tail(timers) \in Seq(Timers)
      /\ ToSet(Tail(timers)) = ToSet(timers) \ {t}
  BY ServiceFacts, TailInjective
<1>2. armOrder' = RemoveFirst(armOrder, t)
  BY DEF Disarmed
<1> HIDE DEF t
<1>3. /\ IsInjective(RemoveFirst(armOrder, t))
      /\ ToSet(RemoveFirst(armOrder, t)) = ToSet(timers) \ {t}
  BY ServiceFacts, RemoveFirstInjective
<1>4. ASSUME NEW x \in Timers, NEW y \in Timers,
             Precedes(timers', x, y), timerTime'[x] = timerTime'[y]
      PROVE  Precedes(armOrder', x, y)
  <2>1. Precedes(timers, x, y)
    BY <1>4, ServiceFacts, TailPrecedes
  <2>2. x # t /\ y # t
    BY <1>1, <1>4, PrecedesMembers
  <2>3. timerTime[x] = timerTime[y]
    BY <1>4, <2>2 DEF t
  <2>4. Precedes(armOrder, x, y)
    BY <2>1, <2>3 DEF ServiceInv, ArmedInOrder
  <2>5. QED
    BY <1>2, <2>2, <2>4, ServiceFacts, RemoveFirstPrecedes
<1>5. QED
  BY <1>1, <1>2, <1>3, <1>4 DEF ArmedInOrder

-----------------------------------------------------------------------------
\* ServiceInv is inductive.
LEMMA TimerUserOrder ==
  ASSUME FitsInt, ServiceInv, TimerUserStep
  PROVE  /\ IsInjective(armOrder')
         /\ ToSet(armOrder') = ToSet(timers')
         /\ ArmedInOrder'
<1>1. PICK t \in Timers :
        \/ \E time \in Nat : TimerSet(t, time)
        \/ TimerCancel(t) \/ TimerDelete(t)
        \/ UNCHANGED <<timers, timerPending, timerTime, armOrder>>
  BY UserArms
<1>2. CASE \E time \in Nat : TimerSet(t, time)
  BY <1>2, SetInOrder
<1>3. CASE UNCHANGED <<timers, timerTime, armOrder>>
  BY <1>3, ServiceFacts DEF ServiceInv, ArmedInOrder
<1>4. CASE TimerCancel(t) \/ TimerDelete(t)
  <2>1. \A x \in Timers \ {t} : timerTime'[x] = timerTime[x]
    BY <1>4, ServiceFacts DEF TimerCancel, TimerDelete, TimerFreed
  <2>2. QED
    BY <1>4, <2>1, RemovedInOrder DEF TimerCancel, TimerDelete
<1>5. QED
  BY <1>1, <1>2, <1>3, <1>4

LEMMA ExpireTimerFacts ==
  ASSUME ServiceInv, ExpireTimer
  PROVE  /\ timers # << >>
         /\ Head(timers) \in Timers
         /\ timers' = Tail(timers)
         /\ armOrder' = Disarmed(armOrder, Head(timers))
         /\ timerPending' = [timerPending EXCEPT ![Head(timers)] = FALSE]
         /\ \A x \in Timers \ {Head(timers)} : timerTime'[x] = timerTime[x]
<1> DEFINE t == Head(timers)
<1>1. /\ timers # << >>
      /\ timers' = Tail(timers)
      /\ armOrder' = Disarmed(armOrder, t)
      /\ TimerFreed(t) \/ (timerPending' = [timerPending EXCEPT ![t] = FALSE]
                             /\ timerTime' = timerTime)
  BY DEF ExpireTimer, Expired
<1>2. t \in Timers
  BY <1>1, ServiceFacts, TailInjective
<1> HIDE DEF t
<1>3. QED
  BY <1>1, <1>2, ServiceFacts DEF TimerFreed, t

LEMMA ServiceStep == FitsInt /\ ServiceInv /\ [Next]_vars => ServiceInv'
<1> SUFFICES ASSUME FitsInt, ServiceInv, [Next]_vars PROVE ServiceInv'
  OBVIOUS
<1>1. SortedInv' /\ RearmedInv'
  BY SortedStep, RearmedStep DEF ServiceInv
<1> DEFINE Order == /\ IsInjective(armOrder)
                    /\ ToSet(armOrder) = ToSet(timers)
                    /\ ArmedInOrder
<1> SUFFICES Order'
  BY <1>1 DEF ServiceInv
<1>2. CASE TimerUserStep
  BY <1>2, TimerUserOrder
<1>3. CASE TimersBegin \/ TimersDone \/ UNCHANGED timerVars
  <2>1. UNCHANGED <<timers, timerTime, armOrder>>
    BY <1>3 DEF TimersBegin, TimersDone, timerVars
  <2>2. QED
    BY <2>1 DEF ServiceInv, ArmedInOrder
<1>4. CASE ExpireTimer
  BY <1>4, ExpireTimerFacts, ExpiredInOrder
<1>5. CASE MLoopDestroy
  <2>1. timers' = << >> /\ armOrder' = << >>
    BY <1>5 DEF MLoopDestroy, TimersDestroy
  <2>2. IsInjective(<< >>) /\ \A x, y : ~Precedes(<< >>, x, y)
    BY DEF IsInjective, Precedes
  <2>3. QED
    BY <2>1, <2>2 DEF ArmedInOrder
<1>6. QED
  BY <1>2, <1>3, <1>4, <1>5, OtherSteps DEF Timer, TimerLoopStep

LEMMA ServiceInit == Init => ServiceInv
<1>1. IsInjective(<< >>) /\ \A x, y : ~Precedes(<< >>, x, y)
  BY DEF IsInjective, Precedes
<1>2. QED
  BY <1>1, SortedInit, RearmedInit DEF Init, TimersInit, ServiceInv, ArmedInOrder

-----------------------------------------------------------------------------
\* The operators that the service takes from the library are those of the loop.
LEMMA ServiceOperators ==
  \A s, e : Service!RemoveFirst(s, e) = RemoveFirst(s, e) /\ Service!ToSet(s) = ToSet(s)
BY DEF Service!RemoveFirst, RemoveFirst, Service!SelectInSeq, SelectInSeq,
       Service!RemoveAt, RemoveAt, Service!Min, Min, Service!ToSet, ToSet

LEMMA ServiceDisarm ==
  ASSUME NEW t, t \in ToSet(armOrder),
         armOrder' = RemoveFirst(armOrder, t),
         Due' = [Due EXCEPT ![t] = 0],
         UNCHANGED <<now, Serving>>
  PROVE  Service!Disarm(t)
BY ServiceOperators DEF Service!Disarm, Service!Without, Due, Serving

LEMMA ServiceServe ==
  ASSUME NEW t, Serving = Nobody, Serving' = t,
         \E i \in DOMAIN armOrder : armOrder[i] = t /\ Service!First(i),
         Due[t] <= now,
         armOrder' = RemoveFirst(armOrder, t),
         Due' = [Due EXCEPT ![t] = 0],
         UNCHANGED now
  PROVE  Service!Serve(t)
BY ServiceOperators DEF Service!Serve, Service!Without, Due, Serving

LEMMA ServiceArm ==
  ASSUME NEW t, NEW d,
         armOrder' = Append(RemoveFirst(armOrder, t), t),
         Due' = [Due EXCEPT ![t] = d],
         UNCHANGED <<now, Serving>>
  PROVE  Service!Arm(t, d)
BY ServiceOperators DEF Service!Arm, Service!Without, Due, Serving

-----------------------------------------------------------------------------
\* The steps of the service that the steps of the loop are.
LEMMA ArmStep ==
  ASSUME ServiceInv, NEW t \in Timers, NEW time \in Nat, TimerSet(t, time),
         UNCHANGED <<now, callback>>
  PROVE  Service!Next
<1>1. time \in 0 .. MaxTime
  BY TimerAssumption DEF TimerSet
<1>2. armOrder' = Append(RemoveFirst(armOrder, t), t)
  BY DEF TimerSet, Disarmed
<1>3. Due' = [Due EXCEPT ![t] = time]
  BY ServiceFacts DEF TimerSet, Due
<1>4. UNCHANGED <<now, Serving>>
  BY DEF Serving
<1>5. Service!Arm(t, time)
  BY <1>2, <1>3, <1>4, ServiceArm
<1>6. QED
  BY <1>1, <1>5 DEF Service!Next

\* What is changed when a timer is taken out of the list.
LEMMA DueWithout ==
  ASSUME ServiceInv, NEW t \in Timers,
         timerPending' = [timerPending EXCEPT ![t] = FALSE],
         \A x \in Timers \ {t} : timerTime'[x] = timerTime[x]
  PROVE  Due' = [Due EXCEPT ![t] = 0]
BY ServiceFacts DEF Due

LEMMA DisarmStep ==
  ASSUME ServiceInv, TimerUserStep, NEW t \in Timers, TimerCancel(t) \/ TimerDelete(t)
  PROVE  Service!Next \/ UNCHANGED ServiceVars
<1>1. /\ armOrder' = RemoveFirst(armOrder, t)
      /\ timerPending' = [timerPending EXCEPT ![t] = FALSE]
      /\ \A x \in Timers \ {t} : timerTime'[x] = timerTime[x]
      /\ UNCHANGED <<now, callback>>
  BY ServiceFacts DEF TimerCancel, TimerDelete, TimerFreed, Disarmed, coreVars
<1>2. Due' = [Due EXCEPT ![t] = 0] /\ UNCHANGED Serving
  BY <1>1, DueWithout DEF Serving
<1>3. CASE timerPending[t]
  <2>1. t \in ToSet(armOrder)
    BY <1>3, ServiceFacts
  <2>2. Service!Disarm(t)
    BY <1>1, <1>2, <2>1, ServiceDisarm
  <2>3. QED
    BY <2>2 DEF Service!Next
<1>4. CASE ~timerPending[t]
  <2>1. armOrder' = armOrder
    BY <1>1, <1>4, ServiceFacts, RemoveFirstAbsent
  <2>2. Due' = Due
    BY <1>2, <1>4, ServiceFacts DEF Due
  <2>3. QED
    BY <1>1, <1>2, <2>1, <2>2 DEF ServiceVars
<1>5. QED
  BY <1>3, <1>4

\* The first of the list is the one whose turn it is.
LEMMA HeadIsFirst ==
  ASSUME ServiceInv, timers # << >>
  PROVE  \E i \in DOMAIN armOrder : armOrder[i] = Head(timers) /\ Service!First(i)
<1> DEFINE t == Head(timers)
<1>1. t \in ToSet(timers) /\ t \in Timers
  BY ServiceFacts, TailInjective
<1>2. /\ armOrder \in Seq(Timers)
      /\ DOMAIN armOrder = 1 .. Len(armOrder)
      /\ Len(armOrder) \in Nat
      /\ \A k, l \in DOMAIN armOrder : armOrder[k] = armOrder[l] => k = l
  BY ServiceFacts, LenProperties DEF IsInjective
<1> HIDE DEF t
<1>3. PICK i \in DOMAIN armOrder : armOrder[i] = t
  <2>1. t \in ToSet(armOrder)
    BY <1>1, ServiceFacts
  <2>2. QED
    BY <1>2, <2>1, ToSetMember
<1>4. ASSUME NEW j \in DOMAIN armOrder
      PROVE  \/ Due[t] < Due[armOrder[j]]
             \/ Due[t] = Due[armOrder[j]] /\ i <= j
  <2> DEFINE y == armOrder[j]
  <2>1. y \in ToSet(timers) /\ y \in Timers
    BY <1>2, ServiceFacts, ToSetMember
  <2>2. /\ Due[t] = timerTime[t] /\ Due[y] = timerTime[y]
        /\ timerTime[t] \in Nat /\ timerTime[y] \in Nat
    BY <1>1, <2>1, ServiceFacts DEF Due
  <2>3. CASE y = t
    <3>1. i = j
      BY <1>2, <1>3, <2>3, ServiceFacts, InjectiveSeq
    <3>2. QED
      BY <1>2, <2>3, <3>1
  <2>4. CASE y # t
    <3>1. Precedes(timers, t, y)
      BY <2>1, <2>4, ServiceFacts, HeadPrecedes DEF t
    <3>2. timerTime[t] <= timerTime[y]
      BY <3>1 DEF Precedes, ServiceInv, SortedInv, TimersSorted
    <3>3. CASE timerTime[t] < timerTime[y]
      BY <2>2, <3>3
    <3>4. CASE timerTime[t] = timerTime[y]
      <4>1. Precedes(armOrder, t, y)
        BY <1>1, <2>1, <3>1, <3>4 DEF ServiceInv, ArmedInOrder
      <4>2. PICK k, l \in DOMAIN armOrder : k < l /\ armOrder[k] = t /\ armOrder[l] = y
        BY <1>2, <4>1 DEF Precedes
      <4>3. k = i /\ l = j
        BY <1>2, <1>3, <4>2
      <4>4. QED
        BY <1>2, <2>2, <3>4, <4>2, <4>3
    <3>5. QED
      BY <2>2, <3>2, <3>3, <3>4
  <2>5. QED
    BY <2>3, <2>4
<1>5. Service!First(i)
  BY <1>3, <1>4 DEF Service!First, Due
<1>6. QED
  BY <1>3, <1>5 DEF t

\* The first timer is served; one without a callback is only disarmed.
LEMMA ServeStep ==
  ASSUME ServiceInv, ExpireTimer
  PROVE  Service!Next
<1> PICK t \in Timers : t = Head(timers)
  BY ExpireTimerFacts
<1>1. /\ timers # << >>
      /\ armOrder' = RemoveFirst(armOrder, t)
      /\ Due' = [Due EXCEPT ![t] = 0]
  BY ExpireTimerFacts, DueWithout DEF Disarmed
<1>2. /\ callback = Nobody /\ now' = now
      /\ callback' = IF t \in NullCb THEN Nobody ELSE t
      /\ timerTime[t] <= snap
  BY DEF ExpireTimer, Expired, At, Call
<1>3. t \in ToSet(timers)
  BY <1>1, ServiceFacts, TailInjective
<1>4. Nobody \notin Timers
  BY TimerAssumption
<1>5. CASE t \in NullCb
  <2>1. UNCHANGED Serving /\ t \in ToSet(armOrder)
    BY <1>2, <1>3, <1>5, ServiceFacts DEF Serving
  <2>2. Service!Disarm(t)
    BY <1>1, <1>2, <2>1, ServiceDisarm
  <2>3. QED
    BY <1>1, <2>2 DEF Service!Next
<1>6. CASE t \notin NullCb
  <2>1. Serving = Nobody /\ Serving' = t
    BY <1>1, <1>2, <1>4, <1>6 DEF Serving
  <2>2. Due[t] <= now
    <3>1. Due[t] = timerTime[t] /\ timerTime[t] \in Nat
      BY <1>1, <1>3, ServiceFacts DEF Due
    <3>2. QED
      BY <1>2, <3>1, ServiceFacts
  <2>3. \E i \in DOMAIN armOrder : armOrder[i] = t /\ Service!First(i)
    BY <1>1, HeadIsFirst
  <2>4. Service!Serve(t)
    BY <1>1, <1>2, <2>1, <2>2, <2>3, ServiceServe
  <2>5. QED
    BY <1>1, <2>4 DEF Service!Next
<1>7. QED
  BY <1>5, <1>6

LEMMA ShutdownStep ==
  ASSUME MLoopDestroy
  PROVE  Service!Next
BY DEF MLoopDestroy, TimersDestroy, Service!Next, Service!Shutdown

\* The rest of the program lets time pass, or comes to the end of a callback.
LEMMA OtherCallback ==
  ASSUME ServiceInv,
         \/ Event(EventUserStep \/ EventLoopStep)
         \/ Proc(ProcUserStep \/ ProcLoopStep \/ ProcKernelStep)
         \/ Io(IoUserStep \/ IoLoopStep)
         \/ Core(Return) \/ Core(Stop) \/ Core(SigTerm) \/ Core(Tick)
         \/ MLoopInit \/ MLoopRun
         \/ LoopExit \/ Poll \/ EpollEnter \/ EpollTimeout
         \/ UNCHANGED vars
  PROVE  /\ UNCHANGED timerVars
         /\ \/ UNCHANGED <<now, callback>>
            \/ now' = now /\ callback' = Nobody
            \/ now' = now /\ callback = Nobody /\ callback' \in Events \cup Procs \cup Ios
            \/ now' = now + 1 /\ callback' = callback
<1>1. CASE Event(EventUserStep \/ EventLoopStep)
  <2>1. UNCHANGED timerVars
    BY <1>1 DEF Event
  <2>2. CASE EventUserStep
    BY <2>1, <2>2
    DEF EventUserStep, EventInit, EventNew, EventAdd, EventRemove, EventDelete,
        EventFire, SignalFire, coreVars
  <2>3. CASE EventLoopStep
    <3>1. itNext \in Events \cup {Nobody}
      BY DEF ServiceInv, SortedInv, TimersInv, TypeOK, EventsTypeOK
    <3>2. CASE HandleEvent
      BY <2>1, <3>1, <3>2 DEF HandleEvent, At, Call
    <3>3. CASE EventsBegin \/ EventsDone
      BY <2>1, <3>3 DEF EventsBegin, EventsDone, At, GoTo
    <3>4. QED
      BY <2>3, <3>2, <3>3 DEF EventLoopStep
  <2>4. QED
    BY <1>1, <2>2, <2>3 DEF Event
<1>2. CASE Proc(ProcUserStep \/ ProcLoopStep \/ ProcKernelStep)
  <2>1. UNCHANGED timerVars
    BY <1>2 DEF Proc
  <2>2. CASE ProcUserStep
    BY <2>1, <2>2
    DEF ProcUserStep, ProcNew, ProcRerun, ProcCancel, ProcDelete, coreVars
  <2>3. CASE ProcLoopStep
    <3>1. ProcsTypeOK
      BY DEF ServiceInv, SortedInv, TimersInv, TypeOK
    <3>2. ASSUME NEW pid \in Pids, Reap(pid)
          PROVE  /\ now' = now /\ callback = Nobody
                 /\ callback' \in Procs \cup {Nobody}
      <4>1. now' = now /\ callback = Nobody /\ Finish(pid)
        BY <3>2 DEF Reap, At
      <4>2. CASE \E k \in 1 .. Len(procs) : Call(procs[k])
        BY <3>1, <4>1, <4>2, ElementOfSeq DEF ProcsTypeOK, Call
      <4>3. QED
        BY <3>1, <4>1, <4>2, FinishFinds
    <3>3. CASE ProcsBegin \/ ProcsDone
      BY <2>1, <3>3 DEF ProcsBegin, ProcsDone, At, GoTo
    <3>4. QED
      BY <2>1, <2>3, <3>2, <3>3 DEF ProcLoopStep
  <2>4. CASE ProcKernelStep
    BY <2>1, <2>4 DEF ProcKernelStep, SigChld, ChildExit, coreVars
  <2>5. QED
    BY <1>2, <2>2, <2>3, <2>4 DEF Proc
<1>3. CASE Io(IoUserStep \/ IoLoopStep)
  <2>1. UNCHANGED timerVars
    BY <1>3 DEF Io
  <2>2. CASE IoUserStep
    BY <2>1, <2>2
    DEF IoUserStep, IoNew, IoCancel, IoDelete, UserRead, FileChange, coreVars
  <2>3. CASE IoLoopStep
    <3>1. DOMAIN batch \subseteq Ios /\ (reader # Nobody => reader \in Ios)
      BY IoAssumption DEF ServiceInv, SortedInv, TimersInv, TypeOK, IosTypeOK
    <3>2. QED
      BY <2>1, <2>3, <3>1
      DEF IoLoopStep, EpollReport, HandleIo, ReaderRead, ReaderEof, ReaderDone,
          IosDone, At, GoTo, Call, coreVars
  <2>4. QED
    BY <1>3, <2>2, <2>3 DEF Io
<1>4. CASE Core(Return) \/ Core(Stop) \/ Core(SigTerm) \/ Core(Tick)
  BY <1>4 DEF Core, Return, Stop, SigTerm, Tick
<1>5. CASE \/ MLoopInit \/ MLoopRun
           \/ LoopExit \/ Poll \/ EpollEnter \/ EpollTimeout
  BY <1>5 DEF MLoopInit, MLoopRun, LoopExit, Poll, EpollEnter, EpollTimeout, GoTo
<1>6. CASE UNCHANGED vars
  BY <1>6 DEF vars, coreVars
<1>7. QED
  BY <1>1, <1>2, <1>3, <1>4, <1>5, <1>6

LEMMA OtherStep ==
  ASSUME UNCHANGED timerVars,
         \/ UNCHANGED <<now, callback>>
         \/ now' = now /\ callback' = Nobody
         \/ now' = now /\ callback = Nobody /\ callback' \in Events \cup Procs \cup Ios
         \/ now' = now + 1 /\ callback' = callback
  PROVE  Service!Next \/ UNCHANGED ServiceVars
<1>1. UNCHANGED <<armOrder, Due>> /\ Nobody \notin Timers
  BY TimerAssumption DEF timerVars, Due
<1>2. CASE UNCHANGED <<now, callback>>
  BY <1>1, <1>2 DEF ServiceVars, Serving
<1>3. CASE now' = now /\ callback' = Nobody
  <2>1. Serving' = Nobody
    BY <1>1, <1>3 DEF Serving
  <2>2. Service!Served
    BY <1>1, <1>3, <2>1 DEF Service!Served, Due, Serving
  <2>3. QED
    BY <2>2 DEF Service!Next
<1>4. CASE now' = now /\ callback = Nobody /\ callback' \in Events \cup Procs \cup Ios
  <2>1. Serving' = Nobody /\ Serving = Nobody
    BY <1>1, <1>4, ObjectsAssumption DEF Serving
  <2>2. QED
    BY <1>1, <1>4, <2>1 DEF ServiceVars
<1>5. CASE now' = now + 1 /\ callback' = callback
  <2>1. Service!Pass
    BY <1>1, <1>5 DEF Service!Pass, Due, Serving
  <2>2. QED
    BY <2>1 DEF Service!Next
<1>6. QED
  BY <1>2, <1>3, <1>4, <1>5

LEMMA RefinesStep ==
  ASSUME ServiceInv, [Next]_vars
  PROVE  [Service!Next]_(Service!vars)
<1>1. CASE TimerUserStep
  <2>1. PICK t \in Timers :
          \/ \E time \in Nat : TimerSet(t, time)
          \/ TimerCancel(t) \/ TimerDelete(t)
          \/ UNCHANGED <<timers, timerPending, timerTime, armOrder>>
    BY <1>1, UserArms
  <2>2. UNCHANGED <<now, callback>>
    BY <1>1, UserArms DEF coreVars
  <2>3. Service!Next \/ UNCHANGED ServiceVars
    <3>1. CASE UNCHANGED <<timers, timerPending, timerTime, armOrder>>
      BY <2>2, <3>1 DEF ServiceVars, Due, Serving
    <3>2. CASE \E time \in Nat : TimerSet(t, time)
      BY <2>2, <3>2, ArmStep
    <3>3. CASE TimerCancel(t) \/ TimerDelete(t)
      BY <1>1, <3>3, DisarmStep
    <3>4. QED
      BY <2>1, <3>1, <3>2, <3>3
  <2>4. QED
    BY <2>3 DEF Service!vars, ServiceVars, Due, Serving
<1>2. CASE TimersBegin \/ TimersDone
  <2>1. UNCHANGED <<armOrder, timerPending, timerTime, now, callback>>
    BY <1>2 DEF TimersBegin, TimersDone, GoTo
  <2>2. QED
    BY <2>1 DEF Service!vars
<1>3. CASE ExpireTimer
  BY <1>3, ServeStep
<1>4. CASE MLoopDestroy
  BY <1>4, ShutdownStep
<1>5. CASE /\ ~TimerUserStep /\ ~TimerLoopStep /\ ~MLoopDestroy
  <2>1. Service!Next \/ UNCHANGED ServiceVars
    BY <1>5, NextCases, OtherCallback, OtherStep DEF Timer
  <2>2. QED
    BY <2>1 DEF Service!vars, ServiceVars, Due, Serving
<1>6. QED
  BY <1>1, <1>2, <1>3, <1>4, <1>5 DEF TimerLoopStep

\* If the difference of any two times fits into an int, the timers of the loop are a
\* timer service: whatever callbacks arm again, cancel and delete, the timer that is
\* called is one that is armed, its time has come, no other has an earlier time and
\* none with its time was armed before it (mloop.c:104-158, 361-384).
THEOREM TimersServed == FitsInt => (Spec => TimersAreAService)
<1> SUFFICES ASSUME FitsInt PROVE Spec => TimersAreAService
  OBVIOUS
<1>1. Init => Service!Init
  BY TimerAssumption DEF Init, CoreInit, TimersInit, Service!Init
<1>2. ServiceInv /\ [Next]_vars => ServiceInv'
  BY ServiceStep
<1>3. ServiceInv /\ [Next]_vars => [Service!Next]_(Service!vars)
  BY RefinesStep
<1>4. QED
  BY <1>1, <1>2, <1>3, ServiceInit, PTL DEF Spec, Service!Spec, TimersAreAService
-----------------------------------------------------------------------------
(***************************************************************************)
(* Events, processes and files, and what the loop owes the application.    *)
(***************************************************************************)
\* Only mloop_destroy ends the initialisation.
LEMMA StaysInitialised ==
  ASSUME [Next]_vars, initialised
  PROVE  initialised' \/ MLoopDestroy
<1>1. CASE Timer(TimerUserStep \/ TimerLoopStep)
  BY <1>1 DEF Timer, TimerUserStep, TimerLoopStep, TimerInit, TimerNew,
              TimerIn, TimerAdd, Retrigger, TimerCancel, TimerDelete,
              TimersBegin, ExpireTimer, TimersDone, GoTo, coreVars
<1>2. CASE Event(EventUserStep \/ EventLoopStep)
  BY <1>2 DEF Event, EventUserStep, EventLoopStep, EventInit, EventNew,
              EventAdd, EventRemove, EventDelete, EventFire, SignalFire,
              EventsBegin, HandleEvent, EventsDone, GoTo, coreVars
<1>3. CASE Proc(ProcUserStep \/ ProcLoopStep \/ ProcKernelStep)
  BY <1>3 DEF Proc, ProcUserStep, ProcLoopStep, ProcKernelStep, ProcNew,
              ProcRerun, ProcCancel, ProcDelete, ProcsBegin, Reap, ProcsDone,
              SigChld, ChildExit, GoTo, coreVars
<1>4. CASE Io(IoUserStep \/ IoLoopStep)
  BY <1>4 DEF Io, IoUserStep, IoLoopStep, IoNew, IoCancel, IoDelete, UserRead,
              FileChange, EpollReport, HandleIo, ReaderRead, ReaderEof,
              ReaderDone, IosDone, GoTo, coreVars
<1>5. CASE \/ Core(Return) \/ Core(Stop) \/ Core(SigTerm) \/ Core(Tick)
           \/ MLoopInit \/ MLoopRun
           \/ LoopExit \/ Poll \/ EpollEnter \/ EpollTimeout
  BY <1>5 DEF Core, Return, Stop, SigTerm, Tick, MLoopInit, MLoopRun,
              LoopExit, Poll, EpollEnter, EpollTimeout, GoTo
<1>6. CASE UNCHANGED vars
  BY <1>6 DEF vars, coreVars
<1>7. QED
  BY <1>1, <1>2, <1>3, <1>4, <1>5, <1>6, NextCases

-----------------------------------------------------------------------------
(***************************************************************************)
(* EventListConsistent.                                                    *)
(***************************************************************************)
IteratorInPass == itNext # Nobody => pc = "firing" /\ callback # itNext

EventsInv == TypeOK /\ EventListConsistent /\ IteratorInPass

\* While the loop is in the pass over the events, the other parts leave it
\* there and call nobody.
LEMMA EventsRest ==
  ASSUME [Next]_vars
  PROVE  \/ Event(EventUserStep \/ EventLoopStep)
         \/ MLoopDestroy
         \/ /\ UNCHANGED eventVars
            /\ pc = "firing" => pc' = "firing" /\ callback' \in {callback, Nobody}
<1>1. CASE Timer(TimerUserStep \/ TimerLoopStep)
  BY <1>1 DEF Timer, TimerUserStep, TimerLoopStep, TimerInit, TimerNew,
              TimerIn, TimerAdd, Retrigger, TimerCancel, TimerDelete,
              TimersBegin, ExpireTimer, TimersDone, At, coreVars
<1>2. CASE Proc(ProcUserStep \/ ProcLoopStep \/ ProcKernelStep)
  BY <1>2 DEF Proc, ProcUserStep, ProcLoopStep, ProcKernelStep, ProcNew,
              ProcRerun, ProcCancel, ProcDelete, ProcsBegin, Reap, ProcsDone,
              SigChld, ChildExit, Interrupted, At, coreVars
<1>3. CASE Io(IoUserStep \/ IoLoopStep)
  BY <1>3 DEF Io, IoUserStep, IoLoopStep, IoNew, IoCancel, IoDelete, UserRead,
              FileChange, EpollReport, HandleIo, ReaderRead, ReaderEof,
              ReaderDone, IosDone, At, coreVars
<1>4. CASE \/ Core(Return) \/ Core(Stop) \/ Core(SigTerm) \/ Core(Tick)
           \/ MLoopInit \/ MLoopRun
           \/ LoopExit \/ Poll \/ EpollEnter \/ EpollTimeout
  BY <1>4 DEF Core, Return, Stop, SigTerm, Tick, Interrupted, MLoopInit,
              MLoopRun, LoopExit, Poll, EpollEnter, EpollTimeout, At
<1>5. CASE UNCHANGED vars
  BY <1>5 DEF vars, coreVars
<1>6. QED
  BY <1>1, <1>2, <1>3, <1>4, <1>5, NextCases

\* The iterator only comes to nodes of the list, and from one to another.
LEMMA NodesListed ==
  ASSUME EventsTypeOK, IsInjective(events), NEW e
  PROVE  /\ NextNode(e) # Nobody => Listed(NextNode(e))
         /\ NextNode(e) # Nobody => NextNode(e) # e
         /\ FirstNode(events, Nobody) # Nobody => Listed(FirstNode(events, Nobody))
<1>1. /\ events \in Seq(Events)
      /\ Len(events) \in Nat
      /\ \A i \in 1 .. Len(events) : Listed(events[i])
  BY LenProperties, ToSetMember DEF EventsTypeOK, Listed
<1>2. NextNode(e) # Nobody => Listed(NextNode(e)) /\ NextNode(e) # e
  <2> DEFINE I == {i \in 1 .. Len(events) : events[i] = e}
             at == IF I # {} THEN Min(I) ELSE 0
  <2>1. at \in Nat
    <3>1. I \in SUBSET Nat
      BY <1>1
    <3>2. QED
      BY <3>1, MinOfNats
  <2>2. NextNode(e) = IF at \in 1 .. Len(events) - 1 THEN events[at + 1]
                                                     ELSE Nobody
    BY DEF NextNode, NodeAfter, SelectInSeq
  <2>a. at \in 1 .. Len(events) => events[at] = e
    <3>1. I \in SUBSET Nat
      BY <1>1
    <3>2. I # {} => at \in I
      BY <3>1, MinOfNats
    <3>3. I = {} => at = 0
      OBVIOUS
    <3>4. QED
      BY <3>2, <3>3
  <2>b. \A j, k \in 1 .. Len(events) : events[j] = events[k] => j = k
    BY InjectiveSeq DEF EventsTypeOK
  <2> HIDE DEF at
  <2>3. at \in 1 .. Len(events) - 1 =>
          at + 1 \in 1 .. Len(events) /\ at \in 1 .. Len(events) /\ at + 1 # at
    BY <1>1, <2>1
  <2>c. at \in 1 .. Len(events) - 1 => events[at + 1] # e
    BY <2>3, <2>a, <2>b
  <2>4. QED
    BY <1>1, <2>2, <2>3, <2>c
<1>3. events # << >> => Head(events) = events[1] /\ 1 \in 1 .. Len(events)
  BY <1>1, EmptySeq
<1>4. QED
  BY <1>1, <1>2, <1>3 DEF FirstNode

LEMMA EventUserConsistent ==
  ASSUME EventsInv, EventUserStep
  PROVE  EventListConsistent' /\ IteratorInPass'
<1>1. PICK e \in Events :
        \/ EventInit(e)
        \/ EventNew(e)
        \/ EventAdd(e)
        \/ EventRemove(e)
        \/ EventDelete(e)
        \/ EventFire(e)
        \/ SignalFire(e)
  BY DEF EventUserStep
<1>2. /\ events \in Seq(Events) /\ IsInjective(events)
      /\ eventAlive \in [Events -> BOOLEAN]
      /\ itNext \in Events \cup {Nobody}
      /\ Nobody \notin Events
  BY EventAssumption DEF EventsInv, TypeOK, EventsTypeOK, EventListConsistent
<1>3. IteratorInPass'
  BY <1>1 DEF EventInit, EventNew, EventAdd, EventRemove, EventDelete,
              EventFire, SignalFire, Fire, Interrupted, coreVars,
              EventsInv, IteratorInPass
<1>4. /\ IsInjective(ListRemove(events, e))
      /\ ToSet(ListRemove(events, e)) = ToSet(events) \ {e}
  BY <1>2, RemoveFirstInjective DEF ListRemove
<1>5. ~Listed(e) =>
        /\ IsInjective(Append(events, e))
        /\ ToSet(Append(events, e)) = ToSet(events) \cup {e}
  BY <1>2, AppendInjectiveSeq DEF Listed
<1>6. EventListConsistent'
  <2>1. CASE EventInit(e)
    BY <1>2, <2>1 DEF EventInit, EventsInv, EventListConsistent, Listed
  <2>2. CASE EventNew(e)
    <3>1. ~Listed(e)
      BY <2>2 DEF EventNew, EventsInv, EventListConsistent
    <3>2. QED
      BY <1>2, <1>5, <2>2, <3>1
      DEF EventNew, EventsInv, EventListConsistent, Listed
  <2>3. CASE EventAdd(e)
    BY <1>2, <1>5, <2>3 DEF EventAdd, EventsInv, EventListConsistent, Listed
  <2>4. CASE EventRemove(e)
    BY <1>2, <1>4, <2>4
    DEF EventRemove, EventsInv, EventListConsistent, IteratorInPass, Listed
  <2>5. CASE EventDelete(e)
    BY <1>2, <1>4, <2>5
    DEF EventDelete, EventsInv, EventListConsistent, IteratorInPass, Listed
  <2>6. CASE EventFire(e) \/ SignalFire(e)
    BY <2>6 DEF EventFire, SignalFire, Fire, EventsInv, EventListConsistent,
                Listed
  <2>7. QED
    BY <1>1, <2>1, <2>2, <2>3, <2>4, <2>5, <2>6
<1>7. QED
  BY <1>3, <1>6

LEMMA EventLoopConsistent ==
  ASSUME EventsInv, EventLoopStep
  PROVE  EventListConsistent' /\ IteratorInPass'
<1>1. EventsTypeOK
  BY DEF EventsInv, TypeOK
<1>2. CASE EventsBegin
  BY <1>1, <1>2, NodesListed
  DEF EventsBegin, At, GoTo, EventsInv, EventListConsistent, IteratorInPass, Listed
<1>3. CASE HandleEvent
  BY <1>1, <1>3, NodesListed
  DEF HandleEvent, Call, At, EventsInv, EventListConsistent, IteratorInPass, Listed
<1>4. CASE EventsDone
  BY <1>4 DEF EventsDone, EventsInv, EventListConsistent, IteratorInPass, Listed
<1>5. QED
  BY <1>2, <1>3, <1>4 DEF EventLoopStep

LEMMA EventsStep == EventsInv /\ [Next]_vars => EventsInv'
<1> SUFFICES ASSUME EventsInv, [Next]_vars PROVE EventsInv'
  OBVIOUS
<1>1. TypeOK'
  BY TypeStep DEF EventsInv
<1>2. CASE Event(EventUserStep \/ EventLoopStep)
  BY <1>1, <1>2, EventUserConsistent, EventLoopConsistent DEF Event, EventsInv
<1>3. CASE MLoopDestroy
  <2>1. itNext' = Nobody /\ events' = << >>
    BY <1>3 DEF MLoopDestroy, EventsDestroy, EventsInv, IteratorInPass
  <2>2. ToSet(<< >>) = {} /\ IsInjective(<< >>)
    BY DEF ToSet, IsInjective
  <2>3. QED
    BY <1>1, <2>1, <2>2
    DEF EventsInv, EventListConsistent, IteratorInPass, Listed
<1>4. CASE /\ UNCHANGED eventVars
           /\ pc = "firing" => pc' = "firing" /\ callback' \in {callback, Nobody}
  BY <1>1, <1>4
  DEF EventsInv, EventListConsistent, IteratorInPass, Listed, eventVars
<1>5. QED
  BY <1>2, <1>3, <1>4, EventsRest

LEMMA EventsInvInit == Init => EventsInv
<1>1. ToSet(<< >>) = {} /\ IsInjective(<< >>)
  BY DEF ToSet, IsInjective
<1>2. QED
  BY <1>1, TypeInit
  DEF Init, EventsInit, EventsInv, EventListConsistent, IteratorInPass, Listed

\* The event list holds live events, each once, and the node that the loop
\* comes to next, whatever the callbacks remove and delete.
THEOREM EventsConsistent == Spec => []EventListConsistent
<1>1. EventsInv => EventListConsistent
  BY DEF EventsInv
<1>2. QED
  BY <1>1, EventsInvInit, EventsStep, PTL DEF Spec

-----------------------------------------------------------------------------
(***************************************************************************)
(* ProcListConsistent.                                                     *)
(***************************************************************************)
ProcsEmpty == ~initialised => procs = << >>

ProcsInv == TypeOK /\ ProcListConsistent /\ ProcsEmpty

\* Every process of a list is at one of its places.
LEMMA TrackedAt ==
  ASSUME ProcsTypeOK
  PROVE  \A p : Tracked(p) <=> \E k \in 1 .. Len(procs) : procs[k] = p
BY ToSetMember DEF ProcsTypeOK, Tracked

\* A process that is not tracked is forked and tracked from then on.
LEMMA ProcRunConsistent ==
  ASSUME ProcsTypeOK, ProcListConsistent, NEW p \in Procs,
         ~Tracked(p), ProcRun(p),
         procAlive' = [procAlive EXCEPT ![p] = TRUE]
  PROVE  ProcListConsistent'
<1>1. PICK pid \in Pids :
        /\ child[pid] = "new"
        /\ child' = [child EXCEPT ![pid] = "run"]
        /\ procRunning' = [procRunning EXCEPT ![p] = TRUE]
        /\ procPid' = [procPid EXCEPT ![p] = pid]
        /\ procs' = Append(procs, p)
  BY DEF ProcRun
<1>2. IsInjective(procs') /\ ToSet(procs') = ToSet(procs) \cup {p}
  BY <1>1, AppendInjectiveSeq DEF ProcsTypeOK, ProcListConsistent, Tracked
<1>a. \A q \in ToSet(procs) : q \in Procs /\ q # p
  BY TrackedAt, ElementOfSeq DEF ProcsTypeOK, Tracked
<1>b. \A q \in ToSet(procs) : procPid[q] # pid
  BY <1>1 DEF ProcListConsistent
<1>3. \A q \in ToSet(procs) :
        q \in Procs /\ procPid[q] # pid /\ procPid'[q] = procPid[q]
  BY <1>1, <1>a, <1>b DEF ProcsTypeOK
<1>4. procPid'[p] = pid /\ child'[pid] = "run" /\ procAlive'[p]
  BY <1>1 DEF ProcsTypeOK
<1>5. \A q \in ToSet(procs) : procAlive'[q] /\ child'[procPid[q]] = child[procPid[q]]
  BY <1>1, <1>3 DEF ProcsTypeOK, ProcListConsistent
<1>6. \A q \in ToSet(procs') :
        /\ procAlive'[q]
        /\ procPid'[q] \in Pids
        /\ child'[procPid'[q]] \in {"run", "killed", "zombie"}
  BY <1>2, <1>3, <1>4, <1>5 DEF ProcListConsistent
<1>7. \A q, r \in ToSet(procs') : procPid'[q] = procPid'[r] => q = r
  BY <1>2, <1>3, <1>4 DEF ProcListConsistent
<1>8. \A q \in Procs : procRunning'[q] => q \in ToSet(procs')
  BY <1>1, <1>2 DEF ProcsTypeOK, ProcListConsistent, Tracked
<1>9. QED
  BY <1>2, <1>6, <1>7, <1>8 DEF ProcListConsistent, Tracked

\* A process leaves the list, stopped; if it is freed or not does not matter.
LEMMA UntrackedConsistent ==
  ASSUME ProcsTypeOK, ProcListConsistent, NEW p \in Procs,
         procs' = ListRemove(procs, p),
         \A q \in Procs \ {p} : /\ procAlive'[q] = procAlive[q]
                                /\ procRunning'[q] = procRunning[q]
                                /\ procPid'[q] = procPid[q],
         ~procRunning'[p],
         \A pid \in Pids : \/ child'[pid] = child[pid]
                           \/ child'[pid] = "killed"
                           \/ procPid[p] = pid /\ Tracked(p)
  PROVE  ProcListConsistent'
<1>1. IsInjective(procs') /\ ToSet(procs') = ToSet(procs) \ {p}
  BY RemoveFirstInjective DEF ListRemove, ProcsTypeOK, ProcListConsistent
<1>2. \A q \in ToSet(procs') : q \in Procs /\ Tracked(q) /\ q # p
  BY <1>1, TrackedAt, ElementOfSeq DEF ProcsTypeOK, Tracked
<1>3. \A q \in ToSet(procs') : child'[procPid[q]] \in {"run", "killed", "zombie"}
  BY <1>2 DEF ProcListConsistent, Tracked
<1>4. \A q \in ToSet(procs') : procAlive'[q] /\ procPid'[q] = procPid[q]
  BY <1>2 DEF ProcListConsistent, Tracked
<1>5. \A q \in Procs : procRunning'[q] => q \in ToSet(procs')
  BY <1>1 DEF ProcListConsistent, Tracked
<1>6. QED
  BY <1>1, <1>2, <1>3, <1>4, <1>5 DEF ProcListConsistent, Tracked

LEMMA ProcUserConsistent ==
  ASSUME ~RerunCancelled, ProcsInv, ProcUserStep
  PROVE  ProcListConsistent'
<1>1. PICK p \in Procs :
        ProcNew(p) \/ ProcRerun(p) \/ ProcCancel(p) \/ ProcDelete(p)
  BY DEF ProcUserStep
<1>2. ProcsTypeOK /\ ProcListConsistent /\ ProcsEmpty
  BY DEF ProcsInv, TypeOK
<1>3. ToSet(<< >>) = {}
  BY DEF ToSet
<1>4. CASE ProcNew(p)
  <2>1. ~Tracked(p)
    BY <1>2, <1>4 DEF ProcNew, ProcListConsistent, Tracked
  <2>2. QED
    BY <1>2, <1>4, <2>1, ProcRunConsistent DEF ProcNew
<1>5. CASE ProcRerun(p)
  <2>1. ~Tracked(p) /\ ProcRun(p)
    BY <1>5 DEF ProcRerun
  <2>2. procAlive' = [procAlive EXCEPT ![p] = TRUE]
    BY <1>2, <1>5 DEF ProcRerun, ProcsTypeOK
  <2>3. QED
    BY <1>2, <2>1, <2>2, ProcRunConsistent
<1>6. CASE ProcCancel(p)
  <2>1. \A pid \in Pids : child'[pid] = child[pid] \/ child'[pid] = "killed"
    BY <1>2, <1>6 DEF ProcCancel, Killed, ProcsTypeOK
  <2>2. /\ UNCHANGED <<procs, procAlive, procPid>>
        /\ \A q \in Procs : procRunning'[q] => procRunning[q]
    BY <1>2, <1>6 DEF ProcCancel, ProcsTypeOK
  <2>3. QED
    BY <1>2, <2>1, <2>2 DEF ProcListConsistent, Tracked
<1>7. CASE ProcDelete(p)
  <2>1. \A pid \in Pids : child'[pid] = child[pid] \/ child'[pid] = "killed"
    <3>1. CASE procRunning[p]
      BY <1>2, <1>7, <3>1 DEF ProcDelete, Killed, ProcsTypeOK
    <3>2. CASE ~procRunning[p]
      BY <1>7, <3>2 DEF ProcDelete
    <3>3. QED
      BY <3>1, <3>2
  <2>2. ~procRunning'[p]
    BY <1>2, <1>7 DEF ProcDelete, ProcFreed, ProcsTypeOK
  <2>3. \A q \in Procs \ {p} : /\ procAlive'[q] = procAlive[q]
                               /\ procRunning'[q] = procRunning[q]
                               /\ procPid'[q] = procPid[q]
    BY <1>2, <1>7 DEF ProcDelete, ProcFreed, ProcsTypeOK
  <2>4. procs' = ListRemove(procs, p)
    <3>1. CASE initialised
      BY <1>7, <3>1 DEF ProcDelete, Untracked
    <3>2. CASE ~initialised
      <4>1. procs = << >> /\ procs' = procs
        BY <1>2, <1>7, <3>2 DEF ProcDelete, Untracked, ProcsEmpty
      <4>2. ListRemove(procs, p) = procs
        BY <1>2, <1>3, <4>1, RemoveFirstAbsent DEF ListRemove, ProcsTypeOK
      <4>3. QED
        BY <4>1, <4>2
    <3>3. QED
      BY <3>1, <3>2
  <2>5. QED
    BY <1>2, <2>1, <2>2, <2>3, <2>4, UntrackedConsistent
<1>8. QED
  BY <1>1, <1>4, <1>5, <1>6, <1>7

LEMMA ProcLoopConsistent ==
  ASSUME ProcsTypeOK, ProcListConsistent, ProcLoopStep
  PROVE  ProcListConsistent'
<1>1. CASE ProcsBegin
  BY <1>1 DEF ProcsBegin, ProcListConsistent, Tracked
<1>2. CASE ProcsDone
  BY <1>2 DEF ProcsDone, procVars, ProcListConsistent, Tracked
<1>3. ASSUME NEW pid \in Pids, Reap(pid)
      PROVE  ProcListConsistent'
  <2>1. Finish(pid) /\ child' = [child EXCEPT ![pid] = "reaped"]
    BY <1>3 DEF Reap
  <2>2. \A other \in Pids : child'[other] = child[other] \/ other = pid
    BY <2>1 DEF ProcsTypeOK
  <2>3. ASSUME UNCHANGED <<procs, procAlive, procRunning, procPid, callback>>,
               \A k \in 1 .. Len(procs) : procPid[procs[k]] # pid
        PROVE  ProcListConsistent'
    <3>1. \A p \in ToSet(procs) : procPid[p] # pid
      BY <2>3, TrackedAt DEF Tracked
    <3>2. QED
      BY <2>2, <2>3, <3>1 DEF ProcListConsistent, Tracked
  <2>4. ASSUME NEW k \in 1 .. Len(procs),
               procPid[procs[k]] = pid,
               procs' = ListRemove(procs, procs[k]),
               IF procs[k] \in NullCb
               THEN ProcFreed(procs[k])
               ELSE /\ procRunning' = [procRunning EXCEPT ![procs[k]] = FALSE]
                    /\ UNCHANGED <<procAlive, procPid>>
        PROVE  ProcListConsistent'
    <3>1. procs[k] \in Procs /\ Tracked(procs[k])
      BY TrackedAt, ElementOfSeq DEF ProcsTypeOK
    <3>2. PICK p \in Procs : p = procs[k]
      BY <3>1
    <3>3. /\ ~procRunning'[p]
          /\ \A q \in Procs \ {p} : /\ procAlive'[q] = procAlive[q]
                                    /\ procRunning'[q] = procRunning[q]
                                    /\ procPid'[q] = procPid[q]
      <4>1. CASE p \in NullCb
        BY <2>4, <3>2, <4>1 DEF ProcFreed, ProcsTypeOK
      <4>2. CASE p \notin NullCb
        BY <2>4, <3>2, <4>2 DEF ProcsTypeOK
      <4>3. QED
        BY <4>1, <4>2
    <3>4. QED
      BY <2>2, <2>4, <3>1, <3>2, <3>3, UntrackedConsistent
  <2>5. QED
    BY <2>1, <2>3, <2>4, FinishFinds
<1>4. QED
  BY <1>1, <1>2, <1>3 DEF ProcLoopStep

LEMMA ProcKernelConsistent ==
  ASSUME ProcsTypeOK, ProcListConsistent, ProcKernelStep
  PROVE  ProcListConsistent'
<1>1. CASE SigChld
  BY <1>1 DEF SigChld, ProcListConsistent, Tracked
<1>2. ASSUME NEW pid \in Pids, ChildExit(pid)
      PROVE  ProcListConsistent'
  <2>1. /\ \A other \in Pids :
             child'[other] = child[other] \/ child'[other] = "zombie"
        /\ UNCHANGED <<procs, procAlive, procRunning, procPid>>
    BY <1>2 DEF ChildExit, ProcsTypeOK
  <2>2. QED
    BY <2>1 DEF ProcListConsistent, Tracked
<1>3. QED
  BY <1>1, <1>2 DEF ProcKernelStep

\* An uninitialised loop has no processes: what the application does to its
\* MlProc objects then, and mloop_init, keep it that way.
LEMMA ProcsStayEmpty ==
  ASSUME ProcsInv, [Next]_vars
  PROVE  ProcsEmpty'
<1>1. CASE initialised
  <2>1. CASE initialised'
    BY <2>1 DEF ProcsEmpty
  <2>2. CASE MLoopDestroy
    BY <2>2 DEF MLoopDestroy, ProcsDestroy, ProcsEmpty
  <2>3. QED
    BY <1>1, <2>1, <2>2, StaysInitialised
<1>2. CASE ~initialised
  <2>1. procs = << >>
    BY <1>2 DEF ProcsInv, ProcsEmpty
  <2>2. CASE UNCHANGED procVars
    BY <2>1, <2>2 DEF procVars, ProcsEmpty
  <2>3. CASE Proc(ProcUserStep \/ ProcLoopStep \/ ProcKernelStep)
    <3>1. CASE ProcUserStep
      BY <1>2, <2>1, <3>1
      DEF ProcUserStep, ProcNew, ProcRerun, ProcCancel, ProcDelete, Untracked,
          ProcsEmpty
    <3>2. CASE ProcKernelStep
      BY <2>1, <3>2 DEF ProcKernelStep, SigChld, ChildExit, ProcsEmpty
    <3>3. ASSUME NEW pid \in Pids, Reap(pid)
          PROVE  ProcsEmpty'
      <4>1. Len(procs) = 0
        BY <2>1
      <4>2. UNCHANGED procs
        BY <3>3, <4>1, FinishFinds DEF Reap, ProcsInv, TypeOK
      <4>3. QED
        BY <2>1, <4>2 DEF ProcsEmpty
    <3>4. CASE ProcsBegin \/ ProcsDone
      BY <2>1, <3>4 DEF ProcsBegin, ProcsDone, procVars, ProcsEmpty
    <3>5. QED
      BY <2>3, <3>1, <3>2, <3>3, <3>4 DEF Proc, ProcLoopStep
  <2>4. QED
    BY <1>2, <2>2, <2>3, NextCases
    DEF Timer, Event, Io, Core, MLoopInit, MLoopRun, MLoopDestroy, LoopExit,
        Poll, EpollEnter, EpollTimeout, vars
<1>3. QED
  BY <1>1, <1>2

LEMMA ProcsStep == ~RerunCancelled /\ ProcsInv /\ [Next]_vars => ProcsInv'
<1> SUFFICES ASSUME ~RerunCancelled, ProcsInv, [Next]_vars PROVE ProcsInv'
  OBVIOUS
<1>1. TypeOK' /\ ProcsEmpty'
  BY TypeStep, ProcsStayEmpty DEF ProcsInv
<1>2. ProcsTypeOK /\ ProcListConsistent
  BY DEF ProcsInv, TypeOK
<1>3. CASE Proc(ProcUserStep \/ ProcLoopStep \/ ProcKernelStep)
  BY <1>1, <1>2, <1>3, ProcUserConsistent, ProcLoopConsistent,
     ProcKernelConsistent
  DEF Proc, ProcsInv
<1>4. CASE MLoopDestroy
  <2>1. procs' = << >> /\ \A p \in Procs : ~procRunning'[p]
    BY <1>2, <1>4 DEF MLoopDestroy, ProcsDestroy, ProcListConsistent
  <2>2. ToSet(<< >>) = {} /\ IsInjective(<< >>)
    BY DEF ToSet, IsInjective
  <2>3. QED
    BY <1>1, <2>1, <2>2 DEF ProcsInv, ProcListConsistent, Tracked
<1>5. CASE UNCHANGED procVars
  BY <1>1, <1>2, <1>5 DEF ProcsInv, ProcListConsistent, Tracked, procVars
<1>6. QED
  BY <1>3, <1>4, <1>5, NextCases
  DEF Timer, Event, Io, Core, MLoopInit, MLoopRun, LoopExit, Poll, EpollEnter,
      EpollTimeout, vars

LEMMA ProcsInvInit == Init => ProcsInv
<1>1. ToSet(<< >>) = {} /\ IsInjective(<< >>)
  BY DEF ToSet, IsInjective
<1>2. QED
  BY <1>1, TypeInit
  DEF Init, ProcsInit, ProcsInv, ProcListConsistent, ProcsEmpty, Tracked

\* If no process is run again between its cancellation and the end of its old
\* child, each process in the list is one live object with an unreaped child
\* of its own, and every running process is in the list.
THEOREM ProcsConsistent == ~RerunCancelled => (Spec => []ProcListConsistent)
<1> SUFFICES ASSUME ~RerunCancelled PROVE Spec => []ProcListConsistent
  OBVIOUS
<1>1. ProcsInv /\ [Next]_vars => ProcsInv'
  BY ProcsStep
<1>2. ProcsInv => ProcListConsistent
  BY DEF ProcsInv
<1>3. QED
  BY <1>1, <1>2, ProcsInvInit, PTL DEF Spec

-----------------------------------------------------------------------------
(***************************************************************************)
(* IoListConsistent.                                                       *)
(***************************************************************************)
IosEmpty == ~initialised => mlios = << >> /\ registered = {}

DispatchInLoop == (DOMAIN batch # {} \/ reader # Nobody) => pc = "io"

IosInv == TypeOK /\ IoListConsistent /\ IosEmpty /\ DispatchInLoop

\* While the loop handles what epoll_wait reported, the other parts leave it
\* there.
LEMMA IosRest ==
  ASSUME [Next]_vars
  PROVE  \/ Io(IoUserStep \/ IoLoopStep)
         \/ MLoopDestroy
         \/ UNCHANGED ioVars /\ (pc = "io" => pc' = "io")
<1>1. CASE Timer(TimerUserStep \/ TimerLoopStep)
  BY <1>1 DEF Timer, TimerUserStep, TimerLoopStep, TimerInit, TimerNew,
              TimerIn, TimerAdd, Retrigger, TimerCancel, TimerDelete,
              TimersBegin, ExpireTimer, TimersDone, At, coreVars
<1>2. CASE Event(EventUserStep \/ EventLoopStep)
  BY <1>2 DEF Event, EventUserStep, EventLoopStep, EventInit, EventNew,
              EventAdd, EventRemove, EventDelete, EventFire, SignalFire,
              EventsBegin, HandleEvent, EventsDone, Interrupted, At, coreVars
<1>3. CASE Proc(ProcUserStep \/ ProcLoopStep \/ ProcKernelStep)
  BY <1>3 DEF Proc, ProcUserStep, ProcLoopStep, ProcKernelStep, ProcNew,
              ProcRerun, ProcCancel, ProcDelete, ProcsBegin, Reap, ProcsDone,
              SigChld, ChildExit, Interrupted, At, coreVars
<1>4. CASE \/ Core(Return) \/ Core(Stop) \/ Core(SigTerm) \/ Core(Tick)
           \/ MLoopInit \/ MLoopRun
           \/ LoopExit \/ Poll \/ EpollEnter \/ EpollTimeout
  BY <1>4 DEF Core, Return, Stop, SigTerm, Tick, Interrupted, MLoopInit,
              MLoopRun, LoopExit, Poll, EpollEnter, EpollTimeout, At
<1>5. CASE UNCHANGED vars
  BY <1>5 DEF vars, coreVars
<1>6. QED
  BY <1>1, <1>2, <1>3, <1>4, <1>5, NextCases

LEMMA IoUserConsistent ==
  ASSUME IosInv, IoUserStep
  PROVE  IoListConsistent' /\ DispatchInLoop'
<1>1. PICK i \in Ios :
        IoNew(i) \/ IoCancel(i) \/ IoDelete(i) \/ UserRead(i) \/ FileChange(i)
  BY DEF IoUserStep
<1>2. IosTypeOK /\ IoListConsistent /\ IosEmpty /\ DispatchInLoop
  BY DEF IosInv, TypeOK
<1>3. UNCHANGED <<coreVars, dispatchVars>>
  BY <1>1 DEF IoNew, IoCancel, IoDelete, UserRead, FileChange
<1>4. DispatchInLoop'
  BY <1>2, <1>3 DEF DispatchInLoop, coreVars, dispatchVars
<1>5. mlios \in Seq(Ios) /\ IsInjective(mlios) /\ ToSet(mlios) = registered
  BY <1>2 DEF IosTypeOK, IoListConsistent
<1>6. /\ IsInjective(ListRemove(mlios, i))
      /\ ToSet(ListRemove(mlios, i)) = registered \ {i}
  BY <1>5, RemoveFirstInjective DEF ListRemove
<1>7. DOMAIN batch' = DOMAIN batch /\ UNCHANGED <<reader, todo>>
  BY <1>3 DEF dispatchVars
<1>8. CASE IoNew(i)
  <2>1. i \notin ToSet(mlios)
    BY <1>2, <1>5, <1>8 DEF IoNew, IoListConsistent
  <2>2. /\ IsInjective(Append(mlios, i))
        /\ ToSet(Append(mlios, i)) = registered \cup {i}
    BY <1>5, <2>1, AppendInjectiveSeq
  <2>3. /\ mlios' = Append(mlios, i)
        /\ registered' = registered \cup {i}
        /\ ioAlive' = [ioAlive EXCEPT ![i] = TRUE]
    BY <1>8 DEF IoNew
  <2>4. \A j \in Ios : ioAlive[j] => ioAlive'[j]
    BY <1>2, <2>3 DEF IosTypeOK
  <2>5. registered \subseteq Ios /\ DOMAIN batch \subseteq Ios
    BY <1>2 DEF IosTypeOK
  <2>6. \A j \in registered' \cup DOMAIN batch' : ioAlive'[j]
    BY <1>2, <1>7, <2>3, <2>4, <2>5 DEF IosTypeOK, IoListConsistent
  <2>7. reader' # Nobody /\ todo' # {} => ioAlive'[reader']
    BY <1>2, <1>7, <2>4, IoAssumption DEF IosTypeOK, IoListConsistent
  <2>8. QED
    BY <1>4, <2>2, <2>3, <2>6, <2>7 DEF IoListConsistent
<1>9. CASE IoCancel(i)
  BY <1>2, <1>4, <1>6, <1>7, <1>9 DEF IoCancel, Unregistered, IoListConsistent
<1>10. CASE IoDelete(i)
  <2>1. mlios' = ListRemove(mlios, i) /\ registered' = registered \ {i}
    <3>1. CASE initialised
      BY <1>10, <3>1 DEF IoDelete, Unregistered
    <3>2. CASE ~initialised
      <4>1. mlios = << >> /\ registered = {} /\ i \notin ToSet(mlios)
        BY <1>2, <1>5, <3>2 DEF IosEmpty
      <4>2. ListRemove(mlios, i) = mlios
        BY <1>5, <4>1, RemoveFirstAbsent DEF ListRemove
      <4>3. UNCHANGED <<mlios, registered>>
        BY <1>10, <3>2 DEF IoDelete
      <4>4. QED
        BY <4>1, <4>2, <4>3
    <3>3. QED
      BY <3>1, <3>2
  <2>2. /\ i \notin DOMAIN batch
        /\ reader = i => todo = {}
        /\ ioAlive' = [ioAlive EXCEPT ![i] = FALSE]
    BY <1>10 DEF IoDelete
  <2>3. \A j \in Ios \ {i} : ioAlive[j] => ioAlive'[j]
    BY <1>2, <2>2 DEF IosTypeOK
  <2>4. registered \subseteq Ios /\ DOMAIN batch \subseteq Ios
    BY <1>2 DEF IosTypeOK
  <2>5. \A j \in registered' \cup DOMAIN batch' : ioAlive'[j]
    BY <1>2, <1>7, <2>1, <2>2, <2>3, <2>4 DEF IoListConsistent
  <2>6. reader' # Nobody /\ todo' # {} => ioAlive'[reader']
    BY <1>2, <1>7, <2>2, <2>3, IoAssumption DEF IosTypeOK, IoListConsistent
  <2>7. QED
    BY <1>4, <1>6, <2>1, <2>5, <2>6 DEF IoListConsistent
<1>11. CASE UserRead(i) \/ FileChange(i)
  <2>1. UNCHANGED <<mlios, ioAlive, registered>>
    BY <1>11 DEF UserRead, FileChange
  <2>2. QED
    BY <1>2, <1>4, <1>7, <2>1 DEF IoListConsistent
<1>12. QED
  BY <1>1, <1>8, <1>9, <1>10, <1>11

LEMMA IoLoopConsistent ==
  ASSUME IosInv, IoLoopStep
  PROVE  IoListConsistent' /\ DispatchInLoop'
<1>1. IosTypeOK /\ IoListConsistent /\ DispatchInLoop
  BY DEF IosInv, TypeOK
<1>2. UNCHANGED <<mlios, ioAlive, registered>>
  <2>1. ASSUME NEW i \in Ios, HandleIo(i)
        PROVE  UNCHANGED <<mlios, ioAlive, registered>>
    BY <2>1 DEF HandleIo
  <2>2. QED
    BY <2>1 DEF IoLoopStep, EpollReport, ReaderRead, ReaderEof, ReaderDone,
                IosDone
<1>3. CASE EpollReport
  <2>1. pc = "wait" /\ pc' = "io" /\ UNCHANGED <<reader, todo>>
    BY <1>3 DEF EpollReport, At, GoTo
  <2>2. DOMAIN batch' \subseteq registered
    BY <1>3 DEF EpollReport, Ready
  <2>3. reader = Nobody
    BY <1>1, <2>1 DEF DispatchInLoop
  <2>4. QED
    BY <1>1, <1>2, <2>1, <2>2, <2>3 DEF IoListConsistent, DispatchInLoop
<1>4. ASSUME NEW i \in Ios, HandleIo(i)
      PROVE  IoListConsistent' /\ DispatchInLoop'
  <2>1. pc = "io" /\ pc' = "io" /\ i \in DOMAIN batch
    BY <1>4 DEF HandleIo, At
  <2>2. DOMAIN batch' = DOMAIN batch \ {i}
    BY <1>4 DEF HandleIo
  <2>3. reader' = i \/ UNCHANGED <<reader, todo>>
    BY <1>4 DEF HandleIo
  <2>4. QED
    BY <1>1, <1>2, <2>1, <2>2, <2>3 DEF IoListConsistent, DispatchInLoop
<1>5. CASE ReaderRead \/ ReaderEof
  <2>1. /\ pc = "io" /\ pc' = "io"
        /\ UNCHANGED <<batch, reader>>
        /\ todo' \subseteq todo
    BY <1>5 DEF ReaderRead, ReaderEof, At
  <2>2. QED
    BY <1>1, <1>2, <2>1 DEF IoListConsistent, DispatchInLoop
<1>6. CASE ReaderDone
  <2>1. pc = "io" /\ pc' = "io" /\ UNCHANGED batch /\ reader' = Nobody
    BY <1>6 DEF ReaderDone, At, coreVars
  <2>2. QED
    BY <1>1, <1>2, <2>1 DEF IoListConsistent, DispatchInLoop
<1>7. CASE IosDone
  <2>1. UNCHANGED <<batch, reader, todo>> /\ reader = Nobody /\ DOMAIN batch = {}
    BY <1>7 DEF IosDone
  <2>2. QED
    BY <1>1, <1>2, <2>1 DEF IoListConsistent, DispatchInLoop
<1>8. QED
  BY <1>3, <1>4, <1>5, <1>6, <1>7 DEF IoLoopStep

\* An uninitialised loop has no files.
LEMMA IosStayEmpty ==
  ASSUME IosInv, [Next]_vars
  PROVE  IosEmpty'
<1>1. CASE initialised
  <2>1. CASE initialised'
    BY <2>1 DEF IosEmpty
  <2>2. CASE MLoopDestroy
    BY <2>2 DEF MLoopDestroy, IosDestroy, IosEmpty
  <2>3. QED
    BY <1>1, <2>1, <2>2, StaysInitialised
<1>2. CASE ~initialised
  <2>1. mlios = << >> /\ registered = {}
    BY <1>2 DEF IosInv, IosEmpty
  <2>2. CASE UNCHANGED ioVars
    BY <2>1, <2>2 DEF ioVars, IosEmpty
  <2>3. CASE Io(IoUserStep \/ IoLoopStep)
    <3>1. CASE IoUserStep
      BY <1>2, <2>1, <3>1
      DEF IoUserStep, IoNew, IoCancel, IoDelete, UserRead, FileChange, IosEmpty
    <3>2. ASSUME NEW i \in Ios, HandleIo(i)
          PROVE  IosEmpty'
      BY <2>1, <3>2 DEF HandleIo, IosEmpty
    <3>3. CASE EpollReport \/ ReaderRead \/ ReaderEof \/ ReaderDone \/ IosDone
      BY <2>1, <3>3 DEF EpollReport, ReaderRead, ReaderEof, ReaderDone,
                        IosDone, IosEmpty
    <3>4. QED
      BY <2>3, <3>1, <3>2, <3>3 DEF Io, IoLoopStep
  <2>4. QED
    BY <1>2, <2>2, <2>3, IosRest DEF MLoopDestroy
<1>3. QED
  BY <1>1, <1>2

LEMMA IosStep == IosInv /\ [Next]_vars => IosInv'
<1> SUFFICES ASSUME IosInv, [Next]_vars PROVE IosInv'
  OBVIOUS
<1>1. TypeOK' /\ IosEmpty'
  BY TypeStep, IosStayEmpty DEF IosInv
<1>2. IoListConsistent /\ DispatchInLoop
  BY DEF IosInv
<1>3. CASE Io(IoUserStep \/ IoLoopStep)
  BY <1>1, <1>3, IoUserConsistent, IoLoopConsistent DEF Io, IosInv
<1>4. CASE MLoopDestroy
  <2>1. DOMAIN batch = {} /\ reader = Nobody
    BY <1>2, <1>4 DEF MLoopDestroy, DispatchInLoop
  <2>2. mlios' = << >> /\ registered' = {} /\ UNCHANGED <<batch, reader>>
    BY <1>4 DEF MLoopDestroy, IosDestroy, dispatchVars
  <2>3. ToSet(<< >>) = {} /\ IsInjective(<< >>)
    BY DEF ToSet, IsInjective
  <2>4. QED
    BY <1>1, <2>1, <2>2, <2>3 DEF IosInv, IoListConsistent, DispatchInLoop
<1>5. CASE UNCHANGED ioVars /\ (pc = "io" => pc' = "io")
  BY <1>1, <1>2, <1>5 DEF IosInv, IoListConsistent, DispatchInLoop, ioVars
<1>6. QED
  BY <1>3, <1>4, <1>5, IosRest

LEMMA IosInvInit == Init => IosInv
<1>1. ToSet(<< >>) = {} /\ IsInjective(<< >>)
  BY DEF ToSet, IsInjective
<1>2. QED
  BY <1>1, TypeInit
  DEF Init, IosInit, NoBatch, IosInv, IoListConsistent, IosEmpty,
      DispatchInLoop

\* epoll watches exactly the objects in the list, which are alive and in it
\* once, and the loop never works with an object that was deleted.
THEOREM IosConsistent == Spec => []IoListConsistent
<1>1. IosInv => IoListConsistent
  BY DEF IosInv
<1>2. QED
  BY <1>1, IosInvInit, IosStep, PTL DEF Spec

-----------------------------------------------------------------------------
(***************************************************************************)
(* EofAfterData.                                                           *)
(***************************************************************************)
\* What is reported of a file that has ended: nothing can come any more, and if
\* there are data, they are reported too.
AtEnd(i, flags) == eof[i] /\ (unread[i] => "in" \in flags)

\* The end is with its data in what epoll_wait reported and in what the running
\* reader has to do, and alone in what a callback is told when they are read.
EofInv ==
  /\ pc # "io" => report = {}
  /\ \A i \in DOMAIN batch : "rdhup" \in batch[i] => AtEnd(i, batch[i])
  /\ reader # Nobody /\ "rdhup" \in todo => AtEnd(reader, todo)
  /\ callback \in Readers /\ report = {"rdhup"} => AtEnd(callback, {})

EndInv == TypeOK /\ DispatchInLoop /\ EofInv

-----------------------------------------------------------------------------
\* While files are handled, no other part of the loop calls a callback.
LEMMA CallbackReturns ==
  ASSUME [Next]_vars, pc = "io"
  PROVE  Io(IoUserStep \/ IoLoopStep) \/ callback' \in {callback, Nobody}
<1>1. CASE Timer(TimerUserStep \/ TimerLoopStep)
  BY <1>1 DEF Timer, TimerUserStep, TimerLoopStep, TimerInit, TimerNew,
              TimerIn, TimerAdd, Retrigger, TimerCancel, TimerDelete,
              TimersBegin, ExpireTimer, TimersDone, At, coreVars
<1>2. CASE Event(EventUserStep \/ EventLoopStep)
  BY <1>2 DEF Event, EventUserStep, EventLoopStep, EventInit, EventNew,
              EventAdd, EventRemove, EventDelete, EventFire, SignalFire,
              EventsBegin, HandleEvent, EventsDone, Interrupted, At, coreVars
<1>3. CASE Proc(ProcUserStep \/ ProcLoopStep \/ ProcKernelStep)
  BY <1>3 DEF Proc, ProcUserStep, ProcLoopStep, ProcKernelStep, ProcNew,
              ProcRerun, ProcCancel, ProcDelete, ProcsBegin, Reap, ProcsDone,
              SigChld, ChildExit, Interrupted, At, coreVars
<1>4. CASE \/ Core(Return) \/ Core(Stop) \/ Core(SigTerm) \/ Core(Tick)
           \/ MLoopInit \/ MLoopDestroy \/ MLoopRun
           \/ LoopExit \/ Poll \/ EpollEnter \/ EpollTimeout
  BY <1>4 DEF Core, Return, Stop, SigTerm, Tick, Interrupted, MLoopInit,
              MLoopDestroy, MLoopRun, LoopExit, Poll, EpollEnter,
              EpollTimeout, At
<1>5. CASE UNCHANGED vars
  BY <1>5 DEF vars, coreVars
<1>6. QED
  BY <1>1, <1>2, <1>3, <1>4, <1>5, NextCases

\* Data cannot come behind the end of a file, and only a reader takes its own.
LEMMA EndStays ==
  ASSUME IosTypeOK, NEW j \in Ios, IoUserStep
  PROVE  /\ eof[j] => eof'[j] /\ (unread'[j] => unread[j])
         /\ UNCHANGED <<coreVars, dispatchVars>>
<1>1. PICK i \in Ios :
        IoNew(i) \/ IoCancel(i) \/ IoDelete(i) \/ UserRead(i) \/ FileChange(i)
  BY DEF IoUserStep
<1>2. UNCHANGED <<coreVars, dispatchVars>>
  BY <1>1 DEF IoNew, IoCancel, IoDelete, UserRead, FileChange
<1>3. unread \in [Ios -> BOOLEAN] /\ eof \in [Ios -> BOOLEAN]
  BY DEF IosTypeOK
<1>4. CASE IoNew(i) \/ IoCancel(i) \/ IoDelete(i)
  BY <1>2, <1>4 DEF IoNew, IoCancel, IoDelete, fileVars
<1>5. CASE UserRead(i)
  BY <1>2, <1>3, <1>5 DEF UserRead
<1>6. CASE FileChange(i)
  <2>1. \/ ~eof[i] /\ eof' = eof /\ unread' = [unread EXCEPT ![i] = TRUE]
        \/ eof' = [eof EXCEPT ![i] = TRUE] /\ unread' = unread
        \/ eof' = eof /\ unread' = unread
    BY <1>6 DEF FileChange
  <2>2. QED
    BY <1>2, <1>3, <2>1
<1>7. QED
  BY <1>1, <1>4, <1>5, <1>6

LEMMA IoUserEof ==
  ASSUME EndInv, IoUserStep
  PROVE  EofInv'
<1>1. IosTypeOK /\ EofInv
  BY DEF EndInv, TypeOK
<1>2. UNCHANGED <<pc, callback, batch, reader, todo, report>>
  <2>1. UNCHANGED <<coreVars, dispatchVars>>
    BY DEF IoUserStep, IoNew, IoCancel, IoDelete, UserRead, FileChange
  <2>2. QED
    BY <2>1 DEF coreVars, dispatchVars
<1>3. ASSUME NEW j \in Ios, NEW flags, AtEnd(j, flags)
      PROVE  AtEnd(j, flags)'
  BY <1>1, <1>3, EndStays DEF AtEnd
<1>4. DOMAIN batch \subseteq Ios /\ Readers \subseteq Ios
      /\ (reader # Nobody => reader \in Ios)
  BY <1>1, IoAssumption DEF IosTypeOK
<1>5. QED
  BY <1>1, <1>2, <1>3, <1>4 DEF EofInv, AtEnd

LEMMA IoLoopEof ==
  ASSUME EndInv, IoLoopStep
  PROVE  EofInv'
<1>1. IosTypeOK /\ DispatchInLoop /\ EofInv
  BY DEF EndInv, TypeOK
<1>2. Nobody \notin Readers /\ Readers \subseteq Ios
  BY IoAssumption
<1>3. CASE EpollReport
  <2>1. /\ pc = "wait" /\ callback = Nobody /\ pc' = "io" /\ callback' = Nobody
        /\ UNCHANGED <<unread, eof, reader, todo, report>>
    BY <1>3 DEF EpollReport, At, GoTo, fileVars
  <2>2. ASSUME NEW i \in DOMAIN batch', "rdhup" \in batch'[i]
        PROVE  AtEnd(i, batch[i])'
    <3>1. batch'[i] = Flags(i)
      BY <1>3 DEF EpollReport
    <3>2. "rdhup" \in Condition(i) /\ "rdhup" \in Wanted(i)
      BY <2>2, <3>1 DEF Flags
    <3>3. eof[i] /\ (unread[i] => "in" \in Condition(i)) /\ "in" \in Wanted(i)
      BY <3>2 DEF Condition, Wanted
    <3>4. QED
      BY <2>1, <3>1, <3>3 DEF Flags, AtEnd
  <2>3. reader = Nobody
    BY <1>1, <2>1 DEF DispatchInLoop
  <2>4. QED
    BY <1>2, <2>1, <2>2, <2>3 DEF EofInv
<1>4. ASSUME NEW i \in Ios, HandleIo(i)
      PROVE  EofInv'
  <2>1. /\ pc = "io" /\ pc' = "io" /\ callback = Nobody /\ reader = Nobody
        /\ i \in DOMAIN batch
        /\ UNCHANGED <<unread, eof>>
    BY <1>4 DEF HandleIo, At, fileVars
  <2>2. batch' = [j \in DOMAIN batch \ {i} |-> batch[j]]
    BY <1>4 DEF HandleIo
  <2>3. \/ reader' = i /\ todo' = MlIoEvents(batch[i]) /\ callback' = Nobody
        \/ reader' = Nobody /\ (callback' = i => i \notin Readers)
                            /\ callback' \in {i, Nobody}
    <3>1. CASE i \in Readers /\ MlIoEvents(batch[i]) # {}
      BY <1>4, <2>1, <3>1 DEF HandleIo
    <3>2. CASE ~(i \in Readers /\ MlIoEvents(batch[i]) # {})
      <4>1. reader' = Nobody
        BY <1>4, <2>1, <3>2 DEF HandleIo
      <4>2. CASE MlIoEvents(batch[i]) = {}
        BY <1>2, <1>4, <2>1, <4>1, <4>2 DEF HandleIo
      <4>3. CASE MlIoEvents(batch[i]) # {}
        <5>1. Call(i) /\ i \notin Readers
          BY <1>4, <3>2, <4>3 DEF HandleIo
        <5>2. QED
          BY <4>1, <5>1 DEF Call
      <4>4. QED
        BY <4>2, <4>3
    <3>3. QED
      BY <3>1, <3>2
  <2>4. ASSUME reader' # Nobody, "rdhup" \in todo'
        PROVE  AtEnd(reader, todo)'
    <3>1. reader' = i /\ todo' = batch[i] \ {"hup"}
      BY <2>3, <2>4 DEF MlIoEvents
    <3>2. AtEnd(i, batch[i])
      BY <1>1, <2>1, <2>4, <3>1 DEF EofInv
    <3>3. QED
      BY <2>1, <3>1, <3>2 DEF AtEnd
  <2>5. ASSUME NEW j \in DOMAIN batch', "rdhup" \in batch'[j]
        PROVE  AtEnd(j, batch[j])'
    BY <1>1, <2>1, <2>2, <2>5 DEF EofInv, AtEnd
  <2>6. callback' \notin Readers
    BY <1>2, <2>3
  <2>7. QED
    BY <2>1, <2>4, <2>5, <2>6 DEF EofInv
<1>5. CASE ReaderRead
  <2>1. /\ pc = "io" /\ pc' = "io" /\ callback = Nobody /\ reader \in Ios
        /\ todo' = todo \ {"in"}
        /\ unread' = [unread EXCEPT ![reader] = FALSE]
        /\ UNCHANGED <<eof, batch, reader>>
        /\ callback' = Nobody \/ report' = {"in"}
    BY <1>1, <1>2, <1>5 DEF ReaderRead, At, Call, IosTypeOK
  <2>2. \A j \in Ios : unread'[j] => unread[j]
    <3>1. unread \in [Ios -> BOOLEAN]
      BY <1>1 DEF IosTypeOK
    <3>2. QED
      BY <2>1, <3>1
  <2>3. DOMAIN batch \subseteq Ios /\ ~unread'[reader]
    BY <1>1, <2>1 DEF IosTypeOK
  <2>4. report' # {"rdhup"} \/ callback' \notin Readers
    BY <1>2, <2>1
  <2>5. QED
    BY <1>1, <2>1, <2>2, <2>3, <2>4 DEF EofInv, AtEnd
<1>6. CASE ReaderEof
  <2>1. /\ pc = "io" /\ pc' = "io" /\ callback' \in {reader, Nobody}
        /\ reader # Nobody
        /\ todo = {"rdhup"} /\ todo' = {}
        /\ UNCHANGED <<unread, eof, batch, reader>>
    BY <1>6 DEF ReaderEof, EofNow, At, Call, fileVars
  <2>2. AtEnd(reader, {"rdhup"})
    BY <1>1, <2>1 DEF EofInv
  <2>3. callback' \in Readers => AtEnd(callback, {})'
    BY <1>2, <2>1, <2>2 DEF AtEnd
  <2>4. QED
    BY <1>1, <2>1, <2>3 DEF EofInv, AtEnd
<1>7. CASE ReaderDone \/ IosDone
  <2>1. /\ report' = {}
        /\ UNCHANGED <<unread, eof, batch, todo>>
        /\ reader' \in {reader, Nobody}
    BY <1>7 DEF ReaderDone, IosDone, fileVars
  <2>2. QED
    BY <1>1, <2>1 DEF EofInv, AtEnd
<1>8. QED
  BY <1>3, <1>4, <1>5, <1>6, <1>7 DEF IoLoopStep

LEMMA EndStep == EndInv /\ IosInv /\ [Next]_vars => EndInv'
<1> SUFFICES ASSUME EndInv, IosInv, [Next]_vars PROVE EndInv'
  OBVIOUS
<1>1. TypeOK' /\ DispatchInLoop'
  BY IosStep DEF IosInv
<1>2. EofInv
  BY DEF EndInv
<1>3. CASE Io(IoUserStep \/ IoLoopStep)
  BY <1>1, <1>3, IoUserEof, IoLoopEof DEF Io, EndInv
<1>4. CASE MLoopDestroy
  <2>1. pc # "io" /\ UNCHANGED <<pc, batch, reader, todo, report, unread, eof>>
    BY <1>4 DEF MLoopDestroy, IosDestroy, dispatchVars, fileVars
  <2>2. QED
    BY <1>1, <1>2, <2>1 DEF EndInv, EofInv, AtEnd
<1>5. CASE UNCHANGED ioVars /\ (pc = "io" => pc' = "io")
  <2>1. UNCHANGED <<batch, reader, todo, report, unread, eof>>
    BY <1>5 DEF ioVars
  <2>2. CASE pc = "io"
    <3>1. CASE Io(IoUserStep \/ IoLoopStep)
      BY <1>3, <3>1
    <3>2. CASE callback' \in {callback, Nobody}
      BY <1>1, <1>2, <1>5, <2>1, <2>2, <3>2, IoAssumption
      DEF EndInv, EofInv, AtEnd
    <3>3. QED
      BY <2>2, <3>1, <3>2, CallbackReturns
  <2>3. CASE pc # "io"
    BY <1>1, <1>2, <2>1, <2>3 DEF EndInv, EofInv, AtEnd
  <2>4. QED
    BY <2>2, <2>3
<1>6. QED
  BY <1>3, <1>4, <1>5, IosRest

LEMMA EndInit == Init => EndInv
BY TypeInit, IosInvInit DEF IosInv, Init, IosInit, NoBatch, EndInv, EofInv

\* The end of a file is reported to its reader only when all that came before it
\* was handed over, whatever else is reported with it and whatever the callbacks
\* in between do (ioreader.c:21-40, mloop.c:435-457).
THEOREM EofComesLast == Spec => []EofAfterData
<1>1. EndInv => EofAfterData
  BY DEF EndInv, EofInv, AtEnd, EofAfterData
<1>2. EndInv /\ IosInv /\ [Next]_vars => (EndInv /\ IosInv)'
  BY EndStep, IosStep
<1>3. Init => EndInv /\ IosInv
  BY EndInit, IosInvInit
<1>4. QED
  BY <1>1, <1>2, <1>3, PTL DEF Spec

-----------------------------------------------------------------------------
(***************************************************************************)
(* SleepsOnlyWhenIdle.  Only _calculate_timeout gives a timeout, so it is  *)
(* enough that what there is to do shows in what it looks at: the flags    *)
(* and the first timer.  A loop that runs a second time may find children  *)
(* of the first that no flag shows; so there is one run.                   *)
(***************************************************************************)
FiredShows == \A e \in Events : fired[e] => pendingEvent

\* No flag shows a terminated child only while children are waited for, or when
\* the loop was stopped and does not run again.
ZombieShows ==
  \A pid \in Pids :
    child[pid] = "zombie" =>
      sigchld \/ gotSigchld \/ pc = "reaping" \/ (~running /\ runs = MaxRuns)

SleepInv ==
  /\ timeout >= 0
  /\ FiredShows
  /\ pc # "idle" => runs > 0
  /\ ZombieShows

\* The clock and the times fit into an int, and the loop runs once.
OneRun == FitsInt /\ MaxNow < IntHalf /\ MaxRuns <= 1

\* Only two steps of the loop touch the timeout.
LEMMA TimeoutRest ==
  ASSUME [Next]_vars
  PROVE  Poll \/ EpollEnter \/ UNCHANGED timeout
<1>1. CASE \/ Timer(TimerUserStep \/ TimerLoopStep)
           \/ Event(EventUserStep \/ EventLoopStep)
           \/ Proc(ProcUserStep \/ ProcLoopStep \/ ProcKernelStep)
           \/ Io(IoUserStep \/ IoLoopStep)
           \/ Core(Return) \/ Core(Stop) \/ Core(SigTerm) \/ Core(Tick)
  BY <1>1 DEF Timer, Event, Proc, Io, Core, pollVars
<1>2. CASE MLoopInit \/ MLoopRun \/ MLoopDestroy \/ LoopExit \/ EpollTimeout
  BY <1>2 DEF MLoopInit, MLoopRun, MLoopDestroy, LoopExit, EpollTimeout, pollVars
<1>3. CASE UNCHANGED vars
  BY <1>3 DEF vars, pollVars
<1>4. QED
  BY <1>1, <1>2, <1>3, NextCases

\* The head of the list has the least time, so the loop does not sleep longer.
LEMMA TimeoutMeans ==
  ASSUME OneRun, SortedInv
  PROVE  /\ CalculateTimeout \in Nat
         /\ CalculateTimeout > 0 =>
              /\ running /\ ~pendingEvent /\ ~gotSigchld
              /\ \A t \in Timers : timerPending[t] => timerTime[t] > now
<1>1. /\ TimersTypeOK /\ CoreTypeOK /\ TimerListConsistent /\ TimersSorted
      /\ MaxEpollTimeout \in Nat
  BY MLoopAssumption DEF SortedInv, TimersInv, TypeOK
<1>2. CASE timers = << >>
  <2>1. \A t \in Timers : ~timerPending[t]
    BY <1>1, <1>2 DEF TimerListConsistent, ToSet
  <2>2. QED
    BY <1>1, <1>2, <2>1 DEF CalculateTimeout, NextTimer
<1>3. CASE timers # << >>
  <2> DEFINE h == timerTime[Head(timers)]
  <2>1. /\ timers \in Seq(Timers) /\ Len(timers) \in Nat /\ Len(timers) > 0
        /\ Head(timers) = timers[1] /\ timers[1] \in Timers
        /\ \A i \in 1 .. Len(timers) : timers[i] \in Timers
    BY <1>1, <1>3 DEF TimersTypeOK
  <2>2. h \in 0 .. MaxTime /\ now \in 0 .. MaxNow /\ \A t \in Timers : timerTime[t] \in Nat
    BY <1>1, <2>1, TimerAssumption DEF TimersTypeOK, CoreTypeOK
  <2>3. IntCast(h - now) = h - now
    <3>1. MaxTime \in Nat /\ MaxNow \in Nat /\ IntHalf \in Nat
      BY TimerAssumption, ClockAssumption
    <3>2. h - now \in -IntHalf .. IntHalf - 1
      BY <2>2, <3>1 DEF OneRun, FitsInt
    <3>3. QED
      BY <3>2 DEF IntCast
  <2>4. NextTimer(MaxEpollTimeout) = IF h - now < 0 THEN 0 ELSE h - now
    BY <1>3, <2>3 DEF NextTimer
  <2>5. ASSUME NEW t \in Timers, timerPending[t]
        PROVE  h <= timerTime[t]
    <3>1. PICK i \in 1 .. Len(timers) : timers[i] = t
      BY <1>1, <2>1, <2>5, ToSetMember DEF TimerListConsistent
    <3>2. i = 1 \/ 1 < i
      BY <2>1
    <3>3. QED
      BY <1>1, <2>1, <2>2, <3>1, <3>2 DEF TimersSorted
  <2>6. CASE running /\ ~pendingEvent /\ ~gotSigchld
    <3>1. CalculateTimeout = IF h - now < 0 THEN 0 ELSE h - now
      BY <2>4, <2>6 DEF CalculateTimeout
    <3>2. h \in Nat /\ now \in Nat
      BY <2>2
    <3>3. CalculateTimeout \in Nat /\ (CalculateTimeout > 0 => h > now)
      BY <3>1, <3>2
    <3>4. ASSUME CalculateTimeout > 0, NEW t \in Timers, timerPending[t]
          PROVE  timerTime[t] > now
      BY <2>2, <2>5, <3>2, <3>3, <3>4
    <3>5. QED
      BY <2>6, <3>3, <3>4
  <2>7. CASE ~running \/ pendingEvent \/ gotSigchld
    <3>1. CalculateTimeout = 0
      BY <2>7 DEF CalculateTimeout
    <3>2. QED
      BY <3>1
  <2>8. QED
    BY <2>6, <2>7
<1>4. QED
  BY <1>2, <1>3

LEMMA FiredStep ==
  ASSUME EventsTypeOK, FiredShows, [Next]_vars
  PROVE  FiredShows'
<1>1. fired \in [Events -> BOOLEAN]
  BY DEF EventsTypeOK
<1>2. ASSUME NEW e \in Events,
             \/ EventInit(e) \/ EventNew(e) \/ EventAdd(e) \/ EventRemove(e)
             \/ EventDelete(e) \/ EventFire(e) \/ SignalFire(e)
      PROVE  FiredShows'
  <2>1. CASE EventInit(e) \/ EventNew(e) \/ EventAdd(e) \/ EventRemove(e)
    BY <2>1 DEF EventInit, EventNew, EventAdd, EventRemove, FiredShows
  <2>2. CASE EventDelete(e)
    BY <1>1, <2>2 DEF EventDelete, FiredShows
  <2>3. CASE EventFire(e) \/ SignalFire(e)
    BY <2>3 DEF EventFire, SignalFire, Fire, FiredShows
  <2>4. QED
    BY <1>2, <2>1, <2>2, <2>3
<1>3. CASE EventsBegin \/ EventsDone
  BY <1>3 DEF EventsBegin, EventsDone, FiredShows
<1>4. CASE HandleEvent
  <2>1. UNCHANGED pendingEvent
        /\ (fired' = fired \/ fired' = [fired EXCEPT ![itNext] = FALSE])
    BY <1>4 DEF HandleEvent
  <2>2. QED
    BY <1>1, <2>1 DEF FiredShows
<1>5. CASE MLoopDestroy
  BY <1>1, <1>5 DEF MLoopDestroy, EventsDestroy, FiredShows
<1>6. CASE UNCHANGED eventVars
  BY <1>6 DEF eventVars, FiredShows
<1>7. QED
  BY <1>2, <1>3, <1>4, <1>5, <1>6, EventsRest
  DEF Event, EventUserStep, EventLoopStep

\* What the rest of the program does to what ZombieShows is about.
LEMMA ChildrenRest ==
  ASSUME [Next]_vars
  PROVE  \/ Proc(ProcUserStep \/ ProcLoopStep \/ ProcKernelStep)
         \/ MLoopDestroy \/ MLoopRun
         \/ /\ UNCHANGED <<child, sigchld, gotSigchld, runs>>
            /\ running' => running
            /\ pc = "reaping" => pc' = "reaping"
            /\ pc' # "idle" => pc # "idle"
<1>1. CASE Timer(TimerUserStep \/ TimerLoopStep)
  BY <1>1 DEF Timer, TimerUserStep, TimerLoopStep, TimerInit, TimerNew,
              TimerIn, TimerAdd, Retrigger, TimerCancel, TimerDelete,
              TimersBegin, ExpireTimer, TimersDone, At, GoTo, coreVars, procVars
<1>2. CASE Event(EventUserStep \/ EventLoopStep)
  BY <1>2 DEF Event, EventUserStep, EventLoopStep, EventInit, EventNew,
              EventAdd, EventRemove, EventDelete, EventFire, SignalFire,
              EventsBegin, HandleEvent, EventsDone, Interrupted, At, GoTo,
              coreVars, procVars
<1>3. CASE Io(IoUserStep \/ IoLoopStep)
  BY <1>3 DEF Io, IoUserStep, IoLoopStep, IoNew, IoCancel, IoDelete, UserRead,
              FileChange, EpollReport, HandleIo, ReaderRead, ReaderEof,
              ReaderDone, IosDone, At, GoTo, coreVars, procVars
<1>4. CASE \/ Core(Return) \/ Core(Stop) \/ Core(SigTerm) \/ Core(Tick)
           \/ MLoopInit
           \/ LoopExit \/ Poll \/ EpollEnter \/ EpollTimeout
  BY <1>4 DEF Core, Return, Stop, SigTerm, Tick, Interrupted, MLoopInit,
              LoopExit, Poll, EpollEnter, EpollTimeout, At, GoTo, procVars
<1>5. CASE UNCHANGED vars
  BY <1>5 DEF vars, coreVars, procVars
<1>6. QED
  BY <1>1, <1>2, <1>3, <1>4, <1>5, NextCases

LEMMA ZombieStep ==
  ASSUME MaxRuns <= 1, TypeOK, pc # "idle" => runs > 0, ZombieShows, [Next]_vars
  PROVE  ZombieShows' /\ (pc' # "idle" => runs' > 0)
<1>1. /\ child \in [Pids -> {"new", "run", "killed", "zombie", "reaped"}]
      /\ runs \in Nat /\ runs <= MaxRuns /\ MaxRuns \in Nat
  BY MLoopAssumption DEF TypeOK, ProcsTypeOK, CoreTypeOK
<1>2. CASE Proc(ProcUserStep)
  <2>1. UNCHANGED <<pc, running, runs>>
    BY <1>2 DEF Proc, ProcUserStep, ProcNew, ProcRerun, ProcCancel, ProcDelete, coreVars
  <2>2. UNCHANGED <<sigchld, gotSigchld>>
    BY <1>2 DEF Proc, ProcUserStep, ProcNew, ProcRerun, ProcCancel, ProcDelete, ProcRun
  <2>3. \/ UNCHANGED child
        \/ \E pid \in Pids : child' = [child EXCEPT ![pid] = "run"]
        \/ \E pid : child' = [child EXCEPT ![pid] = IF @ = "run" THEN "killed" ELSE @]
    BY <1>2 DEF Proc, ProcUserStep, ProcNew, ProcRerun, ProcCancel, ProcDelete,
                ProcRun, Killed
  <2>4. \A pid \in Pids : child'[pid] = "zombie" => child[pid] = "zombie"
    BY <1>1, <2>3
  <2>5. QED
    BY <2>1, <2>2, <2>4 DEF ZombieShows
<1>3. CASE Proc(ProcsBegin)
  <2>1. /\ pc = "procs" /\ UNCHANGED <<child, sigchld, running, runs>>
        /\ pc' = IF gotSigchld THEN "reaping" ELSE "poll"
    BY <1>3 DEF Proc, ProcsBegin, At, GoTo
  <2>2. QED
    BY <2>1 DEF ZombieShows
<1>4. ASSUME NEW pid \in Pids, Proc(Reap(pid))
      PROVE  ZombieShows' /\ (pc' # "idle" => runs' > 0)
  <2>1. pc = "reaping" /\ pc' = "reaping" /\ UNCHANGED runs
    BY <1>4 DEF Proc, Reap, At
  <2>2. QED
    BY <2>1 DEF ZombieShows
<1>5. CASE Proc(ProcsDone)
  <2>1. /\ pc = "reaping" /\ pc' = "poll"
        /\ UNCHANGED <<child, sigchld, gotSigchld, running, runs>>
        /\ ~running \/ \A pid \in Pids : child[pid] # "zombie"
    BY <1>5 DEF Proc, ProcsDone, At, GoTo, procVars
  <2>2. runs = MaxRuns
    BY <1>1, <2>1
  <2>3. QED
    BY <2>1, <2>2 DEF ZombieShows
<1>6. CASE Proc(ProcKernelStep)
  <2>1. CASE SigChld
    <3>1. gotSigchld' = TRUE /\ UNCHANGED runs /\ (pc' # "idle" => pc # "idle")
      BY <1>6, <2>1 DEF Proc, SigChld, Interrupted
    <3>2. QED
      BY <3>1 DEF ZombieShows
  <2>2. ASSUME NEW pid \in Pids, ChildExit(pid)
        PROVE  ZombieShows' /\ (pc' # "idle" => runs' > 0)
    BY <1>6, <2>2 DEF Proc, ChildExit, coreVars, ZombieShows
  <2>3. QED
    BY <1>6, <2>1, <2>2 DEF Proc, ProcKernelStep
<1>7. CASE MLoopDestroy
  <2>1. UNCHANGED <<sigchld, gotSigchld, running, pc, runs>>
    BY <1>7 DEF MLoopDestroy, ProcsDestroy
  <2>2. \A pid \in Pids : child'[pid] = "zombie" => child[pid] = "zombie"
    BY <1>7 DEF MLoopDestroy, ProcsDestroy
  <2>3. QED
    BY <2>1, <2>2 DEF ZombieShows
<1>8. CASE MLoopRun
  <2>1. /\ pc = "idle" /\ runs < MaxRuns /\ runs' = runs + 1
        /\ UNCHANGED <<child, sigchld, gotSigchld>>
    BY <1>8 DEF MLoopRun, procVars
  <2>2. QED
    BY <1>1, <2>1 DEF ZombieShows
<1>9. CASE /\ UNCHANGED <<child, sigchld, gotSigchld, runs>>
           /\ running' => running
           /\ pc = "reaping" => pc' = "reaping"
           /\ pc' # "idle" => pc # "idle"
  BY <1>9 DEF ZombieShows
<1>10. CASE Proc(ProcUserStep \/ ProcLoopStep \/ ProcKernelStep)
  BY <1>2, <1>3, <1>4, <1>5, <1>6, <1>10 DEF Proc, ProcLoopStep
<1>11. QED
  BY <1>7, <1>8, <1>9, <1>10, ChildrenRest

LEMMA SleepStep ==
  ASSUME OneRun, SortedInv, SleepInv, [Next]_vars
  PROVE  SleepInv'
<1>1. TypeOK /\ EventsTypeOK
  BY DEF SortedInv, TimersInv, TypeOK
<1>2. timeout' >= 0
  <2>1. CASE Poll
    <3>1. CalculateTimeout >= 0
      BY TimeoutMeans
    <3>2. QED
      BY <2>1, <3>1 DEF Poll
  <2>2. CASE EpollEnter
    BY <2>2 DEF EpollEnter
  <2>3. CASE UNCHANGED timeout
    BY <2>3 DEF SleepInv
  <2>4. QED
    BY <2>1, <2>2, <2>3, TimeoutRest
<1>3. FiredShows'
  BY <1>1, FiredStep DEF SleepInv
<1>4. ZombieShows' /\ (pc' # "idle" => runs' > 0)
  BY <1>1, ZombieStep DEF SleepInv, OneRun
<1>5. QED
  BY <1>2, <1>3, <1>4 DEF SleepInv

\* What one step may do to the timeout.
SleepsIdleStep ==
  timeout' > timeout =>
    /\ running
    /\ \A t \in Timers : timerPending[t] => timerTime[t] > now
    /\ \A e \in Events : ~fired[e]
    /\ \A pid \in Pids : child[pid] = "zombie" => sigchld

LEMMA SleepAction ==
  ASSUME OneRun, SortedInv, SleepInv, [Next]_vars
  PROVE  SleepsIdleStep
<1> SUFFICES ASSUME timeout' > timeout PROVE SleepsIdleStep
  BY DEF SleepsIdleStep
<1>1. timeout \in Int /\ timeout >= 0
  BY DEF SleepInv, SortedInv, TimersInv, TypeOK, CoreTypeOK
<1>2. CASE Poll
  <2>1. pc = "poll" /\ timeout' = CalculateTimeout
    BY <1>2 DEF Poll, At
  <2>2. CalculateTimeout > 0
    BY <1>1, <2>1, TimeoutMeans
  <2>3. /\ running /\ ~pendingEvent /\ ~gotSigchld
        /\ \A t \in Timers : timerPending[t] => timerTime[t] > now
    BY <2>2, TimeoutMeans
  <2>4. QED
    BY <2>1, <2>3 DEF SleepInv, FiredShows, ZombieShows, SleepsIdleStep
<1>3. CASE EpollEnter
  BY <1>1, <1>3 DEF EpollEnter
<1>4. CASE UNCHANGED timeout
  BY <1>1, <1>4
<1>5. QED
  BY <1>2, <1>3, <1>4, TimeoutRest

LEMMA SleepInit == Init => SleepInv
BY DEF Init, CoreInit, EventsInit, ProcsInit, SleepInv, FiredShows, ZombieShows

\* The loop gives epoll_wait a time to sleep only when it runs, no timer is due, no
\* event is fired and no SIGCHLD was delivered for a child that still waits, if
\* the loop is not run again after a callback has stopped it and the times are
\* not so far apart that an int does not hold their difference (mloop.c:403-433,
\* 459-489).
THEOREM SleepsIdle == OneRun => (Spec => SleepsOnlyWhenIdle)
<1> SUFFICES ASSUME OneRun PROVE Spec => SleepsOnlyWhenIdle
  OBVIOUS
<1>1. SortedInv /\ SleepInv /\ [Next]_vars => (SortedInv /\ SleepInv)'
  BY SortedStep, SleepStep DEF OneRun
<1>2. Init => SortedInv /\ SleepInv
  BY SortedInit, SleepInit
<1>3. SortedInv /\ SleepInv /\ [Next]_vars => [SleepsIdleStep]_vars
  BY SleepAction
<1>4. Spec => [][SleepsIdleStep]_vars
  BY <1>1, <1>2, <1>3, PTL DEF Spec
<1>5. QED
  BY <1>4 DEF SleepsOnlyWhenIdle, SleepsIdleStep
=============================================================================
