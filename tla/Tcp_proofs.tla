------------------------------ MODULE Tcp_proofs ----------------------------
(***************************************************************************)
(* What holds of a TcpServer and a TcpClient on the main loop, for every   *)
(* value of the constants: they are an application of the loop             *)
(* (TcpUsesLoop), so what is proved of the loop holds with them            *)
(* (TcpIosConsistent); and of a program that calls mloop_run once, the     *)
(* lists of the server (ServerSound) and the pointers of the client        *)
(* (ClientSound) agree with what the loop watches.                         *)
(***************************************************************************)
EXTENDS Tcp, MLoop_proofs

-----------------------------------------------------------------------------
\* The steps of the server, the client and the network that do something to
\* the loop, each by one operation of it.
LEMMA IoCall ==
  ASSUME NEW i \in Ios,
         \/ Io(IoNew(i)) \/ Io(IoDelete(i)) \/ Io(UserRead(i))
         \/ Io(FileChange(i))
  PROVE  Next
BY DEF Next, UserStep, Signal

LEMMA TimerCall ==
  ASSUME NEW t \in Timers,
         Timer(TimerDelete(t)) \/ \E m \in Msecs : Timer(TimerNew(t, m))
  PROVE  Next
BY DEF Next, UserStep

LEMMA TcpObjects ==
  /\ {Listener, ConnEvt, ClientIo} \cup Conns \subseteq Ios
  /\ TimeEvt \in Timers
BY ServerAssumption, ClientAssumption, IoAssumption

LEMMA UnwatchCall ==
  ASSUME NEW i \in Ios, Unwatch(i)
  PROVE  [Next]_vars
BY IoCall DEF Unwatch

LEMMA ServerCalls ==
  ASSUME ServerStep \/ ServerUserStep \/ AcceptCbReturns
  PROVE  [Next]_vars
<1>1. ASSUME NEW c \in Conns, CliClose(c)
      PROVE  [Next]_vars
  BY <1>1, TcpObjects, UnwatchCall DEF CliClose
<1>2. CASE ServerStep
  BY <1>1, <1>2, TcpObjects, IoCall, UnwatchCall
  DEF ServerStep, Accept, EofClose, DestroyCli, DestroySock
<1>3. CASE ServerUserStep
  BY <1>1, <1>3, TcpObjects, IoCall
  DEF ServerUserStep, ServerStart, ServerStartAgain, UserClose, ServerDestroy
<1>4. CASE AcceptCbReturns
  BY <1>4, TcpObjects, IoCall
  DEF AcceptCbReturns, ClientAccepted, ClientRefused, RegDataCallbacks
<1>5. QED
  BY <1>2, <1>3, <1>4

\* The client arms its timer only if it has a timeout.
StartingTimed == clientAt = "starting" => ConnTimeout # 0

LEMMA ClientCalls ==
  ASSUME ClientStep \/ ClientUserStep \/ ClientCbReturns, StartingTimed
  PROVE  [Next]_vars
<1>1. CASE ClientStep
  <2>1. ASSUME ArmTimeout
        PROVE  Next
    <3>1. ConnTimeout \in Msecs
      BY <2>1, ClientAssumption DEF ArmTimeout, StartingTimed
    <3>2. QED
      BY <2>1, <3>1, TcpObjects, TimerCall DEF ArmTimeout
  <2>2. ASSUME CloseSock
        PROVE  [Next]_vars
    BY <2>2, TcpObjects, IoCall DEF CloseSock
  <2>3. QED
    BY <1>1, <2>1, <2>2, TcpObjects, IoCall, TimerCall
    DEF ClientStep, ConnEvtCb, Disarm, TimeoutCb, TimeoutAnswer, ServerHup,
        DestroyConnEvt, DestroyTimeEvt, DestroyClientSock
<1>2. ASSUME CloseSock
      PROVE  [Next]_vars
  BY <1>2, TcpObjects, IoCall DEF CloseSock
<1>3. CASE ClientUserStep
  BY <1>2, <1>3, TcpObjects, IoCall
  DEF ClientUserStep, ClientStart, ClientStartFails, ClientStop, ClientDestroy
<1>4. CASE ClientCbReturns
  BY <1>2, <1>4, TcpObjects, IoCall
  DEF ClientCbReturns, ConnectCbReturns, RefusedCbReturns, TimeoutCbReturns,
      HupCbReturns, Next, UserStep
<1>5. QED
  BY <1>1, <1>3, <1>4

LEMMA StartingTimedStep ==
  ASSUME StartingTimed, [TcpNext]_tcpVars
  PROVE  StartingTimed'
<1>1. clientAt' = "starting" => clientAt = "starting" \/ ConnTimeout # 0
  <2>1. CASE ClientStep \/ ClientUserStep \/ ClientCbReturns
    <3>1. CASE ClientStart
      <4>1. clientAt' = IF ConnTimeout > 0 THEN "starting" ELSE ""
        BY <3>1 DEF ClientStart
      <4>2. ~(0 > 0)
        OBVIOUS
      <4>3. CASE ConnTimeout = 0
        BY <4>1, <4>2, <4>3
      <4>4. QED
        BY <4>3
    <3>2. CASE ClientUserStep /\ ~ClientStart
      BY <3>2
      DEF ClientUserStep, ClientStartFails, ClientStop, ClientDestroy
    <3>3. CASE ClientStep
      BY <3>3
      DEF ClientStep, ArmTimeout, ConnEvtCb, ThenDisarm, Disarm, TimeoutCb,
          TimeoutAnswer, ServerHup, DestroyConnEvt, DestroyTimeEvt,
          DestroyClientSock
    <3>4. CASE ClientCbReturns
      BY <3>4
      DEF ClientCbReturns, ConnectCbReturns, ThenDisarm, RefusedCbReturns,
          TimeoutCbReturns, HupCbReturns
    <3>5. QED
      BY <2>1, <3>1, <3>2, <3>3, <3>4
  <2>2. CASE UNCHANGED clientVars
    BY <2>2 DEF clientVars
  <2>3. CASE NetAnswer
    BY <2>3 DEF NetAnswer
  <2>4. QED
    BY <2>1, <2>2, <2>3
    DEF TcpNext, Thread, OfLoop, OfServer, OfClient, LibraryStep, AppStep, AppReturn,
        Network, NetConnect, NetToServer, NetToClient, tcpVars
<1>2. QED
  BY <1>1 DEF StartingTimed

\* Every step of the server, the client and the network is a step of the loop
\* with some application, or none.
LEMMA TcpStepUsesLoop ==
  ASSUME StartingTimed, [TcpNext]_tcpVars
  PROVE  [Next]_vars
<1>1. CASE OfLoop(LoopStep) \/ OfLoop(Core(Tick))
  BY <1>1 DEF OfLoop, Next, Signal
<1>2. CASE LibraryStep
  BY <1>2, ServerCalls, ClientCalls DEF LibraryStep, OfServer, OfClient
<1>3. CASE AppStep
  BY <1>3, ServerCalls, ClientCalls
  DEF AppStep, OfLoop, OfServer, OfClient, Next, UserStep
<1>4. CASE AppReturn
  BY <1>4, ServerCalls, ClientCalls
  DEF AppReturn, OfLoop, OfServer, OfClient, Next
<1>5. CASE Network
  BY <1>5, TcpObjects, IoCall
  DEF Network, NetConnect, NetToServer, NetAnswer, NetToClient
<1>6. CASE UNCHANGED tcpVars
  BY <1>6 DEF tcpVars
<1>7. QED
  BY <1>1, <1>2, <1>3, <1>4, <1>5, <1>6 DEF TcpNext, Thread

\* A server and a client, with the network and whatever their application does,
\* use the loop as an application may: every behaviour of theirs is one of the
\* loop.
THEOREM TcpUsesLoop == TcpSpec => Spec
<1>1. TcpInit => Init /\ StartingTimed
  BY DEF TcpInit, ClientInit, StartingTimed
<1>2. QED
  BY <1>1, StartingTimedStep, TcpStepUsesLoop, PTL DEF TcpSpec, Spec

\* So what is proved of the loop holds with them: no callback of the loop is
\* for a deleted MlIo, whichever of accept, hang-up, timeout, answer, close
\* and destroy comes first.
THEOREM TcpIosConsistent == TcpSpec => []IoListConsistent
BY TcpUsesLoop, IosConsistent, PTL

-----------------------------------------------------------------------------
(***************************************************************************)
(* What the steps of one side leave of the other.  RunsOnce is a program   *)
(* that calls mloop_run once: run again, the loop calls _timeout_cb of a   *)
(* client whose connection was refused, and after mloop_destroy it does    *)
(* not watch the clients that the server still has.                        *)
(***************************************************************************)
RunsOnce == MaxRuns <= 1

LEMMA TcpApart ==
  /\ {Listener, ConnEvt, ClientIo} \cup Conns \subseteq Ios
  /\ ConnEvt # ClientIo /\ ConnEvt \notin {Listener} \cup Conns
  /\ ClientIo \notin {Listener} \cup Conns /\ Listener \notin Conns
  /\ TimeEvt \in Timers /\ TimeEvt \notin Ios
  /\ Nobody \notin Ios /\ Nobody # TimeEvt
  /\ NullCb \cap ({Listener, ConnEvt, TimeEvt, ClientIo} \cup Conns) = {}
<1>1. /\ ConnEvt \in Writers /\ ClientIo \in Readers /\ Conns \subseteq Readers
      /\ Listener \notin Readers /\ Readers \cap Writers = {}
  BY ClientAssumption, ServerAssumption, IoAssumption
<1>2. QED
  BY <1>1, TcpObjects, TcpAssumption, IoAssumption, TimerAssumption, ObjectsAssumption

\* A step that concerns no files of the loop but those in S.
Touches(S) ==
  /\ UNCHANGED <<pc, callback, runs, dispatchVars>>
  /\ \A j \in Ios \ S :
       /\ ioAlive'[j] = ioAlive[j]
       /\ j \in registered' <=> j \in registered

LEMMA IoTouches ==
  ASSUME IosTypeOK, NEW i \in Ios,
         \/ Io(IoNew(i)) \/ Io(IoDelete(i)) \/ Io(UserRead(i)) \/ Io(FileChange(i))
  PROVE  Touches({i}) /\ UNCHANGED <<coreVars, timerVars>>
<1>1. UNCHANGED <<coreVars, timerVars, dispatchVars, runs>>
  BY DEF Io, IoNew, IoDelete, UserRead, FileChange
<1>2. ioAlive \in [Ios -> BOOLEAN]
  BY DEF IosTypeOK
<1>3. \/ ioAlive' = [ioAlive EXCEPT ![i] = TRUE]
      \/ ioAlive' = [ioAlive EXCEPT ![i] = FALSE]
      \/ ioAlive' = ioAlive
  BY DEF Io, IoNew, IoDelete, UserRead, FileChange
<1>4. registered' \in {registered, registered \cup {i}, registered \ {i}}
  BY DEF Io, IoNew, IoDelete, Unregistered, UserRead, FileChange
<1>5. QED
  BY <1>1, <1>2, <1>3, <1>4 DEF Touches, coreVars

LEMMA IdleTouches ==
  ASSUME UNCHANGED vars, NEW S
  PROVE  Touches(S) /\ UNCHANGED <<coreVars, timerVars>>
BY DEF Touches, vars, coreVars, ioVars, dispatchVars

LEMMA TouchesMore ==
  ASSUME NEW S, NEW T, S \subseteq T, Touches(S)
  PROVE  Touches(T)
BY DEF Touches

\* The server uses its files only, and no timers.
LEMMA ServerTouches ==
  ASSUME IosTypeOK, ServerStep \/ ServerUserStep \/ AcceptCbReturns
  PROVE  Touches({Listener} \cup Conns) /\ UNCHANGED <<coreVars, timerVars>>
<1> DEFINE S == {Listener} \cup Conns
           Own == Touches(S) /\ UNCHANGED <<coreVars, timerVars>>
<1>1. ASSUME NEW i \in S,
             \/ Io(IoNew(i)) \/ Io(IoDelete(i)) \/ Io(UserRead(i)) \/ UNCHANGED vars
      PROVE  Own
  <2>1. i \in Ios /\ {i} \subseteq S
    BY TcpApart
  <2>2. CASE UNCHANGED vars
    BY <2>2, IdleTouches
  <2>3. CASE Io(IoNew(i)) \/ Io(IoDelete(i)) \/ Io(UserRead(i))
    <3>1. Touches({i}) /\ UNCHANGED <<coreVars, timerVars>>
      BY <2>1, <2>3, IoTouches
    <3>2. QED
      BY <2>1, <3>1, TouchesMore
  <2>4. QED
    BY <1>1, <2>2, <2>3
<1>2. Listener \in S /\ \A c \in Conns : c \in S
  OBVIOUS
<1> HIDE DEF Own, S
<1>3. ASSUME NEW i \in S, Unwatch(i)
      PROVE  Own
  BY <1>1, <1>3 DEF Unwatch
<1>4. ASSUME NEW c \in Conns, CliClose(c)
      PROVE  Own
  BY <1>2, <1>3, <1>4 DEF CliClose
<1> SUFFICES Own
  BY DEF Own, S
<1>5. CASE ServerStep
  BY <1>1, <1>2, <1>3, <1>4, <1>5
  DEF ServerStep, Accept, EofClose, DestroyCli, DestroySock
<1>6. CASE ServerUserStep
  BY <1>1, <1>2, <1>4, <1>6
  DEF ServerUserStep, ServerStart, ServerStartAgain, UserClose, ServerDestroy
<1>7. CASE AcceptCbReturns
  BY <1>1, <1>2, <1>7
  DEF AcceptCbReturns, ClientAccepted, ClientRefused, RegDataCallbacks
<1>8. QED
  BY <1>5, <1>6, <1>7

\* The network changes what there is to read and to write.
LEMMA NetworkTouches ==
  ASSUME IosTypeOK, Network
  PROVE  Touches({}) /\ UNCHANGED <<coreVars, timerVars>>
<1>1. ASSUME NEW i \in Ios, Io(FileChange(i))
      PROVE  Touches({}) /\ UNCHANGED <<coreVars, timerVars>>
  BY <1>1 DEF Touches, Io, FileChange, coreVars
<1>2. QED
  BY <1>1, IdleTouches, TcpApart DEF Network, NetConnect, NetToServer, NetAnswer, NetToClient

\* The client uses its two files and its timer, and stops the loop.
LEMMA ClientTouches ==
  ASSUME IosTypeOK, ClientStep \/ ClientUserStep \/ ClientCbReturns
  PROVE  Touches({ConnEvt, ClientIo})
<1> DEFINE S == {ConnEvt, ClientIo}
<1>1. ASSUME NEW i \in S, Io(IoNew(i)) \/ Io(IoDelete(i))
      PROVE  Touches(S)
  <2>1. i \in Ios /\ {i} \subseteq S
    BY TcpApart
  <2>2. Touches({i})
    BY <1>1, <2>1, IoTouches
  <2>3. QED
    BY <2>1, <2>2, TouchesMore
<1>2. ASSUME \/ Timer(TimerDelete(TimeEvt)) \/ Timer(TimerNew(TimeEvt, ConnTimeout))
             \/ Core(Stop) \/ UNCHANGED vars
      PROVE  Touches(S)
  BY <1>2 DEF Touches, Timer, TimerDelete, TimerNew, Core, Stop, coreVars, vars, ioVars,
              dispatchVars
<1>3. ConnEvt \in S /\ ClientIo \in S
  OBVIOUS
<1> HIDE DEF S
<1>4. ASSUME CloseSock
      PROVE  Touches(S)
  BY <1>1, <1>2, <1>3, <1>4 DEF CloseSock
<1> SUFFICES Touches(S)
  BY DEF S
<1>5. CASE ClientStep
  BY <1>1, <1>2, <1>3, <1>4, <1>5
  DEF ClientStep, ArmTimeout, ConnEvtCb, Disarm, TimeoutCb, TimeoutAnswer, ServerHup,
      DestroyConnEvt, DestroyTimeEvt, DestroyClientSock
<1>6. CASE ClientUserStep
  BY <1>1, <1>2, <1>3, <1>4, <1>6
  DEF ClientUserStep, ClientStart, ClientStartFails, ClientStop, ClientDestroy
<1>7. CASE ClientCbReturns
  BY <1>1, <1>2, <1>3, <1>4, <1>7
  DEF ClientCbReturns, ConnectCbReturns, RefusedCbReturns, TimeoutCbReturns, HupCbReturns
<1>8. QED
  BY <1>5, <1>6, <1>7

\* What a step of the loop itself does to the objects: it calls a timer only while
\* it runs, and of the files only those that epoll_wait has reported.
LoopCalls ==
  /\ callback = Nobody /\ pc # "idle" /\ (pc' = "idle" => callback' = Nobody)
  /\ UNCHANGED <<initialised, running, runs, mlios, ioAlive, registered>>
  /\ \A t \in Timers \ NullCb : timerAlive'[t] = timerAlive[t]
  /\ callback' \in Timers => running
  /\ callback' \in Ios => callback' \in DOMAIN batch \cup {reader}
  /\ reader' \in {reader, Nobody} \cup DOMAIN batch
  /\ DOMAIN batch' \subseteq DOMAIN batch \cup registered

LEMMA LoopStepCalls ==
  ASSUME TypeOK, LoopStep
  PROVE  LoopCalls
<1>1. IosTypeOK /\ ProcsTypeOK /\ itNext \in Events \cup {Nobody}
  BY DEF TypeOK, EventsTypeOK
<1>2. Nobody \notin Timers \cup Ios
  BY TimerAssumption, IoAssumption
\* What a step of the loop leaves alone.
<1> DEFINE Rest == /\ pc # "idle" /\ callback = Nobody
                   /\ UNCHANGED <<initialised, running, runs, mlios, ioAlive, registered>>
           Dispatch == UNCHANGED <<batch, reader>>
           Alive == UNCHANGED timerAlive
<1>3. ASSUME Rest, Dispatch, Alive, callback' = Nobody
      PROVE  LoopCalls
  BY <1>2, <1>3 DEF LoopCalls
<1>4. ASSUME Rest, Dispatch, Alive, pc' = pc, callback' \in Events \cup Procs \cup {Nobody}
      PROVE  LoopCalls
  BY <1>2, <1>4, ObjectsAssumption DEF LoopCalls
<1>5. CASE LoopExit \/ Poll \/ EpollEnter \/ EpollTimeout
  <2>1. Rest /\ Dispatch /\ Alive /\ callback' = Nobody
    BY <1>5 DEF LoopExit, Poll, EpollEnter, EpollTimeout, At, GoTo, ioVars, timerVars
  <2>2. QED
    BY <1>3, <2>1
<1>6. CASE Timer(TimersBegin) \/ Timer(TimersDone)
  <2>1. Rest /\ Dispatch /\ Alive /\ callback' = Nobody
    BY <1>6 DEF Timer, TimersBegin, TimersDone, At, GoTo, ioVars
  <2>2. QED
    BY <1>3, <2>1
<1>7. CASE Event(EventsBegin) \/ Event(EventsDone)
  <2>1. Rest /\ Dispatch /\ Alive /\ callback' = Nobody
    BY <1>7 DEF Event, EventsBegin, EventsDone, At, GoTo, ioVars, timerVars
  <2>2. QED
    BY <1>3, <2>1
<1>8. CASE Proc(ProcsBegin) \/ Proc(ProcsDone)
  <2>1. Rest /\ Dispatch /\ Alive /\ callback' = Nobody
    BY <1>8 DEF Proc, ProcsBegin, ProcsDone, At, GoTo, ioVars, timerVars
  <2>2. QED
    BY <1>3, <2>1
<1>9. CASE Event(HandleEvent)
  <2>1. /\ Rest /\ Dispatch /\ Alive /\ pc' = pc
        /\ Call(itNext) \/ callback' = callback
    BY <1>9 DEF Event, HandleEvent, At, ioVars, timerVars
  <2>2. callback' \in Events \cup {Nobody}
    BY <1>1, <2>1 DEF Call
  <2>3. QED
    BY <1>4, <2>1, <2>2
<1>10. ASSUME NEW pid \in Pids, Proc(Reap(pid))
       PROVE  LoopCalls
  <2>1. Rest /\ Dispatch /\ Alive /\ pc' = pc /\ Finish(pid)
    BY <1>10 DEF Proc, Reap, At, ioVars, timerVars
  <2>2. callback' = callback \/ \E k \in 1 .. Len(procs) : Call(procs[k])
    BY <1>1, <2>1, FinishFinds
  <2>3. \A k \in 1 .. Len(procs) : procs[k] \in Procs
    BY <1>1, ElementOfSeq DEF ProcsTypeOK
  <2>4. callback' \in Procs \cup {Nobody}
    BY <2>1, <2>2, <2>3 DEF Call
  <2>5. QED
    BY <1>4, <2>1, <2>4
<1>11. CASE Timer(ExpireTimer)
  <2> DEFINE t == Head(timers)
  <2>1. /\ Rest /\ Dispatch /\ running /\ pc' = pc /\ Call(t)
        /\ timerAlive' = IF t \in NullCb THEN [timerAlive EXCEPT ![t] = FALSE]
                                        ELSE timerAlive
    BY <1>11 DEF Timer, ExpireTimer, TimerFreed, At, ioVars
  <2>2. timerAlive \in [Timers -> BOOLEAN]
    BY DEF TypeOK, TimersTypeOK
  <2>3. callback' \in Timers \cup {Nobody}
    <3>1. timers # << >> /\ timers \in Seq(Timers)
      BY <1>11 DEF Timer, ExpireTimer, Expired, TypeOK, TimersTypeOK
    <3>2. Head(timers) \in Timers
      BY <3>1, HeadTailProperties
    <3>3. QED
      BY <2>1, <3>2 DEF Call
  <2> HIDE DEF t
  <2>4. QED
    BY <1>2, <2>1, <2>2, <2>3, ObjectsAssumption DEF LoopCalls
<1>12. ASSUME UNCHANGED <<timerVars, runs>>, IoLoopStep
       PROVE  LoopCalls
  <2>1. CASE EpollReport
    <3>1. PICK some \in SUBSET Ready : batch' = [i \in some |-> Flags(i)]
      BY <2>1 DEF EpollReport
    <3>2. DOMAIN batch' \subseteq registered
      BY <3>1 DEF Ready
    <3>3. Rest /\ Alive /\ callback' = Nobody /\ reader' = reader
      BY <1>12, <2>1 DEF EpollReport, At, GoTo, timerVars
    <3>4. QED
      BY <1>2, <3>2, <3>3 DEF LoopCalls
  <2>2. ASSUME NEW i \in Ios, HandleIo(i)
        PROVE  LoopCalls
    <3>1. /\ Rest /\ Alive /\ pc' = pc
          /\ i \in DOMAIN batch /\ DOMAIN batch' \subseteq DOMAIN batch
          /\ callback' \in {i, Nobody} /\ reader' \in {i, reader}
      BY <1>12, <2>2 DEF HandleIo, At, Call, timerVars
    <3>2. i \notin Timers
      BY ObjectsAssumption
    <3>3. QED
      BY <1>2, <3>1, <3>2 DEF LoopCalls
  <2>3. CASE ReaderRead \/ ReaderEof
    <3>1. /\ Rest /\ Alive /\ Dispatch /\ pc' = pc
          /\ callback' \in {reader, Nobody}
      BY <1>12, <2>3 DEF ReaderRead, ReaderEof, At, Call, timerVars
    <3>2. reader \notin Timers
      BY <1>1, <1>2, ObjectsAssumption, IoAssumption, TimerAssumption DEF IosTypeOK
    <3>3. QED
      BY <1>2, <3>1, <3>2 DEF LoopCalls
  <2>4. CASE ReaderDone \/ IosDone
    <3>1. /\ Rest /\ Alive /\ batch' = batch /\ callback' = Nobody
          /\ reader' \in {reader, Nobody}
      BY <1>12, <2>4 DEF ReaderDone, IosDone, At, GoTo, coreVars, timerVars
    <3>2. QED
      BY <1>2, <3>1 DEF LoopCalls
  <2>5. QED
    BY <1>12, <2>1, <2>2, <2>3, <2>4 DEF IoLoopStep
<1>13. QED
  BY <1>5, <1>6, <1>7, <1>8, <1>9, <1>10, <1>11, <1>12 DEF LoopStep, Io, IoLoopStep

-----------------------------------------------------------------------------
\* All steps: the loop's own, what the application does with the loop itself,
\* and those of the server, of the client and of the network.
LoopUse ==
  \/ MLoopInit
  \/ MLoopDestroy /\ ~connEvt /\ ~timeEvt
  \/ MLoopRun /\ ~ClientWorks
  \/ Core(Stop)
  \/ Core(Return) /\ ClientDone
  \/ Core(Tick)
  \/ UNCHANGED vars

ServerOwn == ServerStep \/ ServerUserStep \/ AcceptCbReturns
ClientOwn == ClientStep \/ ClientUserStep \/ ClientCbReturns

LEMMA TcpSteps ==
  ASSUME TypeOK, [TcpNext]_tcpVars
  PROVE  \/ LoopCalls /\ UNCHANGED <<serverVars, clientVars>>
         \/ LoopUse /\ UNCHANGED <<serverVars, clientVars>>
         \/ ServerOwn /\ UNCHANGED clientVars
         \/ ClientOwn /\ UNCHANGED serverVars
         \/ Network
BY LoopStepCalls
DEF TcpNext, Thread, LibraryStep, AppReturn, AppStep, UserTurn, OfLoop, OfServer, OfClient,
    LoopUse, ServerOwn, ClientOwn, tcpVars

\* Before mloop_run was called and after it has returned, no callback runs.
InRun ==
  /\ pc # "idle" => runs >= 1
  /\ callback # Nobody => pc # "idle"

LEMMA InRunStep ==
  ASSUME TypeOK, InRun, [TcpNext]_tcpVars
  PROVE  InRun' /\ runs' \in Nat /\ runs' >= runs
<1>1. runs \in Nat
  BY MLoopAssumption DEF TypeOK, CoreTypeOK
<1>2. CASE UNCHANGED <<pc, callback, runs>>
  BY <1>1, <1>2 DEF InRun
<1>3. CASE LoopCalls
  BY <1>1, <1>3 DEF LoopCalls, InRun
<1>4. CASE LoopUse
  BY <1>1, <1>2, <1>4
  DEF LoopUse, MLoopInit, MLoopDestroy, MLoopRun, Core, Stop, Return, Tick, InRun, vars,
      coreVars
<1>5. CASE ServerOwn \/ ClientOwn \/ Network
  BY <1>2, <1>5, ServerTouches, ClientTouches, NetworkTouches
  DEF ServerOwn, ClientOwn, Touches, TypeOK
<1>6. QED
  BY <1>3, <1>4, <1>5, TcpSteps

\* The loop watches what was watched before, of the files in S.
LEMMA OthersWatched ==
  ASSUME TypeOK, ClientOwn \/ Network
  PROVE  \A j \in {Listener} \cup Conns : j \in registered' <=> j \in registered
<1>1. Touches({ConnEvt, ClientIo}) \/ Touches({})
  BY ClientTouches, NetworkTouches DEF ClientOwn, TypeOK
<1>2. \A j \in {Listener} \cup Conns : j \in Ios \ {ConnEvt, ClientIo}
  BY TcpApart
<1>3. QED
  <2>1. CASE Touches({ConnEvt, ClientIo})
    BY <1>2, <2>1 DEF Touches
  <2>2. CASE Touches({})
    BY <1>2, <2>2 DEF Touches
  <2>3. QED
    BY <1>1, <2>1, <2>2
-----------------------------------------------------------------------------
(***************************************************************************)
(* The server.  The list of clients and the state of the connections agree *)
(* while accept_cb and cli_hup_cb run, and while the clients are deleted   *)
(* one after the other, as a connection waits in the backlog, is being     *)
(* accepted, or is a client, and is never two of these.                    *)
(***************************************************************************)
ServerInv ==
  /\ ServerTypeOK /\ InRun /\ ServerConsistent
  /\ IsInjective(backlog)
  /\ \A c \in ToSet(backlog) : conn[c] = "waiting"
  /\ \A c \in Conns : conn[c] \in {"accepting", "open"} => runs >= 1

\* Nothing happens to the server, and the loop watches its clients as before;
\* it watches none of them any more when it is destroyed.
LEMMA ServerFrame ==
  ASSUME ServerInv, UNCHANGED serverVars, InRun',
         runs \in Nat, runs' \in Nat, runs' >= runs,
         \A j \in {Listener} \cup Conns : j \in registered' => j \in registered,
         pc' # "idle" => \/ runs = 0
                         \/ /\ pc # "idle"
                            /\ \A c \in Conns : c \in registered => c \in registered'
  PROVE  ServerInv'
<1>1. ServerTypeOK' /\ IsInjective(backlog)'
      /\ (\A c \in ToSet(backlog) : conn[c] = "waiting")'
  BY DEF ServerInv, ServerTypeOK, serverVars
<1>2. \A c \in Conns : conn'[c] \in {"accepting", "open"} => runs' >= 1
  BY DEF ServerInv, serverVars
<1>3. /\ IsInjective(clients)'
      /\ ToSet(clients)' = {c \in Conns : conn'[c] = "open"}
      /\ Conns \cap registered' \subseteq ToSet(clients)'
      /\ Listener \in registered' => serverSock'
  BY DEF ServerInv, ServerConsistent, serverVars
<1>4. pc' # "idle" => ToSet(clients)' \subseteq registered'
  <2>1. ToSet(clients)' = ToSet(clients) /\ ToSet(clients) \subseteq Conns
    BY DEF ServerInv, ServerConsistent, serverVars
  <2>2. CASE runs = 0
    BY <2>1, <2>2 DEF ServerInv, ServerConsistent
  <2>3. CASE pc # "idle" /\ \A c \in Conns : c \in registered => c \in registered'
    BY <2>1, <2>3 DEF ServerInv, ServerConsistent
  <2>4. QED
    BY <2>2, <2>3
<1>5. QED
  BY <1>1, <1>2, <1>3, <1>4 DEF ServerInv, ServerConsistent

\* tcpserver_cli_close and tcpserver_destroy leave nothing watched.
LEMMA UnwatchDone ==
  ASSUME IosInv, NEW i \in Ios, Unwatch(i)
  PROVE  /\ registered' = registered \ {i}
         /\ UNCHANGED <<coreVars, runs>>
<1>1. CASE initialised /\ i \in ToSet(mlios)
  BY <1>1 DEF Unwatch, Io, IoDelete, Unregistered
<1>2. CASE ~(initialised /\ i \in ToSet(mlios))
  <2>1. i \notin registered
    BY <1>2 DEF IosInv, IosEmpty, IoListConsistent
  <2>2. QED
    BY <1>2, <2>1 DEF Unwatch, vars, ioVars
<1>3. QED
  BY <1>1, <1>2

LEMMA BacklogConns ==
  ASSUME ServerInv
  PROVE  ToSet(backlog) \subseteq Conns
<1>1. backlog \in Seq(Conns)
  BY DEF ServerInv, ServerTypeOK
<1>2. QED
  BY <1>1, ToSetMember, ElementOfSeq

LEMMA CliCloseKeeps ==
  ASSUME IosInv, ServerInv, NEW c \in Conns, CliClose(c)
  PROVE  ServerInv'
<1>1. /\ conn[c] = "open"
      /\ clients' = RemoveFirst(clients, c)
      /\ conn' = [conn EXCEPT ![c] = "closed"]
      /\ UNCHANGED <<serverErr, serverSock, serverAt, backlog>>
  BY DEF CliClose, ListRemove
<1>2. registered' = registered \ {c} /\ UNCHANGED <<pc, callback, runs>>
  BY UnwatchDone, TcpApart DEF CliClose, coreVars
<1>3. clients \in Seq(Conns) /\ IsInjective(clients) /\ conn \in [Conns -> ConnStates]
  BY DEF ServerInv, ServerTypeOK, ServerConsistent
<1>4. /\ clients' \in Seq(Conns)
      /\ IsInjective(clients')
      /\ ToSet(clients') = ToSet(clients) \ {c}
  BY <1>1, <1>3, RemoveFirstInjective
<1>5. /\ conn' \in [Conns -> ConnStates] /\ conn'[c] = "closed"
      /\ \A d \in Conns \ {c} : conn'[d] = conn[d]
  BY <1>1, <1>3 DEF ConnStates
<1>6. ServerTypeOK'
  BY <1>1, <1>4, <1>5 DEF ServerInv, ServerTypeOK
<1>7. ServerConsistent'
  <2>1. ToSet(clients') = {d \in Conns : conn'[d] = "open"}
    BY <1>4, <1>5 DEF ServerInv, ServerConsistent
  <2>2. /\ Conns \cap registered' \subseteq ToSet(clients')
        /\ pc' # "idle" => ToSet(clients') \subseteq registered'
        /\ Listener \in registered' => serverSock'
    BY <1>1, <1>2, <1>4 DEF ServerInv, ServerConsistent
  <2>3. QED
    BY <1>4, <2>1, <2>2 DEF ServerConsistent
<1>8. \A d \in ToSet(backlog') : conn'[d] = "waiting"
  <2>1. ToSet(backlog) \subseteq Conns
    BY BacklogConns
  <2>2. QED
    BY <1>1, <1>5, <2>1 DEF ServerInv
<1>9. \A d \in Conns : conn'[d] \in {"accepting", "open"} => runs' >= 1
  BY <1>2, <1>5 DEF ServerInv
<1>10. QED
  BY <1>1, <1>2, <1>6, <1>7, <1>8, <1>9 DEF ServerInv, InRun

\* _server_cb takes the first connection that waits.
LEMMA AcceptKeeps ==
  ASSUME ServerInv, Accept
  PROVE  ServerInv'
<1>1. /\ backlog # << >>
      /\ conn' = [conn EXCEPT ![Head(backlog)] = "accepting"]
      /\ backlog' = Tail(backlog)
      /\ callback = Listener
      /\ UNCHANGED <<serverErr, serverSock, serverAt, clients>>
  BY DEF Accept
<1>2. UNCHANGED <<registered, pc, callback, runs>>
  BY DEF Accept, Io, UserRead, vars, coreVars, ioVars
<1>3. backlog \in Seq(Conns) /\ IsInjective(backlog) /\ conn \in [Conns -> ConnStates]
  BY DEF ServerInv, ServerTypeOK
<1>4. /\ backlog' \in Seq(Conns) /\ IsInjective(backlog')
      /\ Head(backlog) \in ToSet(backlog)
      /\ ToSet(backlog') = ToSet(backlog) \ {Head(backlog)}
  BY <1>1, <1>3, TailInjective
<1>5. PICK c \in Conns : c = Head(backlog)
  BY <1>1, <1>3, HeadTailProperties
<1>6. /\ conn[c] = "waiting" /\ conn'[c] = "accepting"
      /\ conn' \in [Conns -> ConnStates]
      /\ \A d \in Conns \ {c} : conn'[d] = conn[d]
  BY <1>1, <1>3, <1>4, <1>5 DEF ServerInv, ConnStates
<1>7. ServerTypeOK'
  BY <1>1, <1>4, <1>6 DEF ServerInv, ServerTypeOK
<1>8. ServerConsistent'
  <2>1. ToSet(clients') = {d \in Conns : conn'[d] = "open"}
    BY <1>1, <1>6 DEF ServerInv, ServerConsistent
  <2>2. QED
    BY <1>1, <1>2, <2>1 DEF ServerInv, ServerConsistent
<1>9. \A d \in ToSet(backlog') : conn'[d] = "waiting"
  <2>1. ToSet(backlog) \subseteq Conns
    BY BacklogConns
  <2>2. QED
    BY <1>4, <1>5, <1>6, <2>1 DEF ServerInv
<1>10. runs' >= 1
  BY <1>1, <1>2, TcpApart DEF ServerInv, InRun
<1>11. QED
  BY <1>2, <1>4, <1>7, <1>8, <1>9, <1>10 DEF ServerInv, InRun

\* accept_cb has answered.
LEMMA AnsweredKeeps ==
  ASSUME ServerInv, NEW c \in Conns, ClientAccepted(c) \/ ClientRefused(c)
  PROVE  ServerInv'
<1>1. /\ conn[c] = "accepting"
      /\ UNCHANGED <<serverErr, serverSock, serverAt, backlog>>
  BY DEF ClientAccepted, ClientRefused
<1>2. UNCHANGED <<pc, callback, runs>>
  BY DEF ClientAccepted, ClientRefused, RegDataCallbacks, Io, IoNew, vars, coreVars
<1>3. clients \in Seq(Conns) /\ IsInjective(clients) /\ conn \in [Conns -> ConnStates]
      /\ c \notin ToSet(clients)
  BY <1>1 DEF ServerInv, ServerTypeOK, ServerConsistent
<1>4. /\ conn' \in [Conns -> ConnStates]
      /\ \A d \in Conns \ {c} : conn'[d] = conn[d]
  BY <1>3 DEF ClientAccepted, ClientRefused, ConnStates
<1>5. \A d \in ToSet(backlog') : conn'[d] = "waiting"
  <2>1. ToSet(backlog) \subseteq Conns
    BY BacklogConns
  <2>2. QED
    BY <1>1, <1>4, <2>1 DEF ServerInv
<1>6. /\ runs' >= 1
      /\ IsInjective(backlog')
  BY <1>1, <1>2 DEF ServerInv
<1>7. CASE ClientAccepted(c)
  <2>1. /\ conn'[c] = "open" /\ clients' = Append(clients, c)
        /\ registered' = registered \cup {c}
    BY <1>3, <1>7 DEF ClientAccepted, RegDataCallbacks, Io, IoNew
  <2>2. /\ clients' \in Seq(Conns) /\ IsInjective(clients')
        /\ ToSet(clients') = ToSet(clients) \cup {c}
    BY <1>3, <2>1, AppendInjectiveSeq
  <2>3. ServerTypeOK'
    BY <1>1, <1>4, <2>2 DEF ServerInv, ServerTypeOK
  <2>4. ToSet(clients') = {d \in Conns : conn'[d] = "open"}
    BY <1>4, <2>1, <2>2 DEF ServerInv, ServerConsistent
  <2>5. ServerConsistent'
    BY <1>1, <1>2, <2>1, <2>2, <2>4, TcpApart DEF ServerInv, ServerConsistent
  <2>6. QED
    BY <1>2, <1>5, <1>6, <2>3, <2>5 DEF ServerInv, InRun
<1>8. CASE ClientRefused(c)
  <2>1. conn'[c] = "closed" /\ UNCHANGED <<clients, registered>>
    BY <1>3, <1>8 DEF ClientRefused, vars, ioVars
  <2>2. ServerTypeOK'
    BY <1>1, <1>4, <2>1 DEF ServerInv, ServerTypeOK
  <2>3. ToSet(clients') = {d \in Conns : conn'[d] = "open"}
    BY <1>1, <1>4, <2>1 DEF ServerInv, ServerConsistent
  <2>4. ServerConsistent'
    BY <1>1, <1>2, <2>1, <2>3 DEF ServerInv, ServerConsistent
  <2>5. QED
    BY <1>2, <1>5, <1>6, <2>2, <2>4 DEF ServerInv, InRun
<1>9. QED
  BY <1>7, <1>8

\* tcpserver_start, tcpserver_destroy, and the other calls: the listening socket.
LEMMA SocketKeeps ==
  ASSUME IosInv, ServerInv,
         ServerStart \/ ServerStartAgain \/ ServerDestroy \/ DestroySock
  PROVE  ServerInv'
<1>1. conn \in [Conns -> ConnStates] /\ Listener \notin Conns
  BY TcpApart DEF ServerInv, ServerTypeOK
<1>2. CASE ServerStart \/ ServerStartAgain \/ ServerDestroy
  <2>1. UNCHANGED <<pc, callback, runs, clients, backlog, conn>>
    BY <1>2 DEF ServerStart, ServerStartAgain, ServerDestroy, Io, IoNew, vars, coreVars
  <2>2. /\ \/ registered' = registered
           \/ registered' = registered \cup {Listener} /\ serverSock'
        /\ serverSock => serverSock'
    <3>1. CASE ServerStart
      BY <3>1 DEF ServerStart, Io, IoNew, vars, ioVars
    <3>2. CASE ServerStartAgain
      BY <3>2 DEF ServerStartAgain, vars, ioVars
    <3>3. CASE ServerDestroy
      BY <3>3 DEF ServerDestroy, vars, ioVars
    <3>4. QED
      BY <1>2, <3>1, <3>2, <3>3
  <2>3. ServerTypeOK'
    BY <1>2, <2>1 DEF ServerInv, ServerTypeOK, ServerStart, ServerStartAgain, ServerDestroy
  <2>4. ServerConsistent'
    BY <1>1, <2>1, <2>2 DEF ServerInv, ServerConsistent
  <2>5. QED
    BY <2>1, <2>3, <2>4 DEF ServerInv, InRun
<1>3. CASE DestroySock
  <2>1. /\ clients = << >> /\ clients' = << >>
        /\ backlog' = << >> /\ serverSock' = FALSE /\ serverAt' = "destroyed"
        /\ serverErr' = serverErr
        /\ \A c \in Conns :
             conn'[c] = IF conn[c] = "waiting" THEN "closed" ELSE conn[c]
        /\ conn' \in [Conns -> ConnStates]
    BY <1>1, <1>3 DEF DestroySock, ConnStates
  <2>2. registered' = registered \ {Listener} /\ UNCHANGED <<pc, callback, runs>>
    <3>1. CASE serverSock
      BY <1>3, <3>1, UnwatchDone, TcpApart DEF DestroySock, coreVars
    <3>2. CASE ~serverSock
      BY <1>3, <3>2 DEF DestroySock, vars, coreVars, ioVars, ServerInv, ServerConsistent
    <3>3. QED
      BY <3>1, <3>2
  <2>3. << >> \in Seq(Conns) /\ IsInjective(<< >>) /\ ToSet(<< >>) = {}
    BY EmptySeq DEF IsInjective, ToSet
  <2>4. ServerTypeOK'
    BY <2>1, <2>3 DEF ServerInv, ServerTypeOK
  <2>5. ToSet(clients') = {c \in Conns : conn'[c] = "open"}
    BY <2>1 DEF ServerInv, ServerConsistent
  <2>6. ServerConsistent'
    BY <1>1, <2>1, <2>2, <2>3, <2>5 DEF ServerInv, ServerConsistent
  <2>7. \A c \in Conns : conn'[c] \in {"accepting", "open"} => runs' >= 1
    BY <2>1, <2>2 DEF ServerInv
  <2>8. QED
    BY <2>1, <2>2, <2>3, <2>4, <2>6, <2>7 DEF ServerInv, InRun
<1>4. QED
  BY <1>2, <1>3

\* The kernel makes connections, and what it tells of files is no matter of the
\* server's state.
LEMMA NetworkKeeps ==
  ASSUME TypeOK, ServerInv, Network
  PROVE  ServerInv'
<1>1. UNCHANGED <<pc, callback, runs, registered, serverErr, serverSock, serverAt, clients>>
  <2>1. Touches({})
    BY NetworkTouches DEF TypeOK
  <2>2. registered \subseteq Ios /\ registered' \subseteq Ios
    <3>1. TypeOK'
      BY TypeStep, IoCall, TcpObjects
      DEF Network, NetConnect, NetToServer, NetAnswer, NetToClient
    <3>2. QED
      BY <3>1 DEF TypeOK, IosTypeOK
  <2>3. UNCHANGED <<serverErr, serverSock, serverAt, clients>>
    BY DEF Network, NetConnect, NetToServer, NetAnswer, NetToClient, serverVars
  <2>4. \A j : j \in registered' <=> j \in registered
    <3>1. \A j \in Ios : j \in registered' <=> j \in registered
      BY <2>1 DEF Touches
    <3>2. QED
      BY <2>2, <3>1
  <2>5. registered' = registered
    BY <2>4
  <2>6. QED
    BY <2>1, <2>3, <2>5 DEF Touches
<1>2. ASSUME NEW c \in Conns, NetConnect(c)
      PROVE  ServerInv'
  <2>1. conn[c] = "new" /\ conn' = [conn EXCEPT ![c] = "waiting"]
        /\ backlog' = Append(backlog, c)
    BY <1>2 DEF NetConnect
  <2>2. backlog \in Seq(Conns) /\ IsInjective(backlog) /\ c \notin ToSet(backlog)
        /\ conn \in [Conns -> ConnStates]
    BY <2>1 DEF ServerInv, ServerTypeOK
  <2>3. /\ backlog' \in Seq(Conns) /\ IsInjective(backlog')
        /\ ToSet(backlog') = ToSet(backlog) \cup {c}
    BY <2>1, <2>2, AppendInjectiveSeq
  <2>4. /\ conn'[c] = "waiting" /\ conn' \in [Conns -> ConnStates]
        /\ \A d \in Conns \ {c} : conn'[d] = conn[d]
    BY <2>1, <2>2 DEF ConnStates
  <2>5. ServerTypeOK'
    BY <1>1, <2>3, <2>4 DEF ServerInv, ServerTypeOK
  <2>6. ToSet(clients') = {d \in Conns : conn'[d] = "open"}
    BY <1>1, <2>1, <2>4 DEF ServerInv, ServerConsistent
  <2>7. ServerConsistent'
    BY <1>1, <2>6 DEF ServerInv, ServerConsistent
  <2>8. \A d \in ToSet(backlog') : conn'[d] = "waiting"
    BY <2>3, <2>4, BacklogConns DEF ServerInv
  <2>9. \A d \in Conns : conn'[d] \in {"accepting", "open"} => runs' >= 1
    BY <1>1, <2>4 DEF ServerInv
  <2>10. QED
    BY <1>1, <2>3, <2>5, <2>7, <2>8, <2>9 DEF ServerInv, InRun
<1>3. ASSUME UNCHANGED <<conn, backlog>>
      PROVE  ServerInv'
  BY <1>1, <1>3 DEF ServerInv, ServerTypeOK, ServerConsistent, InRun
<1>4. QED
  BY <1>2, <1>3 DEF Network, NetToServer, NetAnswer, NetToClient, serverVars

LEMMA ServerStepKeeps ==
  ASSUME RunsOnce, IosInv, ServerInv, [TcpNext]_tcpVars
  PROVE  ServerInv'
<1>1. TypeOK /\ InRun
  BY DEF IosInv, ServerInv
<1>2. InRun' /\ runs \in Nat /\ runs' \in Nat /\ runs' >= runs
  BY <1>1, InRunStep, MLoopAssumption DEF TypeOK, CoreTypeOK
<1>3. CASE LoopCalls /\ UNCHANGED serverVars
  BY <1>2, <1>3, ServerFrame DEF LoopCalls
<1>4. CASE LoopUse /\ UNCHANGED serverVars
  <2>1. CASE MLoopRun
    <3>1. runs = 0 /\ registered' = registered
      BY <1>2, <2>1, MLoopAssumption DEF MLoopRun, RunsOnce, ioVars
    <3>2. QED
      BY <1>2, <1>4, <3>1, ServerFrame
  <2>2. CASE MLoopDestroy
    <3>1. registered' = {} /\ pc' = "idle"
      BY <2>2 DEF MLoopDestroy, IosDestroy
    <3>2. QED
      BY <1>2, <1>4, <3>1, ServerFrame
  <2>3. CASE MLoopInit \/ Core(Stop) \/ Core(Return) \/ Core(Tick) \/ UNCHANGED vars
    <3>1. UNCHANGED <<registered, pc>>
      BY <2>3 DEF MLoopInit, Core, Stop, Return, Tick, ioVars, vars, coreVars
    <3>2. QED
      BY <1>2, <1>4, <3>1, ServerFrame
  <2>4. QED
    BY <1>4, <2>1, <2>2, <2>3 DEF LoopUse
<1>5. CASE ServerOwn
  BY <1>5, CliCloseKeeps, AcceptKeeps, AnsweredKeeps, SocketKeeps
  DEF ServerOwn, ServerStep, EofClose, DestroyCli, ServerUserStep, UserClose,
      AcceptCbReturns
<1>6. CASE ClientOwn /\ UNCHANGED serverVars
  <2>1. \A j \in {Listener} \cup Conns : j \in registered' <=> j \in registered
    BY <1>1, <1>6, OthersWatched
  <2>2. pc' = pc
    BY <1>1, <1>6, ClientTouches DEF ClientOwn, Touches, TypeOK
  <2>3. QED
    BY <1>2, <1>6, <2>1, <2>2, ServerFrame
<1>7. QED
  BY <1>1, <1>3, <1>4, <1>5, <1>6, TcpSteps, NetworkKeeps

LEMMA ServerInvInit ==
  ASSUME TcpInit
  PROVE  ServerInv
<1>1. << >> \in Seq(Conns) /\ IsInjective(<< >>) /\ ToSet(<< >>) = {}
  BY EmptySeq DEF IsInjective, ToSet
<1>2. pc = "idle" /\ callback = Nobody /\ registered = {}
  BY DEF TcpInit, Init, CoreInit, IosInit
<1>3. QED
  BY <1>1, <1>2
  DEF TcpInit, ServerInit, ServerInv, ServerTypeOK, ConnStates, InRun, ServerConsistent

\* A program that calls mloop_run once: the list of the server has each client whose
\* socket is open, once, and the loop watches exactly these.
THEOREM ServerSound == RunsOnce => (TcpSpec => []ServerConsistent)
<1> SUFFICES ASSUME RunsOnce PROVE TcpSpec => []ServerConsistent
  OBVIOUS
<1>1. TcpInit => Init /\ ServerInv
  BY ServerInvInit DEF TcpInit
<1>2. IosInv /\ ServerInv /\ [TcpNext]_tcpVars => ServerInv'
  BY ServerStepKeeps
<1>3. ServerInv => ServerConsistent
  BY DEF ServerInv
<1>4. TcpSpec => []IosInv
  BY TcpUsesLoop, IosInvInit, IosStep, PTL DEF Spec
<1>5. QED
  BY <1>1, <1>2, <1>3, <1>4, PTL DEF TcpSpec

-----------------------------------------------------------------------------
(***************************************************************************)
(* The client.  What its pointers are at each place of its code            *)
(* (ClientPlace), what they are while it waits for the connection          *)
(* (Connecting), that nothing is heard of the connection before connect_cb *)
(* is told of it (Heard), and that a timer left without a conn_evt is      *)
(* about to be deleted or will not expire, as the loop has stopped         *)
(* (TimerAtHand).                                                          *)
(***************************************************************************)
ClientPlace ==
  /\ clientAt = "starting" => connEvt
  /\ clientAt \in {"connected", "refused", "disarm"} => callback = ConnEvt /\ ~connEvt
  /\ clientAt = "connected" => sock = "made" /\ answers >= 1
  /\ clientAt = "refused" => sock = "refused"
  /\ clientAt = "expired" =>
       callback = TimeEvt /\ ~connEvt /\ starts = 1 /\ answers = 0
  /\ clientAt = "timeout" => callback = TimeEvt /\ ~connEvt /\ ~timeEvt
  /\ clientAt \in {"expired", "timeout"} => ClientIo \notin registered
  /\ clientAt = "hup" => callback = ClientIo /\ ~connEvt
  /\ clientAt = "destroying" => pc = "idle"

Connecting == connEvt => sock # "none" /\ starts = 1 /\ answers = 0

Heard ==
  ioAlive[ClientIo] \/ ClientIo \in DOMAIN batch \cup {reader, callback} => answers >= 1

TimerAtHand ==
  timeEvt /\ ~connEvt =>
    \/ clientAt \in {"connected", "refused", "disarm", "expired", "destroying"}
    \/ ~running /\ runs >= 1

ClientInv ==
  /\ ClientTypeOK /\ ClientConsistent
  /\ ClientPlace /\ Connecting /\ Heard /\ TimerAtHand

\* What the client may have heard of its connection.
MayHear == ioAlive[ClientIo] \/ ClientIo \in DOMAIN batch \cup {reader, callback}

\* Steps of others: the objects of the client are what they were.
LEMMA ClientFrame ==
  ASSUME ClientInv, UNCHANGED clientVars,
         ioAlive'[ConnEvt] = ioAlive[ConnEvt],
         timerAlive'[TimeEvt] = timerAlive[TimeEvt],
         ConnEvt \in registered' => ConnEvt \in registered,
         ClientIo \in registered' => ClientIo \in registered,
         clientAt \in {"", "starting", "destroyed"} \/ UNCHANGED <<pc, callback>>,
         MayHear' => MayHear,
         callback' = TimeEvt => callback = TimeEvt \/ running,
         timeEvt /\ ~connEvt /\ ~running /\ runs >= 1 => ~running' /\ runs' >= 1
  PROVE  ClientInv'
<1>1. UNCHANGED <<clientErr, sock, connEvt, timeEvt, clientAt, starts, answers>>
  BY DEF clientVars
<1>2. ClientTypeOK'
  BY <1>1 DEF ClientInv, ClientTypeOK
<1>3. Connecting'
  BY <1>1 DEF ClientInv, Connecting
<1>4. ClientPlace'
  BY <1>1 DEF ClientInv, ClientPlace
<1>5. Heard'
  BY <1>1 DEF ClientInv, Heard, MayHear
<1>6. TimerAtHand'
  BY <1>1 DEF ClientInv, TimerAtHand
<1>7. ClientConsistent'
  <2>1. callback' = TimeEvt /\ timeEvt /\ clientAt = "" => connEvt
    BY DEF ClientInv, ClientConsistent, TimerAtHand
  <2>2. QED
    BY <1>1, <2>1 DEF ClientInv, ClientConsistent
<1>8. QED
  BY <1>2, <1>3, <1>4, <1>5, <1>6, <1>7 DEF ClientInv

\* What the operations of the loop do that the client uses.
LEMMA IoNewDoes ==
  ASSUME IosInv, NEW i \in Ios, Io(IoNew(i))
  PROVE  /\ ~ioAlive[i] /\ ioAlive'[i] /\ registered' = registered \cup {i}
         /\ \A j \in Ios \ {i} : ioAlive'[j] = ioAlive[j]
         /\ UNCHANGED <<pc, callback, running, runs, timerAlive, batch, reader>>
<1>1. ioAlive \in [Ios -> BOOLEAN]
  BY DEF IosInv, TypeOK, IosTypeOK
<1>2. QED
  BY <1>1 DEF Io, IoNew, coreVars, timerVars, dispatchVars

LEMMA IoDeleteDoes ==
  ASSUME IosInv, NEW i \in Ios, Io(IoDelete(i))
  PROVE  /\ ioAlive[i] /\ ~ioAlive'[i] /\ registered' = registered \ {i}
         /\ \A j \in Ios \ {i} : ioAlive'[j] = ioAlive[j]
         /\ UNCHANGED <<pc, callback, running, runs, timerAlive, batch, reader>>
<1>1. ioAlive \in [Ios -> BOOLEAN] /\ (~initialised => registered = {})
  BY DEF IosInv, TypeOK, IosTypeOK, IosEmpty
<1>2. QED
  BY <1>1 DEF Io, IoDelete, Unregistered, coreVars, timerVars, dispatchVars

LEMMA TimerDoes ==
  ASSUME IosInv, NEW t \in Timers,
         Timer(TimerNew(t, ConnTimeout)) \/ Timer(TimerDelete(t))
  PROVE  /\ Timer(TimerNew(t, ConnTimeout)) => timerAlive'[t]
         /\ Timer(TimerDelete(t)) => ~timerAlive'[t]
         /\ UNCHANGED <<pc, callback, running, runs, ioAlive, registered, batch, reader>>
<1>1. timerAlive \in [Timers -> BOOLEAN]
  BY DEF IosInv, TypeOK, TimersTypeOK
<1>2. QED
  BY <1>1 DEF Timer, TimerNew, TimerDelete, TimerFreed, coreVars, ioVars

\* tcpclient_stop leaves no reader of the connection that the loop watches.
LEMMA CloseSockDone ==
  ASSUME IosInv, ClientInv, CloseSock
  PROVE  /\ sock' = "none" /\ registered' = registered \ {ClientIo}
         /\ \A j \in Ios \ {ClientIo} : ioAlive'[j] = ioAlive[j]
         /\ ioAlive'[ClientIo] => ioAlive[ClientIo]
         /\ UNCHANGED <<pc, callback, running, runs, timerAlive, batch, reader>>
<1>1. CASE sock # "none" /\ initialised /\ ClientIo \in ToSet(mlios)
  BY <1>1, IoDeleteDoes, TcpApart DEF CloseSock
<1>2. CASE ~(sock # "none" /\ initialised /\ ClientIo \in ToSet(mlios))
  <2>1. ClientIo \notin registered
    BY <1>2
    DEF IosInv, IosEmpty, IoListConsistent, ClientInv, ClientConsistent
  <2>2. QED
    BY <1>2, <2>1
    DEF CloseSock, vars, coreVars, timerVars, ioVars
<1>3. QED
  BY <1>1, <1>2

\* The objects of the client, as ClientInv and the lists of the loop tell of them.
LEMMA ClientFacts ==
  ASSUME IosInv, ClientInv
  PROVE  /\ ConnEvt \in registered => connEvt
         /\ ioAlive[ConnEvt] <=> connEvt
         /\ sock # "made" => ClientIo \notin registered
         /\ ConnEvt # ClientIo /\ ConnEvt # TimeEvt /\ ClientIo # TimeEvt
         /\ {ConnEvt, ClientIo} \subseteq Ios /\ TimeEvt \in Timers
BY TcpApart DEF IosInv, IoListConsistent, ClientInv, ClientConsistent

LEMMA ClientCounts ==
  ASSUME ClientInv
  PROVE  /\ starts \in 0 .. 1 /\ answers \in Nat /\ answers <= starts
         /\ connEvt => starts = 1 /\ answers = 0
         /\ clientAt = "expired" => starts = 1 /\ answers = 0
BY DEF ClientInv, ClientTypeOK, ClientConsistent, Connecting, ClientPlace

LEMMA ClientStartKeeps ==
  ASSUME IosInv, ClientInv, ClientStart
  PROVE  ClientInv'
<1>1. /\ sock = "none" /\ sock' = "progress"
      /\ connEvt' = TRUE /\ clientAt' \in {"", "starting"}
      /\ UNCHANGED <<clientErr, timeEvt>>
      /\ Io(IoNew(ConnEvt))
  BY DEF ClientStart
<1>2. /\ ioAlive'[ConnEvt] /\ registered' = registered \cup {ConnEvt}
      /\ ioAlive'[ClientIo] = ioAlive[ClientIo]
      /\ UNCHANGED <<pc, callback, running, runs, timerAlive, batch, reader>>
  BY <1>1, IoNewDoes, ClientFacts
<1>3. /\ starts' = 1 /\ starts' \in 0 .. 1
      /\ answers' = answers /\ answers' = 0 /\ answers' \in Nat /\ answers' <= starts'
  <2>1. starts = 0 /\ starts' = starts + 1 /\ answers' = answers
    BY DEF ClientStart
  <2>2. answers = 0
    BY <2>1, ClientCounts
  <2>3. QED
    BY <2>1, <2>2
<1>4. ClientTypeOK'
  BY <1>1, <1>3 DEF ClientInv, ClientTypeOK, ClientPlaces
<1>5. ClientConsistent'
  BY <1>1, <1>2, <1>3, ClientFacts DEF ClientInv, ClientConsistent
<1>6. ClientPlace' /\ Connecting' /\ TimerAtHand'
  BY <1>1, <1>3 DEF ClientPlace, Connecting, TimerAtHand
<1>7. Heard'
  BY <1>2, <1>3 DEF ClientInv, Heard
<1>8. QED
  BY <1>4, <1>5, <1>6, <1>7 DEF ClientInv

\* The timer is armed when the loop waits for the connection, and deleted by
\* _conn_evt, by _timeout_cb and by tcpclient_destroy.
LEMMA ClientTimerKeeps ==
  ASSUME IosInv, ClientInv,
         ArmTimeout \/ Disarm \/ TimeoutAnswer \/ DestroyTimeEvt
  PROVE  ClientInv'
<1>1. /\ UNCHANGED <<pc, callback, running, runs, ioAlive, registered, batch, reader>>
      /\ UNCHANGED <<sock, connEvt, starts>>
      /\ clientErr' \in {clientErr, TRUE} /\ timeEvt' \in BOOLEAN
  BY TimerDoes, TcpApart DEF ArmTimeout, Disarm, TimeoutAnswer, DestroyTimeEvt
<1>2. timeEvt' <=> timerAlive'[TimeEvt]
  BY TimerDoes, TcpApart DEF ArmTimeout, Disarm, TimeoutAnswer, DestroyTimeEvt
<1>3. CASE ArmTimeout
  <2>1. /\ clientAt = "starting" /\ clientAt' = "" /\ answers' = answers /\ connEvt
    BY <1>3 DEF ArmTimeout, ClientInv, ClientPlace
  <2>2. ClientTypeOK'
    BY <1>1, <2>1 DEF ClientInv, ClientTypeOK, ClientPlaces
  <2>3. ClientConsistent'
    BY <1>1, <1>2, <2>1 DEF ClientInv, ClientConsistent
  <2>4. ClientPlace' /\ Connecting' /\ TimerAtHand' /\ Heard'
    BY <1>1, <2>1 DEF ClientInv, ClientPlace, Connecting, TimerAtHand, Heard
  <2>5. QED
    BY <2>2, <2>3, <2>4 DEF ClientInv
<1>4. CASE Disarm \/ DestroyTimeEvt
  <2>1. /\ clientAt \in {"disarm", "destroying"} /\ clientAt' \in {"", "destroying"}
        /\ clientAt' = "destroying" => clientAt = "destroying"
        /\ answers' = answers /\ ~connEvt /\ ~timeEvt'
    BY <1>4 DEF Disarm, DestroyTimeEvt, ClientInv, ClientPlace
  <2>2. ClientTypeOK'
    BY <1>1, <2>1 DEF ClientInv, ClientTypeOK, ClientPlaces
  <2>3. ClientConsistent'
    BY <1>1, <1>2, <2>1 DEF ClientInv, ClientConsistent
  <2>4. ClientPlace' /\ Connecting' /\ TimerAtHand' /\ Heard'
    BY <1>1, <2>1 DEF ClientInv, ClientPlace, Connecting, TimerAtHand, Heard
  <2>5. QED
    BY <2>2, <2>3, <2>4 DEF ClientInv
<1>5. CASE TimeoutAnswer
  <2>1. /\ clientAt = "expired" /\ clientAt' = "timeout" /\ ~connEvt /\ ~timeEvt'
        /\ callback = TimeEvt /\ ClientIo \notin registered
    BY <1>5 DEF TimeoutAnswer, ClientInv, ClientPlace
  <2>2. answers' \in Nat /\ answers' = 1 /\ answers' <= starts'
    <3>1. answers' = answers + 1 /\ starts' = starts
      BY <1>5 DEF TimeoutAnswer, TimeoutTold
    <3>2. answers = 0 /\ starts = 1
      BY <2>1, ClientCounts
    <3>3. QED
      BY <3>1, <3>2
  <2>3. ClientTypeOK'
    BY <1>1, <2>1, <2>2 DEF ClientInv, ClientTypeOK, ClientPlaces, InUserCallback
  <2>4. ClientConsistent'
    BY <1>1, <1>2, <2>1, <2>2 DEF ClientInv, ClientConsistent
  <2>5. ClientPlace' /\ Connecting' /\ TimerAtHand' /\ Heard'
    BY <1>1, <2>1, <2>2 DEF ClientPlace, Connecting, TimerAtHand, Heard
  <2>6. QED
    BY <2>3, <2>4, <2>5 DEF ClientInv
<1>6. QED
  BY <1>3, <1>4, <1>5

\* The MlIo that waits for the connection is deleted by the first of _conn_evt and
\* _timeout_cb, or by tcpclient_destroy.
LEMMA ConnEvtKeeps ==
  ASSUME IosInv, InRun, ClientInv, ConnEvtCb \/ TimeoutCb \/ DestroyConnEvt
  PROVE  ClientInv'
<1>1. /\ Io(IoDelete(ConnEvt)) /\ connEvt' = FALSE
      /\ UNCHANGED <<clientErr, sock, timeEvt, starts>>
  BY DEF ConnEvtCb, TimeoutCb, DestroyConnEvt
<1>2. /\ connEvt /\ ~ioAlive'[ConnEvt] /\ registered' = registered \ {ConnEvt}
      /\ ioAlive'[ClientIo] = ioAlive[ClientIo]
      /\ UNCHANGED <<pc, callback, running, runs, timerAlive, batch, reader>>
  BY <1>1, IoDeleteDoes, ClientFacts
<1>3. ClientIo \notin registered
  BY <1>2 DEF ClientInv, ClientConsistent
<1>4. /\ starts = 1 /\ answers = 0 /\ starts' \in 0 .. 1
      /\ answers' = 0 => answers' \in Nat /\ answers' <= starts'
      /\ answers' = answers + 1 =>
           answers' \in Nat /\ answers' <= starts' /\ answers' >= 1
  <2>1. starts = 1 /\ answers = 0 /\ starts' = starts
    BY <1>1, <1>2, ClientCounts
  <2>2. QED
    BY <2>1
<1>5. /\ answers' \in Nat /\ answers' <= starts'
      /\ clientAt' \in {"connected", "refused", "expired", "destroying"}
  <2>1. \/ answers' = answers + 1 /\ clientAt' \in {"connected", "refused"}
        \/ answers' = answers /\ clientAt' \in {"expired", "destroying"}
    BY DEF ConnEvtCb, TimeoutCb, DestroyConnEvt
  <2>2. QED
    BY <1>4, <2>1
<1>6. ClientTypeOK'
  BY <1>1, <1>4, <1>5 DEF ClientInv, ClientTypeOK, ClientPlaces, InUserCallback
<1>7. ClientConsistent'
  BY <1>1, <1>2, <1>3, <1>5, ClientFacts DEF ClientInv, ClientConsistent
<1>8. ClientPlace'
  <2>1. CASE ConnEvtCb
    <3>1. /\ callback = ConnEvt
          /\ \/ clientAt' = "connected" /\ sock' = "made"
             \/ clientAt' = "refused" /\ sock' = "refused"
      BY <2>1 DEF ConnEvtCb
    <3>2. answers' >= 1
      BY <1>4, <2>1 DEF ConnEvtCb
    <3>3. QED
      BY <1>1, <1>2, <3>1, <3>2 DEF ClientPlace
  <2>2. CASE TimeoutCb
    <3>1. callback = TimeEvt /\ clientAt' = "expired" /\ answers' = answers
      BY <2>2 DEF TimeoutCb
    <3>2. QED
      BY <1>1, <1>2, <1>3, <1>4, <3>1 DEF ClientPlace
  <2>3. CASE DestroyConnEvt
    <3>1. clientAt = "destroying" /\ clientAt' = "destroying"
      BY <2>3 DEF DestroyConnEvt
    <3>2. QED
      BY <1>2, <3>1 DEF ClientInv, ClientPlace
  <2>4. QED
    BY <2>1, <2>2, <2>3
<1>9. Connecting' /\ TimerAtHand'
  BY <1>1, <1>5 DEF Connecting, TimerAtHand
<1>10. Heard'
  <2>1. answers >= 1 => answers' >= 1
    BY <1>4
  <2>2. QED
    BY <1>2, <2>1 DEF ClientInv, Heard
<1>11. QED
  BY <1>6, <1>7, <1>8, <1>9, <1>10 DEF ClientInv

\* connect_cb has returned to _conn_evt, with or without a connection.
LEMMA ConnectKeeps ==
  ASSUME IosInv, InRun, ClientInv, ConnectCbReturns \/ RefusedCbReturns
  PROVE  ClientInv'
<1>1. callback = ConnEvt /\ ~connEvt /\ UNCHANGED <<connEvt, timeEvt, starts, answers>>
  BY DEF ConnectCbReturns, RefusedCbReturns, ClientInv, ClientPlace
<1>2. CASE ConnectCbReturns
  <2>1. /\ sock = "made" /\ answers >= 1 /\ Io(IoNew(ClientIo))
        /\ UNCHANGED <<clientErr, sock>>
        /\ \/ clientAt' = "disarm"
           \/ clientAt' = "" /\ ~timeEvt
    BY <1>2 DEF ConnectCbReturns, ThenDisarm, ClientInv, ClientPlace
  <2>2. /\ registered' = registered \cup {ClientIo}
        /\ ioAlive'[ConnEvt] = ioAlive[ConnEvt]
        /\ UNCHANGED <<pc, callback, running, runs, timerAlive, batch, reader>>
    BY <2>1, IoNewDoes, ClientFacts
  <2>3. ClientTypeOK'
    BY <1>1, <2>1 DEF ClientInv, ClientTypeOK, ClientPlaces
  <2>4. ClientConsistent'
    BY <1>1, <2>1, <2>2, ClientFacts DEF ClientInv, ClientConsistent
  <2>5. ClientPlace' /\ Connecting' /\ TimerAtHand' /\ Heard'
    BY <1>1, <2>1, <2>2 DEF ClientPlace, Connecting, TimerAtHand, Heard
  <2>6. QED
    BY <2>3, <2>4, <2>5 DEF ClientInv
<1>3. CASE RefusedCbReturns
  <2>1. /\ sock = "refused" /\ clientErr' = TRUE /\ sock' = "none" /\ clientAt' = ""
        /\ UNCHANGED <<pc, callback, runs, timerAlive, ioAlive, registered, batch, reader>>
        /\ timeEvt => ~running'
    BY <1>3
    DEF RefusedCbReturns, Core, Stop, vars, coreVars, timerVars, ioVars, ClientInv,
        ClientPlace
  <2>2. pc # "idle" /\ runs >= 1
    BY <1>1, TcpApart DEF InRun
  <2>3. ClientTypeOK'
    BY <1>1, <2>1 DEF ClientInv, ClientTypeOK, ClientPlaces
  <2>4. ClientConsistent'
    BY <1>1, <2>1, ClientFacts DEF ClientInv, ClientConsistent
  <2>5. ClientPlace' /\ Connecting' /\ TimerAtHand' /\ Heard'
    BY <1>1, <2>1, <2>2 DEF ClientInv, ClientPlace, Connecting, TimerAtHand, Heard
  <2>6. QED
    BY <2>3, <2>4, <2>5 DEF ClientInv
<1>4. QED
  BY <1>2, <1>3

\* The socket is closed, by _timeout_cb or by what tcpclient_stop does.
LEMMA ClosedKeeps ==
  ASSUME IosInv, ClientInv,
         TimeoutCbReturns \/ ClientStop \/ HupCbReturns \/ DestroyClientSock
  PROVE  ClientInv'
<1>1. /\ ~connEvt /\ sock' = "none"
      /\ UNCHANGED <<clientErr, connEvt, timeEvt, starts, answers>>
  BY DEF TimeoutCbReturns, ClientStop, HupCbReturns, DestroyClientSock, CloseSock, ClientInv,
         ClientPlace
<1>2. /\ registered' = registered \ {ClientIo}
      /\ ioAlive'[ConnEvt] = ioAlive[ConnEvt] /\ (ioAlive'[ClientIo] => ioAlive[ClientIo])
      /\ UNCHANGED <<pc, callback, running, runs, timerAlive, batch, reader>>
  <2>1. CASE TimeoutCbReturns
    <3>1. UNCHANGED vars /\ ClientIo \notin registered
      BY <2>1 DEF TimeoutCbReturns, ClientInv, ClientPlace
    <3>2. QED
      BY <3>1 DEF vars, coreVars, timerVars, ioVars
  <2>2. CASE CloseSock
    BY <2>2, CloseSockDone, ClientFacts
  <2>3. QED
    BY <2>1, <2>2 DEF ClientStop, HupCbReturns, DestroyClientSock
<1>3. \/ clientAt = "timeout" /\ ~timeEvt /\ clientAt' = ""
      \/ clientAt \in {"", "hup"} /\ ~timeEvt /\ clientAt' = clientAt
      \/ clientAt = "hup" /\ callback = ClientIo /\ clientAt' = ""
      \/ ~timeEvt /\ clientAt' = "destroyed"
  BY DEF TimeoutCbReturns, ClientStop, HupCbReturns, DestroyClientSock, ClientInv, ClientPlace
<1>4. ClientTypeOK'
  BY <1>1, <1>3 DEF ClientInv, ClientTypeOK, ClientPlaces, InUserCallback
<1>5. ClientConsistent'
  BY <1>1, <1>2, <1>3, ClientFacts DEF ClientInv, ClientConsistent
<1>6. ClientPlace'
  BY <1>1, <1>2, <1>3 DEF ClientInv, ClientPlace
<1>7. Connecting' /\ Heard'
  BY <1>1, <1>2 DEF ClientInv, Connecting, Heard
<1>8. TimerAtHand'
  BY <1>1, <1>2, <1>3 DEF ClientInv, TimerAtHand
<1>9. QED
  BY <1>4, <1>5, <1>6, <1>7, <1>8 DEF ClientInv

\* The end of the server is told only of a connection that was made.
LEMMA PlaceKeeps ==
  ASSUME InRun, ClientInv, ServerHup \/ ClientStartFails \/ ClientDestroy
  PROVE  ClientInv'
<1>1. /\ clientAt = "" /\ clientErr' \in {clientErr, TRUE}
      /\ UNCHANGED <<sock, connEvt, timeEvt, starts, answers>>
      /\ UNCHANGED <<pc, callback, running, runs, timerAlive, ioAlive, registered, batch,
                     reader>>
  BY DEF ServerHup, ClientStartFails, ClientDestroy, vars, coreVars, timerVars, ioVars
<1>2. \/ clientAt' = "hup" /\ callback = ClientIo
      \/ clientAt' = "destroying" /\ pc = "idle"
      \/ clientAt' = ""
  BY DEF ServerHup, ClientStartFails, ClientDestroy, ServerGone
<1>3. callback = ClientIo => ~connEvt
  <2>1. ~(answers >= 1 /\ answers = 0)
    OBVIOUS
  <2>2. QED
    BY <2>1 DEF ClientInv, Heard, Connecting
<1>4. ClientTypeOK'
  BY <1>1, <1>2 DEF ClientInv, ClientTypeOK, ClientPlaces, InUserCallback
<1>5. ClientConsistent'
  BY <1>1, <1>2 DEF ClientInv, ClientConsistent
<1>6. ClientPlace'
  BY <1>1, <1>2, <1>3 DEF ClientPlace
<1>7. Connecting' /\ Heard' /\ TimerAtHand'
  BY <1>1 DEF ClientInv, Connecting, Heard, TimerAtHand
<1>8. QED
  BY <1>4, <1>5, <1>6, <1>7 DEF ClientInv

\* The loop goes on: it calls _timeout_cb only while it runs, and _eof_cb only for
\* a file it was told to watch.
LEMMA LoopKeeps ==
  ASSUME IosInv, ClientInv, LoopCalls, UNCHANGED clientVars
  PROVE  ClientInv'
<1>1. clientAt \in {"", "starting", "destroyed"}
  BY TcpApart
  DEF LoopCalls, ClientInv, ClientTypeOK, ClientPlaces, InUserCallback, ClientPlace
<1>2. /\ ioAlive'[ConnEvt] = ioAlive[ConnEvt]
      /\ timerAlive'[TimeEvt] = timerAlive[TimeEvt]
      /\ UNCHANGED <<registered, running, runs>>
      /\ callback' = TimeEvt => running
  BY TcpApart DEF LoopCalls
<1>3. MayHear' => MayHear
  BY TcpApart DEF LoopCalls, MayHear, IosInv, IoListConsistent
<1>4. QED
  BY <1>1, <1>2, <1>3, ClientFrame

LEMMA UseKeeps ==
  ASSUME RunsOnce, IosInv, InRun, ClientInv, LoopUse, UNCHANGED clientVars
  PROVE  ClientInv'
<1>1. runs \in Nat
  BY MLoopAssumption DEF IosInv, TypeOK, CoreTypeOK
<1>2. ASSUME UNCHANGED <<timerAlive, ioAlive, registered, batch, reader, runs>>,
             callback' \in {callback, Nobody}, (running' => running),
             clientAt \in {"", "starting", "destroyed"} \/ UNCHANGED <<pc, callback>>
      PROVE  ClientInv'
  <2>1. MayHear' => MayHear
    BY <1>2, TcpApart DEF MayHear
  <2>2. callback' = TimeEvt => callback = TimeEvt
    BY <1>2, TcpApart
  <2>3. ~running /\ runs >= 1 => ~running' /\ runs' >= 1
    BY <1>2
  <2>4. QED
    BY <1>2, <2>1, <2>2, <2>3, ClientFrame
<1>3. CASE MLoopInit \/ Core(Stop) \/ Core(Tick) \/ UNCHANGED vars
  <2>1. /\ UNCHANGED <<timerAlive, ioAlive, registered, batch, reader, runs, pc, callback>>
        /\ (running' => running)
    BY <1>3 DEF MLoopInit, Core, Stop, Tick, vars, coreVars, timerVars, ioVars
  <2>2. QED
    BY <1>2, <2>1
<1>4. CASE Core(Return) /\ ClientDone
  <2>1. /\ UNCHANGED <<timerAlive, ioAlive, registered, batch, reader, runs, running>>
        /\ callback' = Nobody /\ clientAt \in {"", "destroyed"}
    BY <1>4 DEF Core, Return, timerVars, ioVars, ClientDone
  <2>2. QED
    BY <1>2, <2>1
<1>5. CASE MLoopRun /\ ~ClientWorks
  <2>1. /\ UNCHANGED <<timerAlive, ioAlive, registered, batch, reader, callback>>
        /\ pc = "idle" /\ ~(runs >= 1)
    BY <1>1, <1>5, MLoopAssumption DEF MLoopRun, timerVars, ioVars, RunsOnce
  <2>2. callback = Nobody
    BY <2>1 DEF InRun
  <2>3. clientAt \in {"", "starting", "destroyed"}
    BY <1>5, <2>2, TcpApart
    DEF ClientWorks, ClientInv, ClientTypeOK, ClientPlaces, InUserCallback, ClientPlace
  <2>4. MayHear' => MayHear
    BY <2>1 DEF MayHear
  <2>5. QED
    BY <2>1, <2>3, <2>4, ClientFrame
<1>6. CASE MLoopDestroy /\ ~connEvt /\ ~timeEvt
  <2>1. /\ ~ioAlive[ConnEvt] /\ ~timerAlive[TimeEvt]
    BY <1>6 DEF ClientInv, ClientConsistent
  <2>2. /\ UNCHANGED <<batch, reader, callback, pc, running, runs>>
        /\ registered' = {}
    BY <1>6 DEF MLoopDestroy, IosDestroy, dispatchVars
  <2>3. \A i \in Ios : ioAlive'[i] => ioAlive[i]
    BY <1>6 DEF MLoopDestroy, IosDestroy
  <2>4. \A t \in Timers : timerAlive'[t] => timerAlive[t]
    BY <1>6 DEF MLoopDestroy, TimersDestroy
  <2>5. MayHear' => MayHear
    BY <2>2, <2>3, TcpApart DEF MayHear
  <2>6. /\ ioAlive'[ConnEvt] = ioAlive[ConnEvt]
        /\ timerAlive'[TimeEvt] = timerAlive[TimeEvt]
    <3>1. /\ ioAlive'[ConnEvt] \in BOOLEAN /\ ioAlive[ConnEvt] \in BOOLEAN
          /\ timerAlive'[TimeEvt] \in BOOLEAN /\ timerAlive[TimeEvt] \in BOOLEAN
      <4>1. /\ ioAlive \in [Ios -> BOOLEAN]
            /\ timerAlive \in [Timers -> BOOLEAN]
            /\ ioAlive' = [i \in Ios |-> ioAlive[i] /\ i \notin ToSet(mlios)]
            /\ timerAlive' = [t \in Timers |-> timerAlive[t] /\ t \notin ToSet(timers)]
        BY <1>6 DEF IosInv, TypeOK, IosTypeOK, TimersTypeOK, MLoopDestroy, IosDestroy,
                    TimersDestroy
      <4>2. QED
        BY <4>1, TcpApart
    <3>2. QED
      BY <2>1, <2>3, <2>4, <3>1, TcpApart
  <2>7. QED
    BY <1>6, <2>2, <2>5, <2>6, ClientFrame
<1>7. QED
  BY <1>3, <1>4, <1>5, <1>6 DEF LoopUse

\* The server and the network leave the objects of the client alone; the network tells
\* what became of connect().
LEMMA OthersKeep ==
  ASSUME IosInv, ClientInv, (ServerOwn /\ UNCHANGED clientVars) \/ Network
  PROVE  ClientInv'
<1>1. /\ UNCHANGED <<pc, callback, running, runs, timerAlive, batch, reader>>
      /\ \A j \in {ConnEvt, ClientIo} :
           /\ ioAlive'[j] = ioAlive[j]
           /\ j \in registered' <=> j \in registered
  <2>1. \A j \in {ConnEvt, ClientIo} :
          j \in Ios \ ({Listener} \cup Conns) /\ j \in Ios \ {}
    BY TcpApart
  <2>2. /\ Touches({Listener} \cup Conns) \/ Touches({})
        /\ UNCHANGED <<coreVars, timerVars>>
    BY ServerTouches, NetworkTouches DEF ServerOwn, IosInv, TypeOK
  <2>3. \A j \in {ConnEvt, ClientIo} :
           /\ ioAlive'[j] = ioAlive[j]
           /\ j \in registered' <=> j \in registered
    <3>1. CASE Touches({Listener} \cup Conns)
      BY <2>1, <3>1 DEF Touches
    <3>2. CASE Touches({})
      BY <2>1, <3>2 DEF Touches
    <3>3. QED
      BY <2>2, <3>1, <3>2
  <2>4. QED
    BY <2>2, <2>3 DEF Touches, coreVars, timerVars, dispatchVars
<1>2. CASE UNCHANGED clientVars
  <2>1. MayHear' => MayHear
    BY <1>1 DEF MayHear
  <2>2. QED
    BY <1>1, <1>2, <2>1, ClientFrame
<1>3. CASE NetAnswer
  <2>1. /\ sock = "progress" /\ sock' \in {"made", "refused"}
        /\ UNCHANGED <<clientErr, connEvt, timeEvt, clientAt, starts, answers>>
    BY <1>3 DEF NetAnswer
  <2>2. ClientTypeOK'
    BY <2>1 DEF ClientInv, ClientTypeOK
  <2>3. ClientConsistent'
    BY <1>1, <2>1 DEF ClientInv, ClientConsistent
  <2>4. ClientPlace'
    BY <1>1, <2>1 DEF ClientInv, ClientPlace
  <2>5. Connecting' /\ Heard' /\ TimerAtHand'
    BY <1>1, <2>1 DEF ClientInv, Connecting, Heard, TimerAtHand
  <2>6. QED
    BY <2>2, <2>3, <2>4, <2>5 DEF ClientInv
<1>4. QED
  BY <1>2, <1>3 DEF Network, NetConnect, NetToServer, NetToClient

LEMMA ClientStepKeeps ==
  ASSUME RunsOnce, IosInv, InRun, ClientInv, [TcpNext]_tcpVars
  PROVE  ClientInv' /\ InRun'
<1>1. TypeOK
  BY DEF IosInv
<1>2. CASE ClientOwn
  <2>1. ClientInv'
    BY <1>2, ClientStartKeeps, ClientTimerKeeps, ConnEvtKeeps, ConnectKeeps, ClosedKeeps,
       PlaceKeeps
    DEF ClientOwn, ClientStep, ClientUserStep, ClientCbReturns
  <2>2. QED
    BY <1>1, <2>1, InRunStep
<1>3. QED
  BY <1>1, <1>2, TcpSteps, LoopKeeps, UseKeeps, OthersKeep, InRunStep

LEMMA ClientInvInit ==
  ASSUME TcpInit
  PROVE  ClientInv /\ InRun
<1>1. /\ pc = "idle" /\ callback = Nobody /\ registered = {}
      /\ DOMAIN batch = {} /\ reader = Nobody
      /\ ioAlive = [i \in Ios |-> FALSE] /\ timerAlive = [t \in Timers |-> FALSE]
  BY DEF TcpInit, Init, CoreInit, IosInit, TimersInit, NoBatch
<1>2. ~ioAlive[ConnEvt] /\ ~ioAlive[ClientIo] /\ ~timerAlive[TimeEvt]
  BY <1>1, TcpApart
<1>3. ClientInit
  BY DEF TcpInit
<1>4. ClientIo \notin {Nobody}
  BY TcpApart
<1>5. ClientTypeOK /\ answers <= starts
  <2>1. starts = 0 /\ answers = 0
    BY <1>3 DEF ClientInit
  <2>2. starts \in 0 .. 1 /\ answers \in Nat /\ answers <= starts
    BY <2>1
  <2>3. QED
    BY <1>3, <2>2 DEF ClientInit, ClientTypeOK, ClientPlaces
<1>6. ClientConsistent /\ ClientPlace /\ Connecting /\ TimerAtHand
  BY <1>1, <1>2, <1>3, <1>5
  DEF ClientInit, ClientConsistent, ClientPlace, Connecting, TimerAtHand
<1>7. Heard
  BY <1>1, <1>2, <1>4 DEF Heard
<1>8. InRun
  BY <1>1 DEF InRun
<1>9. QED
  BY <1>5, <1>6, <1>7, <1>8 DEF ClientInv

\* A program that calls mloop_run once: the pointers of the client and the loop agree,
\* whether the connection, the timeout or the end of the server comes first, and
\* connect_cb is called once.
THEOREM ClientSound == RunsOnce => (TcpSpec => []ClientConsistent)
<1> SUFFICES ASSUME RunsOnce PROVE TcpSpec => []ClientConsistent
  OBVIOUS
<1>1. TcpInit => ClientInv /\ InRun
  BY ClientInvInit
<1>2. IosInv /\ ClientInv /\ InRun /\ [TcpNext]_tcpVars => ClientInv' /\ InRun'
  BY ClientStepKeeps
<1>3. ClientInv => ClientConsistent
  BY DEF ClientInv
<1>4. TcpSpec => []IosInv
  BY TcpUsesLoop, IosInvInit, IosStep, PTL DEF Spec
<1>5. QED
  BY <1>1, <1>2, <1>3, <1>4, PTL DEF TcpSpec
=============================================================================
