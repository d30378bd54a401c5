--------------------------------- MODULE Tcp --------------------------------
(***************************************************************************)
(* A TcpServer and a TcpClient on one main loop, the network between them, *)
(* and peers of the server that are other programs.  All that the server   *)
(* and the client do with the loop are steps of MLoop.                     *)
(***************************************************************************)
EXTENDS TcpServer, TcpClient

CONSTANTS
  OurConn,  (* the server's side of the client's connection               *)
  Silent    (* BOUND: readers to which only the end of the data comes      *)

ASSUME TcpAssumption ==
  /\ OurConn \in Conns
  /\ ConnEvt # Listener
  /\ ClientIo \notin Conns
  /\ NullCb \cap ({Listener, ConnEvt, TimeEvt, ClientIo} \cup Conns) = {}

tcpVars == <<vars, serverVars, clientVars>>

\* A step of the loop, of the server or of the client.
OfLoop(step) == step /\ UNCHANGED <<serverVars, clientVars>>
OfServer(step) == step /\ UNCHANGED clientVars
OfClient(step) == step /\ UNCHANGED serverVars

-----------------------------------------------------------------------------
\* The kernel of the server takes a connection: one of another program, or
\* the one the client has asked for.
NetConnect(c) ==
  /\ serverSock
  /\ Len(backlog) < Backlog
  /\ conn[c] = "new"
  /\ c = OurConn => sock = "progress"
  /\ conn' = [conn EXCEPT ![c] = "waiting"]
  /\ backlog' = Append(backlog, c)
  /\ IF unread[Listener] THEN UNCHANGED vars
     ELSE Io(FileChange(Listener)) /\ unread'[Listener]
  /\ UNCHANGED <<serverErr, serverSock, serverAt, clients, clientVars>>

\* The client's kernel learns that the connection is made or refused.  It may
\* also never learn anything.
NetAnswer ==
  /\ sock = "progress"
  /\ \/ conn[OurConn] # "new" /\ sock' = "made"
     \/ conn[OurConn] = "new" /\ ~serverSock /\ sock' = "refused"
  /\ Io(FileChange(ConnEvt))
  /\ writable'[ConnEvt]
  /\ UNCHANGED <<clientErr, connEvt, timeEvt, clientAt, starts, answers,
                 serverVars>>

\* The other end has closed, or never sends its end: for the client's
\* connection the other end is the client, any other peer may do both.
PeerGone(c) == c = OurConn => sock = "none"
PeerThere(c) == c = OurConn => sock = "made"

\* Data or the end of the data come to the server's side of a connection.
NetToServer(c) ==
  /\ conn[c] \in {"waiting", "accepting", "open"}
  /\ Io(FileChange(c))
  /\ unread'[c] # unread[c] => PeerThere(c) /\ c \notin Silent
  /\ eof'[c] # eof[c] => PeerGone(c)
  /\ UNCHANGED <<serverVars, clientVars>>

\* Data or the end of the data come to the client.
NetToClient ==
  /\ sock = "made"
  /\ Io(FileChange(ClientIo))
  /\ unread'[ClientIo] # unread[ClientIo] =>
       conn[OurConn] \in {"accepting", "open"} /\ ClientIo \notin Silent
  /\ eof'[ClientIo] # eof[ClientIo] => conn[OurConn] = "closed"
  /\ UNCHANGED <<serverVars, clientVars>>

-----------------------------------------------------------------------------
\* What the application does where its code runs.
UserTurn == UserCode /\ ~ServerWorks /\ ~ClientWorks

AppStep ==
  /\ UserTurn
  /\ \/ OfLoop(MLoopInit)
     \/ OfLoop(MLoopDestroy) /\ ~connEvt /\ ~timeEvt
     \/ OfLoop(MLoopRun)
     \/ OfLoop(Core(Stop))
     \/ OfServer(ServerUserStep)
     \/ OfClient(ClientUserStep)

\* A callback of the application returns, to the server, the client or the
\* loop.
AppReturn ==
  \/ OfServer(AcceptCbReturns)
  \/ OfClient(ClientCbReturns)
  \/ ServerDone /\ ClientDone /\ OfLoop(Core(Return))

LibraryStep == OfServer(ServerStep) \/ OfClient(ClientStep)

Network ==
  \/ \E c \in Conns : NetConnect(c) \/ NetToServer(c)
  \/ NetAnswer
  \/ NetToClient

\* The one thread of the process goes on.
Thread == OfLoop(LoopStep) \/ LibraryStep \/ AppReturn

TcpNext ==
  \/ Thread
  \/ AppStep
  \/ OfLoop(Core(Tick))
  \/ Network

TcpInit == Init /\ ServerInit /\ ClientInit

TcpSpec == TcpInit /\ [][TcpNext]_tcpVars

(***************************************************************************)
(* Fairness: the thread goes on, in the loop, in the server, in the client *)
(* or to the end of a callback; time passes.  Nothing is assumed of the    *)
(* network.                                                                *)
(***************************************************************************)
TcpFairSpec ==
  /\ TcpSpec
  /\ WF_tcpVars(Thread)
  /\ WF_tcpVars(OfLoop(Core(Tick)))

-----------------------------------------------------------------------------
TcpTypeOK == TypeOK /\ ServerTypeOK /\ ClientTypeOK

\* While the loop runs, a client of the server whose peer has closed the
\* connection is closed, whatever the other clients and the application do.
HangupCloses ==
  \A c \in Conns :
    (running /\ conn[c] = "open" /\ eof[c]) ~> (~running \/ conn[c] = "closed")

\* While the loop runs, connect_cb of a client that limits the time for its
\* connection is called, even if the network never answers, and whichever of
\* the answer and the timeout comes first (if the time is within the bound of
\* the clock).
ConnectAnswered ==
  (running /\ timeEvt /\ timerTime[TimeEvt] <= MaxNow)
    ~> (~running \/ answers = starts)
=============================================================================
