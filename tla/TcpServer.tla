------------------------------ MODULE TcpServer -----------------------------
(***************************************************************************)
(* A TcpServer (src/tcpserver.c) on the main loop.  A client of the server *)
(* is one name for its TcpServerCli, its Socket and its MlIoReader; the    *)
(* operations of the loop are those of MLoop, one in a step.               *)
(*                                                                         *)
(* The application starts the server when the loop is initialised, and     *)
(* destroys it when the loop does not run.  It closes only clients that    *)
(* have been accepted, and not the one whose end cli_hup_cb is told of:    *)
(* _eof_cb closes that.  accept() fails only when no connection waits.     *)
(***************************************************************************)
EXTENDS MLoop

CONSTANTS
  Listener,  (* the MlIo of the listening socket                           *)
  Conns,     (* connections to the server, seen from its side              *)
  Backlog    (* how many connections the kernel keeps waiting              *)

ASSUME ServerAssumption ==
  /\ Listener \in Ios \ Readers
  /\ Conns \subseteq Readers \cap Sockets
  /\ Backlog \in Nat \ {0}

VARIABLES
  serverErr,   (* self->err # TCPSERVER_SUCCESS                            *)
  serverSock,  (* self->sock # NULL                                        *)
  serverAt,    (* "destroying" in tcpserver_destroy, "destroyed" after it  *)
  clients,     (* self->clients                                            *)
  backlog,     (* the connections the kernel has made and nobody accepted  *)
  conn         (* the state of each connection, see ConnStates             *)

serverVars == <<serverErr, serverSock, serverAt, clients, backlog, conn>>

\* A connection is being accepted from accept() until accept_cb returns.
ConnStates == {"new", "waiting", "accepting", "open", "closed"}

Accepting == {c \in Conns : conn[c] = "accepting"}

ServerInit ==
  /\ serverErr = FALSE
  /\ serverSock = FALSE
  /\ serverAt = ""
  /\ clients = <<>>
  /\ backlog = <<>>
  /\ conn = [c \in Conns |-> "new"]

\* The loop is told the end of connection c: _eof_cb runs.
HupOf(c) == callback = c /\ report = {"rdhup"}

\* Code of the server runs, none of the application.
ServerWorks ==
  \/ serverAt = "destroying"
  \/ callback = Listener /\ Accepting = {}
  \/ \E c \in Conns : HupOf(c) /\ conn[c] = "closed"

\* No code of the server is left to run in the loop's callback.
ServerDone ==
  /\ callback = Listener => Accepting = {} /\ backlog = <<>>
  /\ \A c \in Conns : HupOf(c) => conn[c] = "closed"

-----------------------------------------------------------------------------
\* tcpserver_start: the socket listens and the loop watches it, or one of the
\* calls for it fails.
ServerStart ==
  /\ ~serverErr
  /\ ~serverSock
  /\ serverAt = ""
  /\ \/ serverSock' = TRUE /\ Io(IoNew(Listener)) /\ UNCHANGED serverErr
     \/ serverErr' = TRUE /\ UNCHANGED <<vars, serverSock>>
  /\ UNCHANGED <<serverAt, clients, backlog, conn>>

\* tcpserver_start of a server that was started: TCPSERVER_SOCKET_IN_USE.
ServerStartAgain ==
  /\ ~serverErr
  /\ serverSock
  /\ serverErr' = TRUE
  /\ UNCHANGED <<vars, serverSock, serverAt, clients, backlog, conn>>

-----------------------------------------------------------------------------
\* _server_cb accepts the next connection and asks accept_cb.  When none
\* waits any more, there is nothing to read from the listening socket.
Accept ==
  /\ callback = Listener
  /\ Accepting = {}
  /\ backlog # <<>>
  /\ conn' = [conn EXCEPT ![Head(backlog)] = "accepting"]
  /\ backlog' = Tail(backlog)
  /\ IF Len(backlog) = 1 THEN Io(UserRead(Listener)) ELSE UNCHANGED vars
  /\ UNCHANGED <<serverErr, serverSock, serverAt, clients>>

\* PLANTED BUG: the loop is not told of a client that has no data callback.
NoCallbacks(c) == UNCHANGED vars

\* _cli_reg_data_callbacks
RegDataCallbacks(c) == Io(IoNew(c))

\* accept_cb returns true: the client is watched and put into the list.
ClientAccepted(c) ==
  /\ conn[c] = "accepting"
  /\ RegDataCallbacks(c)
  /\ clients' = Append(clients, c)
  /\ conn' = [conn EXCEPT ![c] = "open"]
  /\ UNCHANGED <<serverErr, serverSock, serverAt, backlog>>

\* accept_cb returns false: the client is deleted, and nothing watches it.
ClientRefused(c) ==
  /\ conn[c] = "accepting"
  /\ conn' = [conn EXCEPT ![c] = "closed"]
  /\ UNCHANGED <<vars, serverErr, serverSock, serverAt, clients, backlog>>

-----------------------------------------------------------------------------
\* PLANTED BUG: only the socket is deleted.
StillWatched(i) == UNCHANGED vars

\* The MlIo that mloop_io_by_io finds for a file is deleted.
Unwatch(i) ==
  IF initialised /\ i \in ToSet(mlios) THEN Io(IoDelete(i)) ELSE UNCHANGED vars

\* tcpserver_cli_close: out of the list, and _cli_destroy.
CliClose(c) ==
  /\ conn[c] = "open"
  /\ Unwatch(c)
  /\ clients' = ListRemove(clients, c)
  /\ conn' = [conn EXCEPT ![c] = "closed"]
  /\ UNCHANGED <<serverErr, serverSock, serverAt, backlog>>

\* The application closes a client.
UserClose(c) == ~HupOf(c) /\ CliClose(c)

\* _eof_cb, when cli_hup_cb has returned.
EofClose(c) == HupOf(c) /\ CliClose(c)

-----------------------------------------------------------------------------
\* tcpserver_destroy: list_destroy deletes one client after the other, then
\* the listening socket is closed, and with it all connections that wait.
ServerDestroy ==
  /\ pc = "idle"
  /\ serverAt = ""
  /\ serverAt' = "destroying"
  /\ UNCHANGED <<vars, serverErr, serverSock, clients, backlog, conn>>

DestroyCli ==
  /\ serverAt = "destroying"
  /\ clients # <<>>
  /\ \E c \in Conns : c = Head(clients) /\ CliClose(c)

DestroySock ==
  /\ serverAt = "destroying"
  /\ clients = <<>>
  /\ serverAt' = "destroyed"
  /\ IF serverSock THEN Unwatch(Listener) ELSE UNCHANGED vars
  /\ serverSock' = FALSE
  /\ backlog' = <<>>
  /\ conn' = [c \in Conns |-> IF conn[c] = "waiting" THEN "closed" ELSE conn[c]]
  /\ UNCHANGED <<serverErr, clients>>

-----------------------------------------------------------------------------
ServerStep ==
  \/ Accept
  \/ \E c \in Conns : EofClose(c)
  \/ DestroyCli
  \/ DestroySock

AcceptCbReturns == \E c \in Conns : ClientAccepted(c) \/ ClientRefused(c)

ServerUserStep ==
  \/ ServerStart
  \/ ServerStartAgain
  \/ \E c \in Conns : UserClose(c)
  \/ ServerDestroy

ServerTypeOK ==
  /\ {serverErr, serverSock} \subseteq BOOLEAN
  /\ serverAt \in {"", "destroying", "destroyed"}
  /\ clients \in Seq(Conns)
  /\ backlog \in Seq(Conns)
  /\ conn \in [Conns -> ConnStates]

\* The list has each client whose socket is open, once, and the loop watches
\* exactly these: no callback can come for a client that was closed, refused
\* or destroyed, and no socket is left open without an owner
\* (tcpserver.c:37-48, 82-102, 141-144, 183-190).
ServerConsistent ==
  /\ IsInjective(clients)
  /\ ToSet(clients) = {c \in Conns : conn[c] = "open"}
  /\ Conns \cap registered \subseteq ToSet(clients)
  /\ pc # "idle" => ToSet(clients) \subseteq registered
  /\ Listener \in registered => serverSock
=============================================================================
