------------------------------ MODULE TcpClient -----------------------------
(***************************************************************************)
(* A TcpClient (src/tcpclient.c) on the main loop: one connection, with    *)
(* the MlIo that waits for it, the timer that limits the wait, and the     *)
(* reader of its data.  ConnEvt and ClientIo are two objects for one       *)
(* socket: ConnEvt can be written to once the kernel has an answer.        *)
(*                                                                         *)
(* The application starts the client when the loop is initialised.  It     *)
(* does not stop the client while it connects or in connect_cb, as         *)
(* tcpclient_stop leaves conn_evt and time_evt behind, and it destroys the *)
(* client when the loop does not run, before mloop_destroy if it connects. *)
(* When the connection is refused and there is a timeout, it stops the     *)
(* loop, as example/tcpclient.c does: the timer stays armed, and           *)
(* _timeout_cb would use what is gone.                                     *)
(***************************************************************************)
EXTENDS MLoop

CONSTANTS
  ConnEvt,     (* self->conn_evt: the MlIo that waits for the connection   *)
  ClientIo,    (* the MlIoReader of the connection                         *)
  TimeEvt,     (* self->time_evt                                           *)
  ConnTimeout  (* self->timeout, 0: none                                   *)

ASSUME ClientAssumption ==
  /\ ConnEvt \in Writers
  /\ ClientIo \in Readers \cap Sockets
  /\ TimeEvt \in Timers
  /\ ConnTimeout \in Msecs \cup {0}

VARIABLES
  clientErr,  (* self->err # TCPCLIENT_SUCCESS                             *)
  sock,       (* "none" if self->sock is NULL or was never open, else what *)
              (* became of connect(): "progress", "made" or "refused"      *)
  connEvt,    (* self->conn_evt # NULL                                     *)
  timeEvt,    (* self->time_evt # NULL                                     *)
  clientAt,   (* where the client's code is, see ClientPlaces              *)
  starts,     (* how often connect() was called                            *)
  answers     (* HISTORY: how often connect_cb was called                  *)

clientVars ==
  <<clientErr, sock, connEvt, timeEvt, clientAt, starts, answers>>

(***************************************************************************)
(* Places of the client's code, "" outside of it:                          *)
(*   starting    in tcpclient_start, about to arm the timer                *)
(*   connected   in connect_cb, called by _conn_evt without an error       *)
(*   refused     in connect_cb, called by _conn_evt with one               *)
(*   disarm      in _conn_evt, about to delete the timer                   *)
(*   expired     in _timeout_cb, about to delete the timer                 *)
(*   timeout     in connect_cb, called by _timeout_cb                      *)
(*   hup         in serv_hup_cb, called by _eof_cb                         *)
(*   destroying  in tcpclient_destroy, destroyed after it                  *)
(***************************************************************************)
InUserCallback == {"connected", "refused", "timeout", "hup"}
ClientPlaces == InUserCallback \cup
  {"", "starting", "disarm", "expired", "destroying", "destroyed"}

ClientInit ==
  /\ clientErr = FALSE
  /\ sock = "none"
  /\ connEvt = FALSE
  /\ timeEvt = FALSE
  /\ clientAt = ""
  /\ starts = 0
  /\ answers = 0

ServerGone == callback = ClientIo /\ report = {"rdhup"}

\* Code of the client runs, none of the application.
ClientWorks ==
  \/ clientAt \in {"starting", "disarm", "expired", "destroying"}
  \/ clientAt = "" /\ (callback \in {ConnEvt, TimeEvt} \/ ServerGone)

\* No code of the client is left to run in the loop's callback.
ClientDone ==
  /\ clientAt \in {"", "destroyed"}
  /\ callback = ConnEvt => ~ioAlive[ConnEvt]
  /\ callback = TimeEvt => ~timerAlive[TimeEvt]
  /\ ServerGone => sock = "none"

-----------------------------------------------------------------------------
\* tcpclient_start: the connection is in progress and the loop waits for it.
ClientStart ==
  /\ ~clientErr
  /\ sock = "none"
  /\ clientAt = ""
  /\ starts = 0  \* BOUND: one connection
  /\ starts' = starts + 1
  /\ sock' = "progress"
  /\ Io(IoNew(ConnEvt))
  /\ connEvt' = TRUE
  /\ clientAt' = IF ConnTimeout > 0 THEN "starting" ELSE ""
  /\ UNCHANGED <<clientErr, timeEvt, answers>>

\* There is no socket, or connect() fails at once.
ClientStartFails ==
  /\ ~clientErr
  /\ sock = "none"
  /\ clientAt = ""
  /\ clientErr' = TRUE
  /\ UNCHANGED <<vars, sock, connEvt, timeEvt, clientAt, starts, answers>>

\* tcpclient_start goes on: the time for the connection is limited.
ArmTimeout ==
  /\ clientAt = "starting"
  /\ Timer(TimerNew(TimeEvt, ConnTimeout))
  /\ timeEvt' = TRUE
  /\ clientAt' = ""
  /\ UNCHANGED <<clientErr, sock, connEvt, starts, answers>>

-----------------------------------------------------------------------------
\* _conn_evt, up to the call of connect_cb.
ConnEvtCb ==
  /\ callback = ConnEvt
  /\ clientAt = ""
  /\ sock \in {"made", "refused"}
  /\ Io(IoDelete(ConnEvt))
  /\ connEvt' = FALSE
  /\ clientAt' = IF sock = "made" THEN "connected" ELSE "refused"
  /\ answers' = answers + 1
  /\ UNCHANGED <<clientErr, sock, timeEvt, starts>>

\* PLANTED BUG: the timer is left as it is.
NotDisarmed == ""

\* Where _conn_evt goes on with a connection.
ThenDisarm == IF timeEvt THEN "disarm" ELSE ""

\* _conn_evt goes on with a connection: _reg_data_callbacks.
ConnectCbReturns ==
  /\ clientAt = "connected"
  /\ Io(IoNew(ClientIo))
  /\ clientAt' = ThenDisarm
  /\ UNCHANGED <<clientErr, sock, connEvt, timeEvt, starts, answers>>

Disarm ==
  /\ clientAt = "disarm"
  /\ Timer(TimerDelete(TimeEvt))
  /\ timeEvt' = FALSE
  /\ clientAt' = ""
  /\ UNCHANGED <<clientErr, sock, connEvt, starts, answers>>

\* _conn_evt goes on without a connection; if there is a timeout, connect_cb
\* has stopped the loop.
RefusedCbReturns ==
  /\ clientAt = "refused"
  /\ IF timeEvt THEN Core(Stop) ELSE UNCHANGED vars
  /\ clientErr' = TRUE
  /\ sock' = "none"
  /\ clientAt' = ""
  /\ UNCHANGED <<connEvt, timeEvt, starts, answers>>

-----------------------------------------------------------------------------
\* _timeout_cb: nobody waits for the connection any more, ...
TimeoutCb ==
  /\ callback = TimeEvt
  /\ clientAt = ""
  /\ connEvt
  /\ Io(IoDelete(ConnEvt))
  /\ connEvt' = FALSE
  /\ clientAt' = "expired"
  /\ UNCHANGED <<clientErr, sock, timeEvt, starts, answers>>

\* PLANTED BUG: the timeout closes the socket and tells nobody.
TimeoutUntold == answers

TimeoutTold == answers + 1

\* ... the timer is deleted and connect_cb is called, ...
TimeoutAnswer ==
  /\ clientAt = "expired"
  /\ Timer(TimerDelete(TimeEvt))
  /\ timeEvt' = FALSE
  /\ clientErr' = TRUE
  /\ clientAt' = "timeout"
  /\ answers' = TimeoutTold
  /\ UNCHANGED <<sock, connEvt, starts>>

\* ... and the socket is closed.
TimeoutCbReturns ==
  /\ clientAt = "timeout"
  /\ sock' = "none"
  /\ clientAt' = ""
  /\ UNCHANGED <<vars, clientErr, connEvt, timeEvt, starts, answers>>

-----------------------------------------------------------------------------
\* What tcpclient_stop does with the socket.
CloseSock ==
  /\ IF sock # "none" /\ initialised /\ ClientIo \in ToSet(mlios)
     THEN Io(IoDelete(ClientIo))
     ELSE UNCHANGED vars
  /\ sock' = "none"

\* tcpclient_stop by the application, when there is no conn_evt or time_evt.
ClientStop ==
  /\ clientAt \in {"", "hup"}
  /\ ~connEvt /\ ~timeEvt
  /\ sock # "none"
  /\ CloseSock
  /\ UNCHANGED <<clientErr, connEvt, timeEvt, clientAt, starts, answers>>

\* _eof_cb, up to the call of serv_hup_cb.
ServerHup ==
  /\ ServerGone
  /\ clientAt = ""
  /\ sock # "none"
  /\ clientErr' = TRUE
  /\ clientAt' = "hup"
  /\ UNCHANGED <<vars, sock, connEvt, timeEvt, starts, answers>>

\* _eof_cb stops the client, whether serv_hup_cb has done so or not.
HupCbReturns ==
  /\ clientAt = "hup"
  /\ CloseSock
  /\ clientAt' = ""
  /\ UNCHANGED <<clientErr, connEvt, timeEvt, starts, answers>>

\* tcpclient_destroy: what there is of conn_evt, time_evt and sock goes, in
\* this order.
ClientDestroy ==
  /\ pc = "idle"
  /\ clientAt = ""
  /\ clientAt' = "destroying"
  /\ UNCHANGED <<vars, clientErr, sock, connEvt, timeEvt, starts, answers>>

DestroyConnEvt ==
  /\ clientAt = "destroying"
  /\ connEvt
  /\ Io(IoDelete(ConnEvt))
  /\ connEvt' = FALSE
  /\ UNCHANGED <<clientErr, sock, timeEvt, clientAt, starts, answers>>

DestroyTimeEvt ==
  /\ clientAt = "destroying"
  /\ ~connEvt
  /\ timeEvt
  /\ Timer(TimerDelete(TimeEvt))
  /\ timeEvt' = FALSE
  /\ UNCHANGED <<clientErr, sock, connEvt, clientAt, starts, answers>>

DestroyClientSock ==
  /\ clientAt = "destroying"
  /\ ~connEvt
  /\ ~timeEvt
  /\ CloseSock
  /\ clientAt' = "destroyed"
  /\ UNCHANGED <<clientErr, connEvt, timeEvt, starts, answers>>

-----------------------------------------------------------------------------
ClientStep ==
  \/ ArmTimeout
  \/ ConnEvtCb
  \/ Disarm
  \/ TimeoutCb
  \/ TimeoutAnswer
  \/ ServerHup
  \/ DestroyConnEvt
  \/ DestroyTimeEvt
  \/ DestroyClientSock

ClientCbReturns ==
  \/ ConnectCbReturns
  \/ RefusedCbReturns
  \/ TimeoutCbReturns
  \/ HupCbReturns

ClientUserStep ==
  \/ ClientStart
  \/ ClientStartFails
  \/ ClientStop
  \/ ClientDestroy

ClientTypeOK ==
  /\ {clientErr, connEvt, timeEvt} \subseteq BOOLEAN
  /\ sock \in {"none", "progress", "made", "refused"}
  /\ clientAt \in ClientPlaces
  /\ starts \in 0 .. 1
  /\ answers \in Nat

\* The pointers of the client and the loop agree, whether the connection, the
\* timeout or the end of the server comes first: conn_evt and time_evt are
\* live objects, the loop watches only an open socket, an armed timer is known
\* to the client and still finds what it is to take back, and connect_cb is
\* not called twice for one connection (tcpclient.c:85-170).
ClientConsistent ==
  /\ connEvt <=> ioAlive[ConnEvt]
  /\ timeEvt <=> timerAlive[TimeEvt]
  /\ ConnEvt \in registered => sock # "none"
  /\ ClientIo \in registered => sock = "made" /\ ~connEvt
  /\ callback = TimeEvt /\ timeEvt /\ clientAt = "" => connEvt
  /\ answers <= starts
=============================================================================
