------------------------------- MODULE MLoopIo ------------------------------
(***************************************************************************)
(* The files of the main loop: mloop_io_* and _handle_epoll in             *)
(* src/mloop.c, the MlIo objects of src/mloop/io.c and the MlIoReader      *)
(* objects of src/mloop/ioreader.c (an MlIoPkg is an MlIoReader whose data *)
(* callback splits the data); and, as the code uses it, the level-         *)
(* triggered epoll of the kernel.  Each object has a file of its own:      *)
(* epoll_ctl refuses a second one for the same file.                       *)
(*                                                                         *)
(* A callback of one object does not delete an object that the same call   *)
(* of epoll_wait reported and the loop has not come to yet, and the data   *)
(* callback of a reader does not delete it when the end of the file was    *)
(* reported together with the data: the loop still uses the object.        *)
(***************************************************************************)
EXTENDS MLoopCore, MascList

CONSTANTS
  Ios,       (* the MlIo objects, each standing for its file too           *)
  Readers,   (* those that are MlIoReader objects                          *)
  Writers,   (* those created with ML_IO_WRITE, the others with ML_IO_READ *)
  Sockets,   (* those whose file is a socket, the others are pipes         *)
  MaxBatch   (* the length of the array given to epoll_wait, 16 in the code *)

ASSUME IoAssumption ==
  /\ Nobody \notin Ios
  /\ Readers \subseteq Ios /\ Writers \subseteq Ios /\ Sockets \subseteq Ios
  /\ Readers \cap Writers = {}
  /\ MaxBatch \in Nat \ {0}

VARIABLES
  mlios,       (* static List mlios                                        *)
  ioAlive,     (* which objects are initialised and not freed              *)
  registered,  (* the objects epoll watches                                *)
  unread,      (* is there data to read from the file?                     *)
  eof,         (* has the other end closed the file for writing?           *)
  writable,    (* can the file be written to?                              *)
  batch,       (* what epoll_wait reported and is not handled: object |->  *)
               (* set of epoll flags                                       *)
  reader,      (* the object _reader_data_cb runs for, or Nobody           *)
  todo,        (* the events _reader_data_cb has not handled yet           *)
  report       (* what the running callback of an object is told           *)

ioVars == <<mlios, ioAlive, registered, unread, eof, writable, batch, reader,
            todo, report>>
fileVars == <<unread, eof, writable>>
dispatchVars == <<batch, reader, todo, report>>

NoBatch == [i \in {} |-> {}]

IosInit ==
  /\ mlios = <<>>
  /\ ioAlive = [i \in Ios |-> FALSE]
  /\ registered = {}
  /\ unread = [i \in Ios |-> FALSE]
  /\ eof = [i \in Ios |-> FALSE]
  /\ writable = [i \in Ios |-> FALSE]
  /\ batch = NoBatch
  /\ reader = Nobody
  /\ todo = {}
  /\ report = {}

-----------------------------------------------------------------------------
\* mloop_io_new, mloop_io_reader_new, mloop_io_pkg_new.
IoNew(i) ==
  /\ UserCode
  /\ initialised
  /\ ~ioAlive[i]
  /\ ioAlive' = [ioAlive EXCEPT ![i] = TRUE]
  /\ mlios' = Append(mlios, i)
  /\ registered' = registered \cup {i}
  /\ UNCHANGED <<coreVars, fileVars, dispatchVars>>

\* PLANTED BUG: epoll is not told.
StillRegistered(i) == registered

\* EPOLL_CTL_DEL
Unregistered(i) == registered \ {i}

\* mloop_io_cancle
IoCancel(i) ==
  /\ UserCode
  /\ initialised
  /\ ioAlive[i]
  /\ mlios' = ListRemove(mlios, i)
  /\ registered' = Unregistered(i)
  /\ UNCHANGED <<coreVars, ioAlive, fileVars, dispatchVars>>

\* mloop_io_delete
IoDelete(i) ==
  /\ UserCode
  /\ ioAlive[i]
  /\ i \notin DOMAIN batch
  /\ reader = i => todo = {}
  /\ mlios' = IF initialised THEN ListRemove(mlios, i) ELSE mlios
  /\ registered' = IF initialised THEN Unregistered(i) ELSE registered
  /\ ioAlive' = [ioAlive EXCEPT ![i] = FALSE]
  /\ UNCHANGED <<coreVars, fileVars, dispatchVars>>

\* The application reads from a file the loop does not read from for it.
UserRead(i) ==
  /\ UserCode
  /\ i \notin Readers
  /\ unread[i]
  /\ unread' = [unread EXCEPT ![i] = FALSE]
  /\ UNCHANGED <<coreVars, mlios, ioAlive, registered, eof, writable,
                 dispatchVars>>

\* Data arrive, the other end closes, a connection is made.
FileChange(i) ==
  /\ \/ /\ ~eof[i] /\ ~unread[i]
        /\ unread' = [unread EXCEPT ![i] = TRUE]
        /\ UNCHANGED <<eof, writable>>
     \/ /\ ~eof[i]
        /\ eof' = [eof EXCEPT ![i] = TRUE]
        /\ UNCHANGED <<unread, writable>>
     \/ /\ i \in Writers /\ ~writable[i]
        /\ writable' = [writable EXCEPT ![i] = TRUE]
        /\ UNCHANGED <<unread, eof>>
  /\ UNCHANGED <<coreVars, mlios, ioAlive, registered, dispatchVars>>

-----------------------------------------------------------------------------
\* PLANTED BUG: the end of the data is not asked for.
WantedData(i) == (IF i \in Writers THEN {"out"} ELSE {"in"}) \cup {"hup"}

\* _reg_epoll_events: what epoll is asked to report.  EPOLLHUP is reported
\* without being asked for.
Wanted(i) == (IF i \in Writers THEN {"out"} ELSE {"in", "rdhup"}) \cup {"hup"}

\* The state of a file as the kernel tells it.  The end of a socket's data is
\* EPOLLRDHUP, and it can be read; the end of a pipe's data is EPOLLHUP.
Condition(i) ==
  {f \in {"in", "rdhup", "hup", "out"} :
     \/ f = "in" /\ (unread[i] \/ (eof[i] /\ i \in Sockets))
     \/ f = "rdhup" /\ eof[i] /\ i \in Sockets
     \/ f = "hup" /\ eof[i] /\ i \notin Sockets
     \/ f = "out" /\ writable[i]}

Flags(i) == Condition(i) \cap Wanted(i)

Ready == {i \in registered : Flags(i) # {}}

\* epoll_wait has something to report, for at most MaxBatch files.
EpollReport ==
  /\ At("wait")
  /\ \E some \in SUBSET Ready :
       /\ some # {}
       /\ Cardinality(some) <= MaxBatch
       /\ some = Ready \/ Cardinality(some) = MaxBatch
       /\ batch' = [i \in some |-> Flags(i)]
  /\ GoTo("io")
  /\ UNCHANGED <<mlios, ioAlive, registered, fileVars, reader, todo, report>>

-----------------------------------------------------------------------------
\* PLANTED BUG: the end of the file excludes the other events.
MlIoEventsExclusive(flags) ==
  IF "rdhup" \in flags THEN {"rdhup"} ELSE flags \ {"hup"}

\* The events an MlIo callback is given: EPOLLHUP is not among them.
MlIoEvents(flags) == flags \ {"hup"}

\* _handle_epoll takes the next file: nothing happens if no known event is
\* reported; a reader's callback is _reader_data_cb, any other the user's.
HandleIo(i) ==
  /\ At("io")
  /\ reader = Nobody
  /\ i \in DOMAIN batch
  /\ batch' = [j \in DOMAIN batch \ {i} |-> batch[j]]
  /\ LET events == MlIoEvents(batch[i]) IN
     IF i \in Readers /\ events # {}
     THEN /\ reader' = i
          /\ todo' = events
          /\ UNCHANGED <<callback, report>>
     ELSE /\ IF events # {} THEN Call(i) /\ report' = events
                            ELSE UNCHANGED <<callback, report>>
          /\ UNCHANGED <<reader, todo>>
  /\ UNCHANGED <<initialised, running, pc, now, mlios, ioAlive, registered,
                 fileVars>>

\* _reader_data_cb reads all there is and hands it to data_cb.
ReaderRead ==
  /\ At("io")
  /\ reader # Nobody
  /\ "in" \in todo
  /\ todo' = todo \ {"in"}
  /\ unread' = [unread EXCEPT ![reader] = FALSE]
  /\ IF unread[reader] THEN Call(reader) /\ report' = {"in"}
                       ELSE UNCHANGED <<callback, report>>
  /\ UNCHANGED <<initialised, running, pc, now, mlios, ioAlive, registered,
                 eof, writable, batch, reader>>

\* PLANTED BUG: the end of the file is reported first.
EofFirst == "rdhup" \in todo

\* The data were read, if there were any, and the end of the file is reported.
EofNow == todo = {"rdhup"}

\* Then, if the end of the file was reported, it calls eof_cb.
ReaderEof ==
  /\ At("io")
  /\ reader # Nobody
  /\ EofNow
  /\ todo' = todo \ {"rdhup"}
  /\ Call(reader)
  /\ report' = {"rdhup"}
  /\ UNCHANGED <<initialised, running, pc, now, mlios, ioAlive, registered,
                 fileVars, batch, reader>>

ReaderDone ==
  /\ At("io")
  /\ reader # Nobody
  /\ todo = {}
  /\ reader' = Nobody
  /\ report' = {}
  /\ UNCHANGED <<coreVars, mlios, ioAlive, registered, fileVars, batch, todo>>

\* All files that were reported are handled, whether the loop still runs or
\* not.
IosDone ==
  /\ At("io")
  /\ reader = Nobody
  /\ DOMAIN batch = {}
  /\ GoTo("top")
  /\ report' = {}
  /\ UNCHANGED <<mlios, ioAlive, registered, fileVars, batch, reader, todo>>

\* mloop_destroy deletes the objects in the list and closes the epoll file.
IosDestroy ==
  /\ mlios' = <<>>
  /\ ioAlive' = [i \in Ios |-> ioAlive[i] /\ i \notin ToSet(mlios)]
  /\ registered' = {}
  /\ UNCHANGED <<fileVars, dispatchVars>>

-----------------------------------------------------------------------------
IosTypeOK ==
  /\ mlios \in Seq(Ios)
  /\ ioAlive \in [Ios -> BOOLEAN]
  /\ registered \in SUBSET Ios
  /\ {unread, eof, writable} \subseteq [Ios -> BOOLEAN]
  /\ DOMAIN batch \subseteq Ios
  /\ \A i \in DOMAIN batch : batch[i] \subseteq Wanted(i)
  /\ reader \in Readers \cup {Nobody}
  /\ todo \subseteq {"in", "rdhup"}
  /\ report \subseteq {"in", "rdhup", "out"}

\* epoll and the list of the loop know the same objects, each once and alive,
\* and the loop handles live objects only: no pointer that epoll returns, or
\* that the loop is working with, is to a deleted object (mloop.c:268-347,
\* 435-457).
IoListConsistent ==
  /\ IsInjective(mlios)
  /\ ToSet(mlios) = registered
  /\ \A i \in registered \cup DOMAIN batch : ioAlive[i]
  /\ reader # Nobody /\ todo # {} => ioAlive[reader]

\* The end of a file is reported to a reader only when everything that came
\* before it was handed to the application.
EofAfterData ==
  callback \in Readers /\ report = {"rdhup"} => ~unread[callback]
=============================================================================
