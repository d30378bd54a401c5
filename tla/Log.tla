--------------------------------- MODULE Log ---------------------------------
(***************************************************************************)
(* The logger (src/log.c): a List of facilities, each of which is given    *)
(* every message; and the program that uses it, with the memory of both    *)
(* traced (MemTracer).  All facilities share one Str for the message, and  *)
(* those that write to a file or the console change it before they do.     *)
(***************************************************************************)
EXTENDS MemTracer, Sequences

CONSTANTS
  Types,     (* the types of facility that are added                       *)
  Levels,    (* the levels of messages and for log_init                    *)
  Sizes,     (* the sizes the program allocates                            *)
  FacSize,   (* the sizes of a LogFacility                                 *)
  NodeSize,  (* and of a ListNode                                          *)
  MaxFacs,   (* BOUND: the number of facilities                            *)
  MaxOwn,    (* BOUND: the number of blocks of the program                 *)
  MaxLost    (* BOUND: the number of facilities that are lost              *)

LOG_EMERG == 0
LOG_ERR == 3
LOG_DEBUG == 7
LogTypes == {"STREAM", "FILE", "CONSOLE", "SYSLOG", "CUSTOM"}

ASSUME LogAssumption ==
  /\ Types \subseteq LogTypes
  /\ Levels \subseteq LOG_EMERG .. LOG_DEBUG
  /\ Sizes \subseteq Nat
  /\ FacSize \in Nat \ {0} /\ NodeSize \in Nat \ {0}
  /\ MaxFacs \in Nat /\ MaxOwn \in Nat /\ MaxLost \in Nat

VARIABLES
  facilities,  (* each with its type, its block fac, and the block node of *)
               (* the ListNode                                             *)
  log_level,
  phase,       (* "off" before log_init, then "ready", "sending" in        *)
               (* log_msg, "deleting" in log_destroy                       *)
  lmsg,        (* log_msg: the block of the text, the place at in the list *)
               (* and what was put in front of and behind the text         *)
  files,       (* the facilities whose file is open                        *)
  own,         (* the blocks of the program                                *)
  lost,        (* history: the facilities nothing leads to any more        *)
  shown        (* history: what this message was when each facility got it *)

logVars == <<facilities, log_level, phase, lmsg, files, shown>>
vars == <<mem, facilities, log_level, phase, lmsg, files, own, lost, shown>>

NoMsg == [blk |-> NULL, at |-> 0, marks |-> 0]

Init ==
  /\ MemInit
  /\ facilities = << >>
  /\ log_level = LOG_EMERG
  /\ phase = "off"
  /\ lmsg = NoMsg
  /\ files = {}
  /\ own = {}
  /\ lost = {}
  /\ shown = << >>

Current == facilities[lmsg.at]

\* A callback of the program is running.
InCallback ==
  phase = "sending" /\ lmsg.at <= Len(facilities) /\ Current.type = "CUSTOM"

ProgramRuns == ~mem.exited /\ (phase \in {"off", "ready"} \/ InCallback)

-----------------------------------------------------------------------------
\* The program allocates, copies a text, resizes and frees a block of its own.
\* A resize to 0 is not used (contract).
Keep(p) == own' = own \cup ({p} \ {NULL})

ProgramMalloc ==
  \E p \in Result(mem), size \in Sizes :
    /\ mem' = WrapMalloc(mem, p, size)
    /\ Keep(p)

ProgramStrndup ==
  \E p \in Result(mem), len \in Sizes, n \in Sizes :
    /\ mem' = WrapStrndup(mem, p, len, n)
    /\ Keep(p)

ProgramRealloc ==
  \E p \in own : \E q \in Result(mem) \cup {p}, size \in Sizes \ {0} :
    /\ mem' = WrapRealloc(mem, p, q, size)
    /\ own' = IF q = NULL THEN own ELSE (own \ {p}) \cup {q}

ProgramFree ==
  \E p \in own :
    /\ mem' = WrapFree(mem, p)
    /\ own' = own \ {p}

ProgramStep ==
  /\ ProgramRuns
  /\ \/ Cardinality(own) < MaxOwn /\ (ProgramMalloc \/ ProgramStrndup)
     \/ ProgramRealloc
     \/ ProgramFree
  /\ UNCHANGED <<logVars, lost>>

\* The program turns the tracer on and off.
TracerStep ==
  /\ ProgramRuns
  /\ \/ mem.table = NULL /\ \E p \in Result(mem) : mem' = MtraceInit(mem, p)
     \/ mem' = MtraceReset(mem)
     \/ mem.table # NULL /\ mem' = MtraceDestroy(mem)
  /\ UNCHANGED <<logVars, own, lost>>

-----------------------------------------------------------------------------
\* log_init, for a logger that is not there.
LogInit ==
  /\ ~mem.exited
  /\ phase = "off"
  /\ log_level' \in Levels
  /\ phase' = "ready"
  /\ UNCHANGED <<mem, facilities, lmsg, files, own, lost, shown>>

\* log_add_stream and the like, also out of a callback: a facility and its node
\* in the list are made.  There is memory for them (contract).
LogAdd ==
  /\ ProgramRuns
  /\ phase # "off"
  /\ Len(facilities) < MaxFacs
  /\ \E f \in Fresh(mem.live) : \E node \in Fresh(mem.live \cup {f}), type \in Types :
       /\ mem' = WrapMalloc(WrapMalloc(mem, f, FacSize), node, NodeSize)
       /\ facilities' = Append(facilities, [type |-> type, fac |-> f, node |-> node])
       /\ files' = IF type = "FILE" THEN files \cup {f} ELSE files
  /\ UNCHANGED <<log_level, phase, lmsg, own, lost, shown>>

\* log_msg, and what it does first: the text is formatted into a new block.
Begin(m, level, blk) ==
  /\ mem' = WrapMalloc(m, blk, 1)
  /\ lmsg' = [blk |-> blk, at |-> 1, marks |-> 0]
  /\ phase' = "sending"

IsLogged(level) == log_level >= level /\ facilities # << >>

LogMsg ==
  /\ ~mem.exited
  /\ phase = "ready"
  /\ \E level \in Levels, blk \in Fresh(mem.live) :
       IsLogged(level) /\ Begin(mem, level, blk)
  /\ UNCHANGED <<facilities, log_level, files, own, lost, shown>>

\* log_add_file of a file that cannot be opened: nothing is deleted, and an error
\* is logged, if LOG_ENABLED.  Not out of a callback (contract).
LogAddFileFails ==
  /\ ~mem.exited
  /\ phase = "ready"
  /\ Cardinality(lost) < MaxLost
  /\ \E f \in Fresh(mem.live) :
       LET made == WrapMalloc(mem, f, FacSize) IN
       /\ lost' = lost \cup {f}
       /\ \/ IsLogged(LOG_ERR) /\ \E blk \in Fresh(made.live) : Begin(made, LOG_ERR, blk)
          \/ mem' = made /\ UNCHANGED <<phase, lmsg>>
  /\ UNCHANGED <<facilities, log_level, files, own, shown>>

\* _file_write_cb and _console_write_cb: the level is put in front of the text,
\* by way of a Str of its own, and a newline behind it.  The first resize may
\* move the text; the second is taken to find room.
Writes(type) == type \in {"STREAM", "FILE", "CONSOLE"}

Marked(m, temp, blk) ==
  LET size == 1 + 2 * lmsg.marks
      prepended == WrapRealloc(WrapMalloc(m, temp, 1), lmsg.blk, blk, size + 1)
  IN WrapRealloc(WrapFree(prepended, temp), blk, blk, size + 2)

\* list_for_each in log_msg: the next facility gets the message.
Deliver ==
  /\ ~mem.exited
  /\ phase = "sending"
  /\ lmsg.at <= Len(facilities)
  /\ IF Writes(Current.type)
     THEN \E temp \in Fresh(mem.live) :
          \E blk \in Fresh(mem.live \cup {temp}) \cup {lmsg.blk} :
            /\ mem' = Marked(mem, temp, blk)
            /\ lmsg' = [blk |-> blk, at |-> lmsg.at + 1, marks |-> lmsg.marks + 1]
     ELSE /\ lmsg' = [lmsg EXCEPT !.at = @ + 1]
          /\ UNCHANGED mem
  /\ shown' = Append(shown, [fac |-> Current.fac, marks |-> lmsg'.marks])
  /\ UNCHANGED <<facilities, log_level, phase, files, own, lost>>

\* The end of log_msg.
LogMsgReturns ==
  /\ ~mem.exited
  /\ phase = "sending"
  /\ lmsg.at > Len(facilities)
  /\ mem' = WrapFree(mem, lmsg.blk)
  /\ phase' = "ready"
  /\ lmsg' = NoMsg
  /\ shown' = << >>
  /\ UNCHANGED <<facilities, log_level, files, own, lost>>

-----------------------------------------------------------------------------
\* log_destroy
LogDestroy ==
  /\ ~mem.exited
  /\ phase = "ready"
  /\ log_level' = LOG_EMERG
  /\ phase' = "deleting"
  /\ UNCHANGED <<mem, facilities, lmsg, files, own, lost, shown>>

\* PLANTED BUG: the object of the node is destroyed, but not freed.
FreedNodeOnly(m, f) == WrapFree(m, f.node)

\* listnode_delete, and delete() of the facility in it.
Freed(m, f) == WrapFree(WrapFree(m, f.fac), f.node)

\* list_destroy: the nodes go from the first to the last, each with its facility,
\* whose _destroy closes its file.
FacilityDelete ==
  /\ ~mem.exited
  /\ phase = "deleting"
  /\ IF facilities = << >>
     THEN phase' = "off" /\ UNCHANGED <<mem, facilities, files>>
     ELSE /\ mem' = Freed(mem, Head(facilities))
          /\ files' = files \ {Head(facilities).fac}
          /\ facilities' = Tail(facilities)
          /\ UNCHANGED phase
  /\ UNCHANGED <<log_level, lmsg, own, lost, shown>>

Next ==
  \/ ProgramStep \/ TracerStep \/ LogInit \/ LogAdd \/ LogMsg \/ LogAddFileFails
  \/ Deliver \/ LogMsgReturns \/ LogDestroy \/ FacilityDelete

Spec == Init /\ [][Next]_vars

-----------------------------------------------------------------------------
Facs == DOMAIN facilities

\* The blocks of the logger.
LogBlocks ==
  {facilities[i].fac : i \in Facs} \cup {facilities[i].node : i \in Facs} \cup lost \cup
  ({lmsg.blk} \ {NULL})

\* The logger lets go of all it has taken: at any time the blocks in use are those
\* of the program, of the tracer and of the facilities in the list, none of them
\* used twice, and the open files are those of the list; so nothing is left when
\* the list is empty, but for the facility of a file that could not be opened,
\* which is never deleted.
LogReleases ==
  LET table == {mem.table} \ {NULL} IN
  /\ mem.live = own \cup table \cup LogBlocks
  /\ Cardinality(mem.live) =
       Cardinality(own) + Cardinality(table) + 2 * Len(facilities) +
       Cardinality(lost) + (IF phase = "sending" THEN 1 ELSE 0)
  /\ files = {facilities[i].fac : i \in {j \in Facs : facilities[j].type = "FILE"}}

\* Every facility gets the message once and in order, those that a callback has
\* added as well; and each finds in front of the text what was put there for the
\* facilities before it, for there is one Str for all.
MessageShared ==
  phase = "sending" =>
    /\ Len(shown) = lmsg.at - 1
    /\ \A i \in DOMAIN shown :
         /\ shown[i].fac = facilities[i].fac
         /\ shown[i].marks = Cardinality({j \in 1 .. i : Writes(facilities[j].type)})

\* While the tracer has not ended the program, the logger releases what it takes
\* and gives every message to all facilities, in any order of calls, also with
\* callbacks that add facilities and allocate memory (log.c:56-200).
LogSound == ~mem.exited => LogReleases /\ MessageShared
=============================================================================
