----------------------------- MODULE MLoopProcs -----------------------------
(***************************************************************************)
(* The child processes of the main loop: mloop_proc_* , _proc_run and      *)
(* _handle_processes in src/mloop.c, the MlProc objects of                 *)
(* src/mloop/proc.c; and, as the code uses them, fork, kill, waitpid and   *)
(* the delivery of SIGCHLD.                                                *)
(***************************************************************************)
EXTENDS MLoopCore, MascList

CONSTANTS
  Procs,           (* the MlProc objects                                   *)
  MaxPid,          (* BOUND: the number of processes ever forked           *)
  RerunCancelled   (* may the application rerun a process that it has      *)
                   (* cancelled before the loop has handled its end?       *)

ASSUME ProcAssumption ==
  /\ Nobody \notin Procs
  /\ MaxPid \in Nat
  /\ RerunCancelled \in BOOLEAN

Pids == 1 .. MaxPid

VARIABLES
  procs,          (* static List procs                                     *)
  procAlive,      (* which MlProc objects are initialised and not freed    *)
  procRunning,    (* MlProc.running                                        *)
  procPid,        (* MlProc.pid, 0 where the code has -1                   *)
  gotSigchld,     (* static volatile bool got_sigchld                      *)
  child,          (* the kernel's table: new, run, killed, zombie, reaped  *)
  sigchld         (* SIGCHLD is pending for this process                   *)

procVars == <<procs, procAlive, procRunning, procPid, gotSigchld, child,
              sigchld>>

ProcsInit ==
  /\ procs = <<>>
  /\ procAlive = [p \in Procs |-> FALSE]
  /\ procRunning = [p \in Procs |-> FALSE]
  /\ procPid = [p \in Procs |-> 0]
  /\ gotSigchld = FALSE
  /\ child = [pid \in Pids |-> "new"]
  /\ sigchld = FALSE

Tracked(p) == p \in ToSet(procs)

-----------------------------------------------------------------------------
\* A successful fork() gives the lowest process id not used so far.  (The
\* failed one changes nothing: mloop_proc_new deletes the object again and
\* mloop_proc_rerun returns false.)
ProcRun(p) ==
  \E pid \in Pids :
    /\ child[pid] = "new" /\ \A q \in 1 .. pid - 1 : child[q] # "new"
    /\ child' = [child EXCEPT ![pid] = "run"]
    /\ procRunning' = [procRunning EXCEPT ![p] = TRUE]
    /\ procPid' = [procPid EXCEPT ![p] = pid]
    /\ procs' = Append(procs, p)
    /\ UNCHANGED <<gotSigchld, sigchld>>

\* kill(pid, SIGKILL); it succeeds for a zombie too, and changes nothing.
Killed(pid) ==
  child' = [child EXCEPT ![pid] = IF @ = "run" THEN "killed" ELSE @]

ProcFreed(p) ==
  /\ procAlive' = [procAlive EXCEPT ![p] = FALSE]
  /\ procRunning' = [procRunning EXCEPT ![p] = FALSE]
  /\ procPid' = [procPid EXCEPT ![p] = 0]

\* mloop_proc_new.  CONTRACT: mloop_init was called; it does not look.
ProcNew(p) ==
  /\ UserCode
  /\ initialised
  /\ ~procAlive[p]
  /\ ProcRun(p)
  /\ procAlive' = [procAlive EXCEPT ![p] = TRUE]
  /\ UNCHANGED coreVars

\* mloop_proc_rerun
ProcRerun(p) ==
  /\ UserCode
  /\ initialised
  /\ procAlive[p]
  /\ ~procRunning[p]
  /\ Tracked(p) => RerunCancelled
  /\ ProcRun(p)
  /\ UNCHANGED <<coreVars, procAlive>>

\* mloop_proc_cancle of a running process (it does nothing to any other).
ProcCancel(p) ==
  /\ UserCode
  /\ initialised
  /\ procAlive[p]
  /\ procRunning[p]
  /\ Killed(procPid[p])
  /\ procRunning' = [procRunning EXCEPT ![p] = FALSE]
  /\ UNCHANGED <<coreVars, procs, procAlive, procPid, gotSigchld, sigchld>>

\* PLANTED BUG: a deleted process stays in the list.
StillTracked(p) == procs

\* The list after mloop_proc_delete.
Untracked(p) == IF initialised THEN ListRemove(procs, p) ELSE procs

\* mloop_proc_delete: kill it if it runs, out of the list, free it.
ProcDelete(p) ==
  /\ UserCode
  /\ procAlive[p]
  /\ IF procRunning[p] THEN Killed(procPid[p]) ELSE UNCHANGED child
  /\ procs' = Untracked(p)
  /\ ProcFreed(p)
  /\ UNCHANGED <<coreVars, gotSigchld, sigchld>>

-----------------------------------------------------------------------------
\* A child ends, by itself or killed, and the kernel generates SIGCHLD.
ChildExit(pid) ==
  /\ child[pid] \in {"run", "killed"}
  /\ child' = [child EXCEPT ![pid] = "zombie"]
  /\ sigchld' = TRUE
  /\ UNCHANGED <<coreVars, procs, procAlive, procRunning, procPid, gotSigchld>>

\* sigchld_cb
SigChld ==
  /\ sigchld
  /\ sigchld' = FALSE
  /\ gotSigchld' = TRUE
  /\ Interrupted
  /\ UNCHANGED <<initialised, running, callback, now,
                 procs, procAlive, procRunning, procPid, child>>

-----------------------------------------------------------------------------
\* mloop_run clears got_sigchld before it looks for terminated children.
ProcsBegin ==
  /\ At("procs")
  /\ GoTo(IF gotSigchld THEN "reaping" ELSE "poll")
  /\ gotSigchld' = FALSE
  /\ UNCHANGED <<procs, procAlive, procRunning, procPid, child, sigchld>>

\* PLANTED BUG: only a process that runs is looked for.
IsRunningPid(p, pid) == procRunning[p] /\ procPid[p] = pid

\* The condition of the search in _handle_processes.
IsPid(p, pid) == procPid[p] = pid

\* What _handle_processes does with the end of process pid: the first MlProc
\* with that pid leaves the list and its callback is called; one without a
\* callback is deleted.  A pid of no MlProc in the list is dropped.
Finish(pid) ==
  LET isPid(p) == IsPid(p, pid)
      at == SelectInSeq(procs, isPid)
  IN  IF at = 0
      THEN UNCHANGED <<procs, procAlive, procRunning, procPid, callback>>
      ELSE LET p == procs[at] IN
           /\ procs' = ListRemove(procs, p)
           /\ Call(p)
           /\ IF p \in NullCb
              THEN ProcFreed(p)
              ELSE /\ procRunning' = [procRunning EXCEPT ![p] = FALSE]
                   /\ UNCHANGED <<procAlive, procPid>>

\* PLANTED BUG: one call of waitpid for each SIGCHLD.
ReapOne(pid) ==
  /\ At("reaping")
  /\ running
  /\ child[pid] = "zombie"
  /\ child' = [child EXCEPT ![pid] = "reaped"]
  /\ Finish(pid)
  /\ pc' = "poll"
  /\ UNCHANGED <<initialised, running, now, gotSigchld, sigchld>>

\* waitpid(-1, ...) returns some terminated child.
Reap(pid) ==
  /\ At("reaping")
  /\ running
  /\ child[pid] = "zombie"
  /\ child' = [child EXCEPT ![pid] = "reaped"]
  /\ Finish(pid)
  /\ UNCHANGED <<initialised, running, pc, now, gotSigchld, sigchld>>

\* waitpid finds no terminated child, or the loop was stopped.
ProcsDone ==
  /\ At("reaping")
  /\ ~running \/ \A pid \in Pids : child[pid] # "zombie"
  /\ GoTo("poll")
  /\ UNCHANGED procVars

\* mloop_destroy deletes the processes that are in the list: each is killed
\* if it runs, and freed.
ProcsDestroy ==
  LET victims == {procPid[p] : p \in {q \in ToSet(procs) : procRunning[q]}} IN
  /\ procs' = <<>>
  /\ procAlive' = [p \in Procs |-> procAlive[p] /\ ~Tracked(p)]
  /\ procRunning' = [p \in Procs |-> procRunning[p] /\ ~Tracked(p)]
  /\ procPid' = [p \in Procs |-> IF Tracked(p) THEN 0 ELSE procPid[p]]
  /\ child' = [pid \in Pids |->
                 IF pid \in victims /\ child[pid] = "run"
                 THEN "killed" ELSE child[pid]]
  /\ UNCHANGED <<gotSigchld, sigchld>>

-----------------------------------------------------------------------------
ProcsTypeOK ==
  /\ procs \in Seq(Procs)
  /\ procAlive \in [Procs -> BOOLEAN]
  /\ procRunning \in [Procs -> BOOLEAN]
  /\ procPid \in [Procs -> Pids \cup {0}]
  /\ gotSigchld \in BOOLEAN
  /\ child \in [Pids -> {"new", "run", "killed", "zombie", "reaped"}]
  /\ sigchld \in BOOLEAN

\* Every process the loop tracks is one object, alive, with a child of its own
\* that was not reaped: its end will be found, reported once and to the right
\* MlProc.  A running process is always tracked (mloop.c:192-247, 403-433).
ProcListConsistent ==
  /\ IsInjective(procs)
  /\ \A p \in Procs : procRunning[p] => Tracked(p)
  /\ \A p \in ToSet(procs) :
       /\ procAlive[p]
       /\ procPid[p] \in Pids
       /\ child[procPid[p]] \in {"run", "killed", "zombie"}
       /\ \A q \in ToSet(procs) : procPid[p] = procPid[q] => p = q
=============================================================================
