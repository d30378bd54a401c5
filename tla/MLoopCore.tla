------------------------------ MODULE MLoopCore -----------------------------
(***************************************************************************)
(* What every part of the main loop (src/mloop.c) shares: the static       *)
(* flags, the place mloop_run has reached, the user callback it is in, and *)
(* the clock behind mloop_time().                                          *)
(***************************************************************************)
EXTENDS Integers

CONSTANTS
  Nobody,   (* stands for "no callback is being run" and for a NULL node   *)
  NullCb,   (* the objects created with a NULL callback                    *)
  MaxNow    (* BOUND: the clock stops there                                *)

ASSUME ClockAssumption == MaxNow \in Nat

VARIABLES
  initialised,  (* static bool initialised                                 *)
  running,      (* static volatile bool running                            *)
  pc,           (* where mloop_run is, see Labels                          *)
  callback,     (* the object whose callback mloop_run is in, or Nobody    *)
  now           (* CLOCK_MONOTONIC in milliseconds                         *)

coreVars == <<initialised, running, pc, callback, now>>

(***************************************************************************)
(* The places of mloop_run:                                                *)
(*   idle     not in mloop_run                                             *)
(*   top      at the loop's condition, while (running)                     *)
(*   timers   in _handle_timers, with the time it compares against read    *)
(*   events   about to test pending_event in _handle_events                *)
(*   firing   in the for loop of _handle_events                            *)
(*   procs    about to test got_sigchld                                    *)
(*   reaping  in the while loop of _handle_processes                       *)
(*   poll     about to call _calculate_timeout                             *)
(*   enter    timeout computed, epoll_wait not entered yet                 *)
(*   wait     blocked in epoll_wait                                        *)
(*   io       in the for loop of _handle_epoll                             *)
(***************************************************************************)
Labels == {"idle", "top", "timers", "events", "firing", "procs", "reaping",
           "poll", "enter", "wait", "io"}

\* The loop's own code runs at place l: mloop_run is there, in no callback.
At(l) == pc = l /\ callback = Nobody

\* Code of the application runs: before and after mloop_run, or a callback.
UserCode == pc = "idle" \/ callback # Nobody

\* A handler ends and the loop goes on at place l.
GoTo(l) == pc' = l /\ UNCHANGED <<initialised, running, callback, now>>

\* A signal handler has run: epoll_wait, if the loop is in it, returns EINTR
\* and the loop comes round to its condition; other code is not disturbed.
Interrupted == pc' = IF pc = "wait" THEN "top" ELSE pc

\* The loop hands obj to its callback; one without a callback is not called.
Call(obj) == callback' = IF obj \in NullCb THEN Nobody ELSE obj

\* The callback the loop is in returns to it.
Return ==
  /\ callback # Nobody
  /\ callback' = Nobody
  /\ UNCHANGED <<initialised, running, pc, now>>

\* mloop_stop, by the application.
Stop ==
  /\ UserCode
  /\ running' = FALSE
  /\ UNCHANGED <<initialised, pc, callback, now>>

\* sigterm_cb, for SIGINT and SIGTERM, once mloop_init has installed it.
SigTerm ==
  /\ initialised
  /\ running' = FALSE
  /\ Interrupted
  /\ UNCHANGED <<initialised, callback, now>>

\* Time passes, whatever the program is doing.
Tick ==
  /\ now < MaxNow
  /\ now' = now + 1
  /\ UNCHANGED <<initialised, running, pc, callback>>

CoreInit ==
  /\ initialised = FALSE
  /\ running = FALSE
  /\ pc = "idle"
  /\ callback = Nobody
  /\ now = 0
=============================================================================
