---------------------------- MODULE TimerService ----------------------------
(***************************************************************************)
(* What the timers of the main loop promise, with no list and no loop.     *)
(* Any number of timers is armed, each for a time.  A timer is served only *)
(* when its time has come, no armed timer has an earlier time, and none    *)
(* with the same time was armed before it; one timer is served at a time.  *)
(***************************************************************************)
EXTENDS Integers, SequencesExt

CONSTANTS Timers, Times, NoTimer

VARIABLES
  armed,    (* the armed timers, the one armed last at the end             *)
  due,      (* the time an armed timer is armed for, 0 for the others      *)
  clock,    (* the current time                                            *)
  serving   (* the timer whose callback is being run, or NoTimer           *)

vars == <<armed, due, clock, serving>>

Init ==
  /\ armed = <<>>
  /\ due = [t \in Timers |-> 0]
  /\ clock = 0
  /\ serving = NoTimer

Without(t) == RemoveFirst(armed, t)

\* Timer t is armed for time d, instead of its old time if it had one.
Arm(t, d) ==
  /\ armed' = Append(Without(t), t)
  /\ due' = [due EXCEPT ![t] = d]
  /\ UNCHANGED <<clock, serving>>

Disarm(t) ==
  /\ t \in ToSet(armed)
  /\ armed' = Without(t)
  /\ due' = [due EXCEPT ![t] = 0]
  /\ UNCHANGED <<clock, serving>>

\* The i-th armed timer is the one whose turn it is.
First(i) ==
  \A j \in DOMAIN armed :
    \/ due[armed[i]] < due[armed[j]]
    \/ due[armed[i]] = due[armed[j]] /\ i <= j

Serve(t) ==
  /\ serving = NoTimer
  /\ \E i \in DOMAIN armed : armed[i] = t /\ First(i)
  /\ due[t] <= clock
  /\ armed' = Without(t)
  /\ due' = [due EXCEPT ![t] = 0]
  /\ serving' = t
  /\ UNCHANGED clock

Served == serving' = NoTimer /\ UNCHANGED <<armed, due, clock>>

\* The service is shut down: all timers are dropped.
Shutdown ==
  /\ armed' = <<>>
  /\ due' = [t \in Timers |-> 0]
  /\ UNCHANGED <<clock, serving>>

Pass == clock' = clock + 1 /\ UNCHANGED <<armed, due, serving>>

Next ==
  \/ \E t \in Timers, d \in Times : Arm(t, d)
  \/ \E t \in Timers : Disarm(t) \/ Serve(t)
  \/ Served \/ Shutdown \/ Pass

Spec == Init /\ [][Next]_vars
=============================================================================
