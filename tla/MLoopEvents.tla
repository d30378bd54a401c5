----------------------------- MODULE MLoopEvents ----------------------------
(***************************************************************************)
(* The events of the main loop: mloop_event_* and _handle_events in        *)
(* src/mloop.c, the MlEvent objects of src/mloop/event.c.                  *)
(*                                                                         *)
(* mloop_event_fire is what a signal handler may call (test/mloop.c:14).   *)
(* The application adds an event that is not added already, and a callback *)
(* does not remove the event behind the one being handled: the loop holds  *)
(* a pointer to that node (src/list.c:403-412).                            *)
(***************************************************************************)
EXTENDS MLoopCore, MascList

CONSTANT Events   (* the MlEvent objects *)

ASSUME EventAssumption == Nobody \notin Events

VARIABLES
  events,        (* static List events                                     *)
  eventAlive,    (* which MlEvent objects are initialised and not freed    *)
  fired,         (* MlEvent.fired                                          *)
  pendingEvent,  (* static volatile bool pending_event                     *)
  itNext         (* the node the Iter of _handle_events comes to next      *)

eventVars == <<events, eventAlive, fired, pendingEvent, itNext>>

EventsInit ==
  /\ events = <<>>
  /\ eventAlive = [e \in Events |-> FALSE]
  /\ fired = [e \in Events |-> FALSE]
  /\ pendingEvent = FALSE
  /\ itNext = Nobody

Listed(e) == e \in ToSet(events)

\* PLANTED BUG: the iterator stays at a node until its event is handled.
SameNode(e) == e

\* What next() of a List's Iter moves on to when it returns e.
NextNode(e) == NodeAfter(events, e, Nobody)

-----------------------------------------------------------------------------
\* ml_event_init or ml_event_new: an event that is not added to the loop.
EventInit(e) ==
  /\ UserCode
  /\ ~eventAlive[e]
  /\ eventAlive' = [eventAlive EXCEPT ![e] = TRUE]
  /\ UNCHANGED <<coreVars, events, fired, pendingEvent, itNext>>

\* mloop_event_new
EventNew(e) ==
  /\ UserCode
  /\ initialised
  /\ ~eventAlive[e]
  /\ eventAlive' = [eventAlive EXCEPT ![e] = TRUE]
  /\ events' = Append(events, e)
  /\ UNCHANGED <<coreVars, fired, pendingEvent, itNext>>

\* mloop_event_add
EventAdd(e) ==
  /\ UserCode
  /\ initialised
  /\ eventAlive[e]
  /\ ~Listed(e)
  /\ events' = Append(events, e)
  /\ UNCHANGED <<coreVars, eventAlive, fired, pendingEvent, itNext>>

\* mloop_event_remove
EventRemove(e) ==
  /\ UserCode
  /\ initialised
  /\ eventAlive[e]
  /\ e = callback \/ e # itNext
  /\ events' = ListRemove(events, e)
  /\ UNCHANGED <<coreVars, eventAlive, fired, pendingEvent, itNext>>

\* ml_event_delete, or ml_event_destroy of an event that is not on the heap.
EventDelete(e) ==
  /\ UserCode
  /\ eventAlive[e]
  /\ e = callback \/ e # itNext
  /\ events' = ListRemove(events, e)
  /\ eventAlive' = [eventAlive EXCEPT ![e] = FALSE]
  /\ fired' = [fired EXCEPT ![e] = FALSE]
  /\ UNCHANGED <<coreVars, pendingEvent, itNext>>

\* mloop_event_fire
Fire(e) ==
  /\ eventAlive[e]
  /\ pendingEvent' = TRUE
  /\ fired' = [fired EXCEPT ![e] = TRUE]
  /\ UNCHANGED <<events, eventAlive, itNext>>

EventFire(e) == UserCode /\ Fire(e) /\ UNCHANGED coreVars

\* A signal handler of the application fires an event, at any moment.
SignalFire(e) ==
  /\ Fire(e)
  /\ Interrupted
  /\ UNCHANGED <<initialised, running, callback, now>>

-----------------------------------------------------------------------------
\* _handle_events returns at once if nothing was ever fired; pending_event is
\* not cleared, by this pass or by any other.
EventsBegin ==
  /\ At("events")
  /\ GoTo(IF pendingEvent THEN "firing" ELSE "procs")
  /\ itNext' = IF pendingEvent THEN FirstNode(events, Nobody) ELSE Nobody
  /\ UNCHANGED <<events, eventAlive, fired, pendingEvent>>

\* One round of the for loop.  The iterator is moved on to the next node
\* before the callback runs.
HandleEvent ==
  /\ At("firing")
  /\ running
  /\ itNext # Nobody
  /\ itNext' = NextNode(itNext)
  /\ IF fired[itNext]
     THEN Call(itNext) /\ fired' = [fired EXCEPT ![itNext] = FALSE]
     ELSE UNCHANGED <<callback, fired>>
  /\ UNCHANGED <<initialised, running, pc, now, events, eventAlive,
                 pendingEvent>>

\* PLANTED BUG: pending_event is cleared at the end of the pass.
EventsDoneClearing ==
  /\ At("firing")
  /\ ~running \/ itNext = Nobody
  /\ GoTo("procs")
  /\ itNext' = Nobody
  /\ pendingEvent' = FALSE
  /\ UNCHANGED <<events, eventAlive, fired>>

\* The iterator is at the end of the list, or the loop was stopped.
EventsDone ==
  /\ At("firing")
  /\ ~running \/ itNext = Nobody
  /\ GoTo("procs")
  /\ itNext' = Nobody
  /\ UNCHANGED <<events, eventAlive, fired, pendingEvent>>

\* mloop_destroy deletes the events that are in the list.
EventsDestroy ==
  /\ events' = <<>>
  /\ eventAlive' = [e \in Events |-> eventAlive[e] /\ ~Listed(e)]
  /\ fired' = [e \in Events |-> fired[e] /\ ~Listed(e)]
  /\ UNCHANGED <<pendingEvent, itNext>>

-----------------------------------------------------------------------------
EventsTypeOK ==
  /\ events \in Seq(Events)
  /\ eventAlive \in [Events -> BOOLEAN]
  /\ fired \in [Events -> BOOLEAN]
  /\ pendingEvent \in BOOLEAN
  /\ itNext \in Events \cup {Nobody}

\* The event list holds each event once and only live ones, and the node the
\* loop comes to next is still in it, even if the callback that just ran
\* removed or deleted its own event (mloop.c:386-401, list.c:403-412).
EventListConsistent ==
  /\ IsInjective(events)
  /\ \A e \in Events : Listed(e) => eventAlive[e]
  /\ itNext # Nobody => Listed(itNext)
=============================================================================
