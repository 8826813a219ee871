------------------------ MODULE SimulationEventQueue ------------------------
(***************************************************************************)
(* SimulationEventQueue (simulation_event_queue.cpp): a priority queue of  *)
(* events under a mutex.  It is the sequence of its events in the order    *)
(* they leave; sequence_id, which grows with every push, is the place in   *)
(* which events of the same time and priority were pushed.                 *)
(***************************************************************************)
EXTENDS Naturals, Sequences, FiniteSets

(* EventCompare, on the two keys that are not the sequence number. *)
Precedes(e, f) ==
    \/ e.time < f.time
    \/ e.time = f.time /\ e.priority < f.priority

(* push: behind every event it does not precede. *)
Pushed(queue, e) ==
    LET place == Cardinality({i \in DOMAIN queue : ~Precedes(e, queue[i])})
    IN  SubSeq(queue, 1, place) \o <<e>> \o SubSeq(queue, place + 1, Len(queue))

(* EventCompare, for the events at two places of the sequence of pushes;   *)
(* how many leave before the i-th event or with it; the place of the event *)
(* that leaves as the r-th.                                                *)
Earlier(events, i, k) ==
    \/ Precedes(events[i], events[k])
    \/ ~Precedes(events[k], events[i]) /\ i < k

Rank(events, i) ==
    Cardinality({k \in DOMAIN events : k = i \/ Earlier(events, k, i)})

Place(events, r) == CHOOSE i \in DOMAIN events : Rank(events, i) = r

(* Several pushes, one after the other: the events in the order they leave *)
(* when those queued were pushed before.                                   *)
PushedAll(queue, events) ==
    LET pushes == queue \o events
    IN  [r \in DOMAIN pushes |-> pushes[Place(pushes, r)]]

(* popDue finds an event: the first one, if its time has come. *)
HasDue(queue, horizon) == queue # <<>> /\ Head(queue).time <= horizon

=============================================================================
