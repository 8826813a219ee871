-------------------------- MODULE ImmediateNetwork --------------------------
(***************************************************************************)
(* SimulatedNetwork with immediate delivery (simulated_network.cpp), its   *)
(* default, and the SimulatedLinkLayer of every node.  A frame is handed   *)
(* over inside transmit, by the thread that sends it: each of them runs    *)
(* processUntil, over one event queue and one virtual time, none of it     *)
(* under a common lock.                                                    *)
(*                                                                         *)
(* thread[t] is where a thread is in transmit or processUntil:             *)
(*                                                                         *)
(*   stamped, pushed        in transmit, before processUntil               *)
(*   looping, popped        between two events; with one it took           *)
(*   delivering, calling    with a snapshot of the receivers; with the     *)
(*                          handler of one, copied and about to be called  *)
(*   leaving                nothing more was due; one store is left        *)
(*                                                                         *)
(* Distances and radio settings decide whether a receiver is reached: here *)
(* either.  A frame is one call of transmit.  The timed network's module   *)
(* is SimulatedNetwork.                                                    *)
(***************************************************************************)
EXTENDS SimulationEventQueue

CONSTANTS
    NodeIds,
    Driver,          \* the thread that drives the simulation
    Frames,
    Source,          \* src_node_id of each frame
    Dest,            \* dst_id, a node or Broadcast
    Broadcast        \* BROADCAST_ADDR

Threads == NodeIds \cup {Driver}   \* a node's forwarding thread is named as the node

NoFrame == "none"

ASSUME ImmediateAssumption ==
    /\ Driver \notin NodeIds /\ NoFrame \notin Frames
    /\ \A f \in Frames : Source[f] \in NodeIds /\ Dest[f] \in NodeIds \cup {Broadcast}

VARIABLES
    thread,
    event_queue,
    now_us,
    nodes,           \* keys of nodes_
    handler,         \* the nodes whose link has an rx handler
    attempts,        \* the attempts counted in metrics_
    outcomes,        \* the outcomes reported to it
    called,          \* frames that transmit was called with (a history)
    handed           \* how often a frame was handed to a node (a history)

network == <<thread, event_queue, now_us, nodes, handler, attempts, outcomes, called, handed>>

(* time is that of the thread's event, until the horizon of its loop, left *)
(* the receivers still to serve, to the one being called.                  *)
Out == [at |-> "out", frame |-> NoFrame, time |-> 0, until |-> 0, left |-> {}, to |-> Driver]
Looping(until) == [Out EXCEPT !.at = "looping", !.until = until]

Is(t, at) == thread[t].at = at
Moved(t, at) == thread' = [thread EXCEPT ![t].at = at]

NetworkInit ==
    /\ thread = [t \in Threads |-> Out]
    /\ event_queue = <<>>
    /\ now_us = 0
    /\ nodes = {}
    /\ handler = {}
    /\ attempts = 0
    /\ outcomes = 0
    /\ called = {}
    /\ handed = [f \in Frames |-> [n \in NodeIds |-> 0]]

-----------------------------------------------------------------------------

(* transmit: the attempt is counted, the event gets the time it reads. *)
Transmit(t, f) ==
    /\ Is(t, "out") /\ f \notin called
    /\ called' = called \cup {f}
    /\ attempts' = attempts + 1
    /\ thread' = [thread EXCEPT ![t] = [Out EXCEPT !.at = "stamped", !.frame = f, !.time = now_us]]
    /\ UNCHANGED <<event_queue, now_us, nodes, handler, outcomes, handed>>

Push(t) ==
    /\ Is(t, "stamped")
    /\ event_queue' = Pushed(event_queue, [time |-> thread[t].time, priority |-> 2,
                                           frame |-> thread[t].frame])
    /\ thread' = [thread EXCEPT ![t] = [Out EXCEPT !.at = "pushed"]]
    /\ UNCHANGED <<now_us, nodes, handler, attempts, outcomes, called, handed>>

(* processUntil(now_us_.load()) *)
Enter(t) ==
    /\ Is(t, "pushed")
    /\ thread' = [thread EXCEPT ![t] = Looping(now_us)]
    /\ UNCHANGED <<event_queue, now_us, nodes, handler, attempts, outcomes, called, handed>>

(* setNowUs(until), then processUntil(until), as the scenario calls them. *)
ProcessUntil(until) ==
    /\ Is(Driver, "out")
    /\ now_us' = until
    /\ thread' = [thread EXCEPT ![Driver] = Looping(until)]
    /\ UNCHANGED <<event_queue, nodes, handler, attempts, outcomes, called, handed>>

(* popDue, with an event and without. *)
Pop(t) ==
    /\ Is(t, "looping") /\ HasDue(event_queue, thread[t].until)
    /\ event_queue' = Tail(event_queue)
    /\ thread' = [thread EXCEPT ![t].at = "popped",
                                ![t].frame = Head(event_queue).frame,
                                ![t].time = Head(event_queue).time]
    /\ UNCHANGED <<now_us, nodes, handler, attempts, outcomes, called, handed>>

PopNothing(t) ==
    /\ Is(t, "looping") /\ ~HasDue(event_queue, thread[t].until)
    /\ Moved(t, "leaving")
    /\ UNCHANGED <<event_queue, now_us, nodes, handler, attempts, outcomes, called, handed>>

(* executeDeliveryEvent takes its receivers under mutex_ ... *)
Recipients(f) == {n \in nodes \ {Source[f]} : Dest[f] \in {Broadcast, n}}

(* Mutant of Execute: the sender is not left out. *)
ExecuteEcho(t) ==
    /\ Is(t, "popped")
    /\ now_us' = thread[t].time
    /\ thread' = [thread EXCEPT ![t].at = "delivering",
                                ![t].left = Recipients(thread[t].frame) \cup {Source[thread[t].frame]}]
    /\ UNCHANGED <<event_queue, nodes, handler, attempts, outcomes, called, handed>>

(* A sender that is gone leaves nothing to deliver. *)
Execute(t) ==
    /\ Is(t, "popped")
    /\ now_us' = thread[t].time
    /\ thread' = [thread EXCEPT ![t].at = "delivering",
                                ![t].left = IF Source[thread[t].frame] \in nodes
                                            THEN Recipients(thread[t].frame) ELSE {}]
    /\ UNCHANGED <<event_queue, nodes, handler, attempts, outcomes, called, handed>>

(* ... and serves them without it.  One may be out of reach, or have no    *)
(* handler yet.                                                            *)
PassOver(t, n) ==
    /\ Is(t, "delivering") /\ n \in thread[t].left
    /\ thread' = [thread EXCEPT ![t].left = @ \ {n}]
    /\ UNCHANGED <<event_queue, now_us, nodes, handler, attempts, outcomes, called, handed>>

(* deliverFromNetwork copies the handler under the link's mutex ... *)
CopyHandler(t, n) ==
    /\ Is(t, "delivering") /\ n \in thread[t].left \cap handler
    /\ thread' = [thread EXCEPT ![t].at = "calling", ![t].to = n, ![t].left = @ \ {n}]
    /\ UNCHANGED <<event_queue, now_us, nodes, handler, attempts, outcomes, called, handed>>

(* Mutant of CallHandler: every receiver reports the outcome. *)
CallHandlerSettles(t) ==
    /\ Is(t, "calling")
    /\ handed' = [handed EXCEPT ![thread[t].frame][thread[t].to] = @ + 1]
    /\ outcomes' = outcomes + 1
    /\ thread' = [thread EXCEPT ![t].at = "delivering", ![t].to = Driver]
    /\ UNCHANGED <<event_queue, now_us, nodes, handler, attempts, called>>

(* ... and calls it without. *)
CallHandler(t) ==
    /\ Is(t, "calling")
    /\ handed' = [handed EXCEPT ![thread[t].frame][thread[t].to] = @ + 1]
    /\ thread' = [thread EXCEPT ![t].at = "delivering", ![t].to = Driver]
    /\ UNCHANGED <<event_queue, now_us, nodes, handler, attempts, outcomes, called>>

(* onTxOutcome *)
Settle(t) ==
    /\ Is(t, "delivering") /\ thread[t].left = {}
    /\ outcomes' = outcomes + 1
    /\ thread' = [thread EXCEPT ![t] = Looping(@.until)]
    /\ UNCHANGED <<event_queue, now_us, nodes, handler, attempts, called, handed>>

(* The end of processUntil: the clock is set to the horizon, which another *)
(* thread may have passed since.                                           *)
Leave(t) ==
    /\ Is(t, "leaving")
    /\ now_us' = thread[t].until
    /\ thread' = [thread EXCEPT ![t] = Out]
    /\ UNCHANGED <<event_queue, nodes, handler, attempts, outcomes, called, handed>>

(* A thread inside the network goes on. *)
Continue(t) ==
    \/ Push(t) \/ Enter(t) \/ Pop(t) \/ PopNothing(t) \/ Execute(t)
    \/ \E n \in NodeIds : PassOver(t, n) \/ CopyHandler(t, n)
    \/ CallHandler(t) \/ Settle(t) \/ Leave(t)

-----------------------------------------------------------------------------

(* registerNode, unregisterNode and the link's setRxHandler. *)
Register(ids) == nodes' = nodes \cup ids
Unregister(n) == nodes' = nodes \ {n}
SetHandler(n, on) == handler' = IF on THEN handler \cup {n} ELSE handler \ {n}

(* The nodes whose link or handler a thread is going to use. *)
Held(t) == thread[t].left \cup ({thread[t].to} \ {Driver})

(* The frames a thread has taken from the queue or not put there yet. *)
InHand == {thread[t].frame : t \in Threads} \ {NoFrame}
Queued == {event_queue[i].frame : i \in DOMAIN event_queue}
=============================================================================
