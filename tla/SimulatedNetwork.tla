-------------------------- MODULE SimulatedNetwork --------------------------
(***************************************************************************)
(* SimulatedNetwork (simulated_network.cpp) with timed delivery: the radio *)
(* channel the host simulation puts under every node.                      *)
(*                                                                         *)
(*   node threads        transmit: Stamp reads the virtual time, Submit    *)
(*                       pushes the event; no lock covers both             *)
(*   the driving thread  processUntil: BeginStep, one action per event,    *)
(*                       EndStep; between two calls registerNode,          *)
(*                       unregisterNode and resetMetrics                   *)
(*                                                                         *)
(* What the handlers do under mutex_ nobody else reads, so one event is    *)
(* one step.  Distances, fading, noise, packet error rate and congestion   *)
(* decide how a reception ends and how long it takes: here any of its      *)
(* outcomes and delays.  Frames stand for the calls of transmit and for    *)
(* the tx_id each of them draws.                                           *)
(***************************************************************************)
EXTENDS SimulationEventQueue

CONSTANTS
    NodeIds,
    Frames,          \* calls of transmit
    Source,          \* src_node_id of each
    Dest,            \* dst_id of each, a node or Broadcast
    Broadcast,       \* BROADCAST_ADDR
    Airtime,         \* computeTxDurationUs of each frame's length
    Delays,          \* propagation delays
    SlotTime, Difs, MaxRetries, CwMin, CwMaxConfigured,
    CollisionModel,  \* enable_collision_model_
    Horizons,        \* the times the driver steps to
    SendUntil,       \* bound: no transmit and no resetMetrics after this time
    MaxResets,       \* bound on calls of resetMetrics
    Leavers          \* bound: the nodes that come and go

ASSUME NetworkAssumption ==
    /\ IsFiniteSet(NodeIds)
    /\ \A f \in Frames : /\ Source[f] \in NodeIds
                         /\ Dest[f] \in NodeIds \cup {Broadcast}
                         /\ Airtime[f] \in Nat \ {0}
    /\ {SlotTime, Difs, MaxRetries, CwMin, CwMaxConfigured} \subseteq Nat
    /\ Delays \subseteq Nat /\ Horizons \subseteq Nat
    /\ CollisionModel \in BOOLEAN
    /\ Leavers \subseteq NodeIds

VARIABLES
    call,        \* how far each call of transmit is, and the time it read
    event_queue,
    now_us,
    horizon,     \* the bound of the running processUntil
    nodes,       \* keys of nodes_
    cw_state,    \* cw_state_by_node_; no entry reads as cw_min_
    busy_until,  \* channel_busy_until_us_
    active,      \* active_transmissions_
    delivery,    \* tx_delivery_state_
    metrics,     \* metrics_: the counters of transmit attempts
    failures,    \* onTxOutcome(false), which no counter keeps (a history)
    air,         \* when each frame was on the air (a history)
    heard,       \* how each reception ended (a history)
    resets

channel == <<busy_until, active, delivery, cw_state>>
histories == <<failures, air, heard>>
vars == <<call, event_queue, now_us, horizon, nodes, channel, metrics,
          histories, resets>>

Idle == [running |-> FALSE, until |-> 0]
NoMetrics == [attempts |-> 0, success |-> 0, collision |-> 0, per |-> 0]
Silence == [start |-> 0, end |-> 0]

CwMax == IF CwMaxConfigured < CwMin THEN CwMin ELSE CwMaxConfigured
Least(a, b) == IF a < b THEN a ELSE b
Without(map, key) == [k \in DOMAIN map \ {key} |-> map[k]]
With(map, key, value) ==
    [k \in DOMAIN map \cup {key} |-> IF k = key THEN value ELSE map[k]]

TxStart(f, time) ==
    [time |-> time, priority |-> 2, type |-> "TxStart",
     frame |-> f, dst |-> Dest[f], retries |-> 0]
RetryBackoff(e, time) ==
    [time |-> time, priority |-> 1, type |-> "RetryBackoff",
     frame |-> e.frame, dst |-> e.dst, retries |-> e.retries + 1]
TxEnd(e, time) ==
    [time |-> time, priority |-> 0, type |-> "TxEnd",
     frame |-> e.frame, dst |-> e.dst, retries |-> 0]
RxDelivery(e, time, n) ==
    [time |-> time, priority |-> 3, type |-> "RxDelivery",
     frame |-> e.frame, dst |-> n, retries |-> e.retries]

-----------------------------------------------------------------------------

Init ==
    /\ call = [f \in Frames |-> [pc |-> "new", time |-> 0]]
    /\ event_queue = <<>>
    /\ now_us = 0
    /\ horizon = Idle
    /\ nodes = NodeIds
    /\ cw_state = [n \in NodeIds |-> CwMin]
    /\ busy_until = 0
    /\ active = <<>>
    /\ delivery = <<>>
    /\ metrics = NoMetrics
    /\ failures = 0
    /\ air = [f \in Frames |-> Silence]
    /\ heard = [f \in Frames |-> <<>>]
    /\ resets = 0

(* transmit: the attempt is counted and the event gets the time of the     *)
(* moment ...                                                              *)
Stamp(f) ==
    /\ call[f].pc = "new"
    /\ now_us <= SendUntil
    /\ call' = [call EXCEPT ![f] = [pc |-> "stamped", time |-> now_us]]
    /\ metrics' = [metrics EXCEPT !.attempts = @ + 1]
    /\ UNCHANGED <<event_queue, now_us, horizon, nodes, channel, histories, resets>>

(* ... and joins the queue, however far the driver has come since.         *)
Submit(f) ==
    /\ call[f].pc = "stamped"
    /\ event_queue' = Pushed(event_queue, TxStart(f, call[f].time))
    /\ call' = [call EXCEPT ![f] = [pc |-> "submitted", time |-> 0]]
    /\ UNCHANGED <<now_us, horizon, nodes, channel, metrics, histories, resets>>

(* processUntil(until), as step calls it: never behind the clock. *)
BeginStep(until) ==
    /\ horizon = Idle
    /\ until >= now_us
    /\ horizon' = [running |-> TRUE, until |-> until]
    /\ UNCHANGED <<call, event_queue, now_us, nodes, channel, metrics, histories, resets>>

EndStep ==
    /\ horizon.running
    /\ ~HasDue(event_queue, horizon.until)
    /\ now_us' = horizon.until
    /\ horizon' = Idle
    /\ UNCHANGED <<call, event_queue, nodes, channel, metrics, histories, resets>>

(* popDue hands the driver an event of this type, and the clock jumps to it *)
Popped(e, type) ==
    /\ horizon.running
    /\ HasDue(event_queue, horizon.until)
    /\ e = Head(event_queue)
    /\ e.type = type
    /\ now_us' = e.time
    /\ UNCHANGED <<call, horizon, nodes, resets>>

(* onTxOutcome(false) *)
Failed == failures' = failures + 1

-----------------------------------------------------------------------------

(* executeTxStartEvent.  The receivers are served in the order of a hash   *)
(* table.                                                                  *)
Recipients(e) ==
    {n \in nodes \ {Source[e.frame]} : e.dst \in {Broadcast, n}}

Orders(S) ==
    {order \in [1 .. Cardinality(S) -> S] :
        \A i, k \in DOMAIN order : order[i] = order[k] => i = k}

(* A frame's first attempt may join one that went on air at the same       *)
(* moment: neither could hear the other.                                   *)
CollisionStart(e) ==
    /\ CollisionModel
    /\ e.retries = 0
    /\ \E g \in DOMAIN active :
          active[g].start = e.time /\ active[g].end > e.time

(* Mutant of ChannelBusy: one tick early. *)
ChannelBusyNarrow(e) == e.time + 1 < busy_until /\ ~CollisionStart(e)

ChannelBusy(e) == e.time < busy_until /\ ~CollisionStart(e)

(* The sender is gone. *)
TxStartOrphan(e) ==
    /\ Popped(e, "TxStart")
    /\ Source[e.frame] \notin nodes
    /\ event_queue' = Tail(event_queue)
    /\ Failed
    /\ UNCHANGED <<channel, metrics, air, heard>>

(* Mutant of TxStartGiveUp: the failed attempt is never reported. *)
TxStartGiveUpSilent(e) ==
    /\ Popped(e, "TxStart")
    /\ Source[e.frame] \in nodes /\ ChannelBusy(e)
    /\ e.retries >= MaxRetries
    /\ event_queue' = Tail(event_queue)
    /\ UNCHANGED <<channel, metrics, failures, air, heard>>

TxStartGiveUp(e) ==
    /\ Popped(e, "TxStart")
    /\ Source[e.frame] \in nodes /\ ChannelBusy(e)
    /\ e.retries >= MaxRetries
    /\ event_queue' = Tail(event_queue)
    /\ Failed
    /\ UNCHANGED <<channel, metrics, air, heard>>

TxStartDefer(e) ==
    LET src == Source[e.frame]
        cw == Least(CwMax, 2 * cw_state[src] + 1)
    IN  /\ Popped(e, "TxStart")
        /\ src \in nodes /\ ChannelBusy(e)
        /\ e.retries < MaxRetries
        /\ cw_state' = [cw_state EXCEPT ![src] = cw]
        /\ \E slots \in 0 .. cw :
              event_queue' = Pushed(Tail(event_queue),
                  RetryBackoff(e, busy_until + Difs + slots * SlotTime))
        /\ UNCHANGED <<busy_until, active, delivery, metrics, histories>>

(* The frames on air that [start, end) overlaps. *)
Overlapped(start, end) ==
    IF CollisionModel
    THEN {g \in DOMAIN active : start < active[g].end /\ end > active[g].start}
    ELSE {}

(* Mutant of CollidedIn: those already on air are not told. *)
CollidedInNewOnly(map, hit) == map

CollidedIn(map, hit) ==
    [g \in DOMAIN map |-> IF g \in hit THEN [map[g] EXCEPT !.collided = TRUE]
                                       ELSE map[g]]

(* On air: frames that overlap collide with it, and it with them.  Nobody  *)
(* to hear it: its delivery state is dropped again and the attempt fails.  *)
TxStartOnAir(e) ==
    LET f == e.frame
        end == e.time + Airtime[f]
        hit == Overlapped(e.time, end)
        told == Recipients(e)
    IN  /\ Popped(e, "TxStart")
        /\ Source[f] \in nodes /\ ~ChannelBusy(e)
        /\ active' = With(CollidedIn(active, hit), f,
                          [start |-> e.time, end |-> end, collided |-> hit # {}])
        /\ busy_until' = IF end > busy_until THEN end ELSE busy_until
        /\ cw_state' = [cw_state EXCEPT ![Source[f]] = CwMin]
        /\ air' = [air EXCEPT ![f] = [start |-> e.time, end |-> end]]
        /\ UNCHANGED heard
        /\ \/ /\ told = {}
              /\ delivery' = CollidedIn(delivery, hit)
              /\ metrics' = [metrics EXCEPT !.collision = @ + (IF hit # {} THEN 1 ELSE 0)]
              /\ Failed
              /\ event_queue' = Pushed(Tail(event_queue), TxEnd(e, end))
           \/ /\ told # {}
              /\ delivery' = With(CollidedIn(delivery, hit), f,
                     [pending |-> Cardinality(told), any_delivered |-> FALSE,
                      any_per_drop |-> FALSE, collided |-> hit # {}])
              /\ \E order \in Orders(told), delay \in [told -> Delays] :
                    event_queue' = PushedAll(Tail(event_queue),
                        <<TxEnd(e, end)>> \o
                        [i \in 1 .. Len(order) |->
                            RxDelivery(e, end + delay[order[i]], order[i])])
              /\ UNCHANGED <<metrics, failures>>

(* executeRetryBackoffEvent: the start is due at once, and keeps the       *)
(* priority of the backoff.                                                *)
EndBackoff(e) ==
    /\ Popped(e, "RetryBackoff")
    /\ event_queue' = Pushed(Tail(event_queue), [e EXCEPT !.type = "TxStart"])
    /\ UNCHANGED <<channel, metrics, histories>>

(* executeTxEndEvent. *)
EndTransmission(e) ==
    /\ Popped(e, "TxEnd")
    /\ event_queue' = Tail(event_queue)
    /\ active' = Without(active, e.frame)
    /\ busy_until' = IF e.time >= busy_until THEN e.time ELSE busy_until
    /\ UNCHANGED <<cw_state, delivery, metrics, histories>>

-----------------------------------------------------------------------------

(* executeDeliveryEvent.  The state of the transmission is gone: the frame *)
(* never reaches this receiver.                                            *)
DeliverForgotten(e) ==
    /\ Popped(e, "RxDelivery")
    /\ e.frame \notin DOMAIN delivery
    /\ event_queue' = Tail(event_queue)
    /\ heard' = [heard EXCEPT ![e.frame] = With(@, e.dst, "forgotten")]
    /\ UNCHANGED <<channel, metrics, failures, air>>

(* How a reception may end: a collided frame, or one with an endpoint      *)
(* missing, is dropped; else it is too weak or congested, lost to the      *)
(* packet error rate, or handed to the node.                               *)
Reception(e) ==
    IF ~delivery[e.frame].collided /\ {Source[e.frame], e.dst} \subseteq nodes
    THEN {"dropped", "per_drop", "delivered"}
    ELSE {"dropped"}

(* Mutant of Updated: only a reception that succeeds is counted down. *)
UpdatedOnSuccess(state, end) ==
    IF end = "delivered"
    THEN [state EXCEPT !.pending = @ - 1, !.any_delivered = TRUE]
    ELSE [state EXCEPT !.any_per_drop = @ \/ end = "per_drop"]

(* Mutant of Updated: a later reception overwrites an earlier one. *)
UpdatedByLast(state, end) ==
    [state EXCEPT !.pending = @ - 1,
                  !.any_delivered = end = "delivered",
                  !.any_per_drop = end = "per_drop"]

Updated(state, end) ==
    [pending |-> state.pending - 1,
     any_delivered |-> state.any_delivered \/ end = "delivered",
     any_per_drop |-> state.any_per_drop \/ end = "per_drop",
     collided |-> state.collided]

(* Mutant of Finalized: a collision is not reported as a failed attempt. *)
FinalizedUnlessCollided(state) ==
    /\ metrics' =
          [metrics EXCEPT !.success = @ + (IF state.any_delivered THEN 1 ELSE 0),
                          !.collision = @ + (IF state.collided THEN 1 ELSE 0)]
    /\ failures' = failures + (IF state.any_delivered \/ state.collided THEN 0 ELSE 1)

(* The attempt's outcome, once no reception is left. *)
Finalized(state) ==
    /\ metrics' =
          [attempts |-> metrics.attempts,
           success |-> metrics.success + (IF state.any_delivered THEN 1 ELSE 0),
           collision |-> metrics.collision
                           + (IF state.collided /\ ~state.any_delivered THEN 1 ELSE 0),
           per |-> metrics.per + (IF state.any_per_drop /\ ~state.any_delivered THEN 1 ELSE 0)]
    /\ failures' = failures + (IF state.any_delivered THEN 0 ELSE 1)

Deliver(e) ==
    /\ Popped(e, "RxDelivery")
    /\ e.frame \in DOMAIN delivery
    /\ event_queue' = Tail(event_queue)
    /\ UNCHANGED <<cw_state, busy_until, active, air>>
    /\ \E end \in Reception(e) :
          LET f == e.frame
              state == Updated(delivery[f], end)
          IN  /\ heard' = [heard EXCEPT ![f] = With(@, e.dst, end)]
              /\ IF state.pending = 0
                 THEN Finalized(state) /\ delivery' = Without(delivery, f)
                 ELSE /\ delivery' = [delivery EXCEPT ![f] = state]
                      /\ UNCHANGED <<metrics, failures>>

-----------------------------------------------------------------------------

(* registerNode and unregisterNode; either way the node's contention       *)
(* window starts again.                                                    *)
Register(n) ==
    /\ horizon = Idle
    /\ n \in Leavers \ nodes
    /\ nodes' = nodes \cup {n}
    /\ cw_state' = [cw_state EXCEPT ![n] = CwMin]
    /\ UNCHANGED <<call, event_queue, now_us, horizon, busy_until, active,
                   delivery, metrics, histories, resets>>

Unregister(n) ==
    /\ horizon = Idle
    /\ n \in Leavers \cap nodes
    /\ nodes' = nodes \ {n}
    /\ cw_state' = [cw_state EXCEPT ![n] = CwMin]
    /\ UNCHANGED <<call, event_queue, now_us, horizon, busy_until, active,
                   delivery, metrics, histories, resets>>

(* resetMetrics at the scenario's clock: the counters, and the channel's   *)
(* state with them; events stay queued.                                    *)
ResetMetrics ==
    /\ horizon = Idle
    /\ resets < MaxResets /\ now_us <= SendUntil
    /\ resets' = resets + 1
    /\ metrics' = NoMetrics
    /\ failures' = 0
    /\ busy_until' = now_us
    /\ active' = <<>>
    /\ delivery' = <<>>
    /\ cw_state' = [n \in NodeIds |-> CwMin]
    /\ UNCHANGED <<call, event_queue, now_us, horizon, nodes, air, heard>>

(* The switch of processUntil. *)
ProcessEvent ==
    /\ event_queue # <<>>
    /\ LET e == Head(event_queue)
       IN  \/ TxStartOrphan(e)
           \/ TxStartGiveUp(e)
           \/ TxStartDefer(e)
           \/ TxStartOnAir(e)
           \/ EndBackoff(e)
           \/ EndTransmission(e)
           \/ DeliverForgotten(e)
           \/ Deliver(e)

Next ==
    \/ \E f \in Frames : Stamp(f) \/ Submit(f)
    \/ \E until \in Horizons : BeginStep(until)
    \/ EndStep
    \/ ProcessEvent
    \/ \E n \in Leavers : Register(n) \/ Unregister(n)
    \/ ResetMetrics

Spec == Init /\ [][Next]_vars

(* The threads run, and whoever drives the simulation goes on stepping it  *)
(* forward as long as there is a horizon ahead.                            *)
Fairness ==
    /\ \A f \in Frames : WF_vars(Submit(f))
    /\ WF_vars(\E until \in Horizons : BeginStep(until))
    /\ SF_vars(\E until \in Horizons : until > now_us /\ BeginStep(until))
    /\ WF_vars(ProcessEvent)
    /\ WF_vars(EndStep)

FairSpec == Spec /\ Fairness

-----------------------------------------------------------------------------

Queued(type) == {i \in DOMAIN event_queue : event_queue[i].type = type}
Waiting == {event_queue[i].frame : i \in Queued("TxStart") \cup Queued("RetryBackoff")}
Outstanding == {f \in Frames : call[f].pc = "stamped"} \cup Waiting \cup DOMAIN delivery
GotThrough(f) == \E n \in DOMAIN heard[f] : heard[f][n] = "delivered"
Overlap(f, g) == air[f].start < air[g].end /\ air[g].start < air[f].end

(* Types.  No event carries more retries than max_retries_ and no window   *)
(* exceeds cw_max_.                                                        *)
TypeOK ==
    /\ \A f \in Frames : /\ call[f].pc \in {"new", "stamped", "submitted"}
                         /\ call[f].time \in Nat
                         /\ DOMAIN heard[f] \subseteq NodeIds
    /\ \A i \in DOMAIN event_queue : event_queue[i].retries \in 0 .. MaxRetries
    /\ now_us \in Nat /\ busy_until \in Nat
    /\ nodes \subseteq NodeIds
    /\ cw_state \in [NodeIds -> 0 .. CwMax]
    /\ DOMAIN active \subseteq Frames
    /\ \A f \in DOMAIN delivery : delivery[f].pending \in 1 .. Cardinality(NodeIds)

(* With the collision model: two frames that were on the air together are  *)
(* lost at every receiver, the one that was there first included, though   *)
(* each is marked in a different event, and a start may be pushed by       *)
(* another thread after the clock has passed it (executeTxStartEvent,      *)
(* executeDeliveryEvent); until a resetMetrics forgets who is on the air.  *)
OverlapSilences ==
    CollisionModel /\ resets = 0 =>
        \A f, g \in Frames : f # g /\ Overlap(f, g) => ~GotThrough(f) /\ ~GotThrough(g)

(* Without it: carrier sense keeps the air to one frame at a time, whatever *)
(* the order in which node threads stamp and submit, until a resetMetrics  *)
(* forgets who is on the air.                                              *)
ChannelExclusive ==
    ~CollisionModel /\ resets = 0 => \A f, g \in Frames : f # g => ~Overlap(f, g)

(* onTxAttempt and onTxOutcome: until the counters are reset, every attempt *)
(* counted is waiting, on its way to receivers, or has been reported as an *)
(* outcome exactly once.                                                   *)
AttemptsAccounted ==
    resets = 0 =>
        metrics.attempts = metrics.success + failures + Cardinality(Outstanding)

(* tx_success counts the settled attempts that at least one node heard     *)
(* (until it is reset).                                                    *)
SuccessMeansHeard ==
    resets = 0 =>
        metrics.success = Cardinality({f \in Frames \ Outstanding : GotThrough(f)})

(* "Virtual time advances": no event moves the clock back.                 *)
TimeOnlyForward == [][now_us' >= now_us]_vars

(* Every attempt is settled: backoff comes to an end, by going on air or   *)
(* by giving up, and every transmission's receptions are counted down.     *)
EveryAttemptSettles == \A f \in Frames : f \in Outstanding ~> f \notin Outstanding

=============================================================================
