--------------------------- MODULE ChannelProofs ---------------------------
(***************************************************************************)
(* Proofs about SimulatedNetwork, for any frames, nodes, delays and        *)
(* contention windows.                                                     *)
(***************************************************************************)
EXTENDS SimulatedNetwork, EventQueueProofs

EventTypes == {"TxStart", "RetryBackoff", "TxEnd", "RxDelivery"}
Event == {e \in [time : Nat, priority : 0 .. 3, type : EventTypes, frame : Frames,
                 dst : NodeIds \cup {Broadcast}, retries : Nat] :
             e.type = "RxDelivery" => e.dst \in NodeIds}

Transmission == [start : Nat, end : Nat, collided : BOOLEAN]
Delivery == [pending : Int, any_delivered : BOOLEAN, any_per_drop : BOOLEAN,
             collided : BOOLEAN]

Waits(e) == e.type \in {"TxStart", "RetryBackoff"}

(* The shape of the state.                                                 *)
CallsTyped == call \in [Frames -> [pc : {"new", "stamped", "submitted"}, time : Nat]]
QueueTyped == event_queue \in Seq(Event)
ClockTyped ==
    now_us \in Nat /\ horizon.until \in Nat /\ resets \in Nat /\ nodes \subseteq NodeIds
WindowTyped == cw_state \in [NodeIds -> Nat]
ActiveTyped ==
    /\ busy_until \in Nat
    /\ DOMAIN active \subseteq Frames
    /\ active \in [DOMAIN active -> Transmission]
DeliveryTyped ==
    /\ DOMAIN delivery \subseteq Frames
    /\ delivery \in [DOMAIN delivery -> Delivery]
CountsTyped ==
    /\ metrics \in [attempts : Nat, success : Nat, collision : Nat, per : Nat]
    /\ failures \in Nat
HistoriesTyped ==
    /\ air \in [Frames -> [start : Nat, end : Nat]]
    /\ DOMAIN heard = Frames
    /\ \A f \in Frames : DOMAIN heard[f] \subseteq NodeIds

Typed ==
    /\ CallsTyped /\ QueueTyped /\ ClockTyped /\ WindowTyped
    /\ ActiveTyped /\ DeliveryTyped /\ CountsTyped /\ HistoriesTyped

(* Two events of one frame are not attempts, nor receptions at one node.   *)
Apart(d, e) ==
    d.frame = e.frame =>
        ~Waits(d) /\ ~(d.type = "RxDelivery" /\ e.type = "RxDelivery" /\ d.dst = e.dst)

AllApart(queue) ==
    \A i, k \in 1 .. Len(queue) : i # k => Apart(queue[i], queue[k])

(* What is assumed, a fact at a time.                                      *)
LEMMA Parameters ==
    /\ IsFiniteSet(NodeIds)
    /\ \A f \in Frames : /\ Source[f] \in NodeIds /\ Dest[f] \in NodeIds \cup {Broadcast}
                         /\ Airtime[f] \in Nat \ {0}
    /\ SlotTime \in Nat /\ Difs \in Nat /\ CwMin \in Nat /\ CwMax \in Nat
    /\ Delays \subseteq Nat /\ Horizons \subseteq Nat
BY NetworkAssumption DEF NetworkAssumption, CwMax

LEMMA EventsAreTimed ==
    ASSUME NEW queue \in Seq(Event)
    PROVE  Timed(queue)
<1>1. \A i \in 1 .. Len(queue) : queue[i] \in Event
  OBVIOUS
<1>2. \A e \in Event : e.time \in Nat /\ e.priority \in Nat
  BY DEF Event
<1> QED BY <1>1, <1>2 DEF Timed

LEMMA PushOne ==
    ASSUME NEW queue \in Seq(Event), NEW e \in Event
    PROVE  /\ Pushed(queue, e) \in Seq(Event)
           /\ Members(Pushed(queue, e)) = Members(queue) \cup {e}
           /\ Ordered(queue) => Ordered(Pushed(queue, e))
<1>1. e.time \in Nat /\ e.priority \in Nat
  BY DEF Event
<1>2. Pushed(queue, e) \in Seq(Event)
  BY PushedRearranges
<1>3. Members(Pushed(queue, e)) = Members(queue) \cup {e}
  BY PushedMembers
<1>4. Timed(queue)
  BY EventsAreTimed
<1>5. Ordered(queue) => Ordered(Pushed(queue, e))
  BY <1>1, <1>4, PushedIsOrdered
<1> QED BY <1>2, <1>3, <1>5

LEMMA PushMany ==
    ASSUME NEW queue \in Seq(Event), NEW events \in Seq(Event)
    PROVE  /\ PushedAll(queue, events) \in Seq(Event)
           /\ Members(PushedAll(queue, events)) = Members(queue) \cup Members(events)
           /\ Ordered(PushedAll(queue, events))
<1>1. queue \o events \in Seq(Event)
  BY Joined
<1>2. Timed(queue \o events)
  BY <1>1, EventsAreTimed
<1> QED BY <1>2, PushedAllRearranges, PushedAllMembers

LEMMA RearrangedApart ==
    ASSUME NEW queue, NEW events, Rearranged(queue, events), AllApart(events)
    PROVE  AllApart(queue)
<1>1. PICK place \in Bijection(1 .. Len(queue), 1 .. Len(events)) :
         \A r \in 1 .. Len(queue) : queue[r] = events[place[r]]
  BY DEF Rearranged
<1>2. \A i, k \in 1 .. Len(queue) :
         /\ place[i] \in 1 .. Len(events)
         /\ i # k => place[i] # place[k]
  BY <1>1 DEF Bijection, Injection, IsInjective
<1> QED BY <1>1, <1>2 DEF AllApart

LEMMA JoinedApart ==
    ASSUME NEW s \in Seq(Event), NEW t \in Seq(Event), AllApart(s), AllApart(t),
           \A d \in Members(s) : \A e \in Members(t) : Apart(d, e) /\ Apart(e, d)
    PROVE  AllApart(s \o t)
<1>1. /\ Len(s \o t) = Len(s) + Len(t)
      /\ \A i \in 1 .. Len(s) : (s \o t)[i] = s[i]
      /\ \A i \in 1 .. Len(t) : (s \o t)[Len(s) + i] = t[i]
  BY Joined
<1>2. Len(s) \in Nat /\ Len(t) \in Nat
  OBVIOUS
<1>3. ASSUME NEW i \in 1 .. Len(s \o t)
      PROVE  \/ i \in 1 .. Len(s) /\ (s \o t)[i] = s[i]
             \/ i - Len(s) \in 1 .. Len(t) /\ (s \o t)[i] = t[i - Len(s)]
  <2>1. CASE i <= Len(s)
    BY <1>1, <1>2, <2>1
  <2>2. CASE i > Len(s)
    <3>1. i - Len(s) \in 1 .. Len(t) /\ Len(s) + (i - Len(s)) = i
      BY <1>1, <1>2, <2>2
    <3> QED BY <1>1, <3>1
  <2> QED BY <1>1, <1>2, <2>1, <2>2
<1>4. /\ \A i \in 1 .. Len(s) : s[i] \in Members(s)
      /\ \A i \in 1 .. Len(t) : t[i] \in Members(t)
  BY DEF Members
<1>5. ASSUME NEW i \in 1 .. Len(s \o t), NEW k \in 1 .. Len(s \o t), i # k
      PROVE  Apart((s \o t)[i], (s \o t)[k])
  <2>1. CASE i \in 1 .. Len(s) /\ (s \o t)[i] = s[i]
    <3>1. CASE k \in 1 .. Len(s) /\ (s \o t)[k] = s[k]
      BY <1>5, <2>1, <3>1 DEF AllApart
    <3>2. CASE k - Len(s) \in 1 .. Len(t) /\ (s \o t)[k] = t[k - Len(s)]
      BY <1>4, <2>1, <3>2
    <3> QED BY <1>3, <3>1, <3>2
  <2>2. CASE i - Len(s) \in 1 .. Len(t) /\ (s \o t)[i] = t[i - Len(s)]
    <3>1. CASE k \in 1 .. Len(s) /\ (s \o t)[k] = s[k]
      BY <1>4, <2>2, <3>1
    <3>2. CASE k - Len(s) \in 1 .. Len(t) /\ (s \o t)[k] = t[k - Len(s)]
      <4>1. i - Len(s) # k - Len(s)
        BY <1>2, <1>5
      <4> QED BY <2>2, <3>2, <4>1 DEF AllApart
    <3> QED BY <1>3, <3>1, <3>2
  <2> QED BY <1>3, <2>1, <2>2
<1> QED BY <1>5 DEF AllApart

LEMMA PushOneApart ==
    ASSUME NEW queue \in Seq(Event), NEW e \in Event, AllApart(queue),
           \A d \in Members(queue) : Apart(d, e) /\ Apart(e, d)
    PROVE  AllApart(Pushed(queue, e))
<1> DEFINE one == <<e>>
<1>1. one \in Seq(Event) /\ Len(one) = 1 /\ one[1] = e
  OBVIOUS
<1>2. Append(queue, e) = queue \o one
  OBVIOUS
<1> HIDE DEF one
<1>3. AllApart(one) /\ Members(one) = {e}
  BY <1>1 DEF AllApart, Members
<1>4. AllApart(queue \o one)
  BY <1>1, <1>3, JoinedApart
<1> QED BY <1>2, <1>4, PushedRearranges, RearrangedApart

LEMMA PushManyApart ==
    ASSUME NEW queue \in Seq(Event), NEW events \in Seq(Event), AllApart(queue), AllApart(events),
           \A d \in Members(queue) : \A e \in Members(events) : Apart(d, e) /\ Apart(e, d)
    PROVE  AllApart(PushedAll(queue, events))
<1>1. Timed(queue \o events)
  BY Joined, EventsAreTimed
<1> QED BY <1>1, JoinedApart, PushedAllRearranges, RearrangedApart

LEMMA PopApart ==
    ASSUME NEW queue \in Seq(Event), queue # <<>>, AllApart(queue)
    PROVE  /\ AllApart(Tail(queue))
           /\ \A d \in Members(Tail(queue)) : Apart(d, Head(queue)) /\ Apart(Head(queue), d)
<1>1. /\ Len(queue) \in Nat \ {0} /\ Len(Tail(queue)) = Len(queue) - 1
      /\ Head(queue) = queue[1]
      /\ \A i \in 1 .. Len(Tail(queue)) : Tail(queue)[i] = queue[i + 1]
  BY PoppedMembers
<1>2. \A i \in 1 .. Len(Tail(queue)) : i + 1 \in 1 .. Len(queue) /\ i + 1 # 1
  BY <1>1
<1>3. \A i, k \in 1 .. Len(Tail(queue)) : i # k => i + 1 # k + 1
  BY <1>1
<1>4. AllApart(Tail(queue))
  BY <1>1, <1>2, <1>3 DEF AllApart
<1>5. \A i \in 1 .. Len(Tail(queue)) :
         Apart(Tail(queue)[i], Head(queue)) /\ Apart(Head(queue), Tail(queue)[i])
  <2>1. 1 \in 1 .. Len(queue)
    BY <1>1
  <2> QED BY <1>1, <1>2, <2>1 DEF AllApart
<1> QED BY <1>4, <1>5 DEF Members

-----------------------------------------------------------------------------
(* The events of one step.                                                 *)

LEMMA PopDue ==
    ASSUME Typed, NEW e, NEW type, Popped(e, type)
    PROVE  /\ e \in Event /\ e.type = type /\ e.frame \in Frames /\ e.time \in Nat
           /\ event_queue \in Seq(Event) /\ event_queue # <<>> /\ e = Head(event_queue)
           /\ Tail(event_queue) \in Seq(Event)
           /\ e \in Members(event_queue)
           /\ Members(event_queue) = {e} \cup Members(Tail(event_queue))
           /\ now_us' = e.time
           /\ call' = call /\ horizon' = horizon /\ nodes' = nodes /\ resets' = resets
<1>1. event_queue \in Seq(Event) /\ event_queue # <<>> /\ e = Head(event_queue)
  BY DEF Popped, HasDue, Typed, QueueTyped
<1>2. e \in Event
  BY <1>1, PoppedMembers
<1>3. e.frame \in Frames /\ e.time \in Nat
  BY <1>2 DEF Event
<1> QED BY <1>1, <1>2, <1>3, PoppedMembers DEF Popped

LEMMA NewEvents ==
    ASSUME NEW e \in Event, NEW time \in Nat
    PROVE  /\ TxEnd(e, time) \in Event
           /\ TxEnd(e, time).frame = e.frame /\ TxEnd(e, time).time = time
           /\ TxEnd(e, time).type = "TxEnd" /\ TxEnd(e, time).priority = 0
           /\ TxEnd(e, time).retries = 0
           /\ RetryBackoff(e, time) \in Event
           /\ RetryBackoff(e, time).frame = e.frame
           /\ RetryBackoff(e, time).type = "RetryBackoff"
           /\ RetryBackoff(e, time).priority = 1
           /\ RetryBackoff(e, time).retries = e.retries + 1
<1>1. e.frame \in Frames /\ e.dst \in NodeIds \cup {Broadcast} /\ e.retries \in Nat
  BY DEF Event
<1>2. TxEnd(e, time) \in Event
  BY <1>1 DEF Event, EventTypes, TxEnd
<1>3. RetryBackoff(e, time) \in Event
  BY <1>1 DEF Event, EventTypes, RetryBackoff
<1> QED BY <1>2, <1>3 DEF TxEnd, RetryBackoff

LEMMA ReceptionEvent ==
    ASSUME NEW e \in Event, NEW time \in Nat, NEW n \in NodeIds
    PROVE  /\ RxDelivery(e, time, n) \in Event
           /\ RxDelivery(e, time, n).frame = e.frame
           /\ RxDelivery(e, time, n).time = time
           /\ RxDelivery(e, time, n).dst = n
           /\ RxDelivery(e, time, n).type = "RxDelivery"
           /\ RxDelivery(e, time, n).priority = 3
           /\ RxDelivery(e, time, n).retries = e.retries
<1>1. e.frame \in Frames /\ e.retries \in Nat
  BY DEF Event
<1> QED BY <1>1 DEF Event, EventTypes, RxDelivery

LEMMA StartEvent ==
    ASSUME NEW f \in Frames, NEW time \in Nat
    PROVE  /\ TxStart(f, time) \in Event
           /\ TxStart(f, time).frame = f /\ TxStart(f, time).time = time
           /\ TxStart(f, time).type = "TxStart" /\ TxStart(f, time).priority = 2
           /\ TxStart(f, time).retries = 0
<1>1. Dest[f] \in NodeIds \cup {Broadcast}
  BY Parameters
<1> QED BY <1>1 DEF Event, EventTypes, TxStart

(* The end of a transmission and its receptions.                           *)
Sent(e, end, order, delay) ==
    <<TxEnd(e, end)>> \o
        [i \in 1 .. Len(order) |-> RxDelivery(e, end + delay[order[i]], order[i])]

(* Such an event: the end, or a reception at one of these nodes.           *)
OneOf(d, e, end, told) ==
    \/ d = TxEnd(e, end)
    \/ /\ d.frame = e.frame /\ d.type = "RxDelivery" /\ d.priority = 3
       /\ end <= d.time /\ d.dst \in told /\ d.retries = e.retries

LEMMA Receptions ==
    ASSUME NEW e \in Event, NEW end \in Nat, NEW told \in SUBSET NodeIds,
           NEW order \in Orders(told), NEW delay \in [told -> Delays],
           NEW events,
           events = Sent(e, end, order, delay)
    PROVE  /\ events \in Seq(Event) /\ AllApart(events)
           /\ TxEnd(e, end) \in Members(events)
           /\ \A d \in Members(events) : OneOf(d, e, end, told)
<1> DEFINE rx == [i \in 1 .. Len(order) |-> RxDelivery(e, end + delay[order[i]], order[i])]
           first == <<TxEnd(e, end)>>
<1>1. IsFiniteSet(told)
  BY Parameters, FS_Subset
<1>2. /\ Cardinality(told) \in Nat /\ order \in [1 .. Cardinality(told) -> told]
      /\ \A i, k \in DOMAIN order : order[i] = order[k] => i = k
  BY <1>1, FS_CardinalityType DEF Orders
<1>3. order \in Seq(told) /\ Len(order) = Cardinality(told)
  BY <1>2
<1>4. \A i \in 1 .. Len(order) : order[i] \in told /\ end + delay[order[i]] \in Nat
                                /\ end <= end + delay[order[i]]
  <2> TAKE i \in 1 .. Len(order)
  <2>1. order[i] \in told
    BY <1>3
  <2>2. delay[order[i]] \in Nat
    BY <2>1, Parameters
  <2> QED BY <2>1, <2>2
<1>5. \A i \in 1 .. Len(order) :
         /\ rx[i] \in Event /\ rx[i].frame = e.frame /\ rx[i].type = "RxDelivery"
         /\ rx[i].priority = 3 /\ end <= rx[i].time /\ rx[i].dst = order[i] /\ rx[i].dst \in told
         /\ rx[i].retries = e.retries
  <2> TAKE i \in 1 .. Len(order)
  <2>1. PICK t \in Nat : t = end + delay[order[i]] /\ end <= t
    BY <1>4
  <2>2. PICK n \in NodeIds : n = order[i] /\ n \in told
    BY <1>4
  <2>3. rx[i] = RxDelivery(e, t, n)
    BY <2>1, <2>2
  <2> HIDE DEF rx
  <2>4. /\ RxDelivery(e, t, n) \in Event /\ RxDelivery(e, t, n).frame = e.frame
        /\ RxDelivery(e, t, n).time = t /\ RxDelivery(e, t, n).dst = n
        /\ RxDelivery(e, t, n).type = "RxDelivery" /\ RxDelivery(e, t, n).priority = 3
        /\ RxDelivery(e, t, n).retries = e.retries
    BY ReceptionEvent
  <2> QED BY <2>1, <2>2, <2>3, <2>4
<1>6. Len(order) \in Nat /\ DOMAIN rx = 1 .. Len(order)
  BY <1>3
<1> HIDE DEF rx
<1>7. rx \in Seq(Event) /\ Len(rx) = Len(order)
  BY <1>5, <1>6 DEF rx
<1>8. first \in Seq(Event) /\ Len(first) = 1 /\ first[1] = TxEnd(e, end)
  BY NewEvents
<1> HIDE DEF first
<1>9. events = first \o rx
  BY DEF first, rx, Sent
<1>10. Members(first) = {TxEnd(e, end)} /\ AllApart(first)
  BY <1>8 DEF Members, AllApart
<1>11. \A d \in Members(rx) : /\ d.frame = e.frame /\ d.type = "RxDelivery" /\ d.priority = 3
                              /\ end <= d.time /\ d.dst \in told /\ d.retries = e.retries
  BY <1>5, <1>7 DEF Members
<1>12. AllApart(rx)
  <2> SUFFICES ASSUME NEW i \in 1 .. Len(rx), NEW k \in 1 .. Len(rx), i # k
               PROVE  Apart(rx[i], rx[k])
    BY DEF AllApart
  <2>1. order[i] # order[k]
    BY <1>2, <1>3, <1>7
  <2>2. rx[i].dst # rx[k].dst /\ rx[i].type = "RxDelivery"
    BY <1>5, <1>7, <2>1
  <2> QED BY <2>2 DEF Apart, Waits
<1>13. AllApart(events)
  <2>1. \A d \in Members(first) : \A x \in Members(rx) : Apart(d, x) /\ Apart(x, d)
    <3>1. TxEnd(e, end).type = "TxEnd"
      BY NewEvents
    <3> QED BY <1>10, <1>11, <3>1 DEF Apart, Waits
  <2> QED BY <1>7, <1>8, <1>9, <1>10, <1>12, <2>1, JoinedApart
<1>14. events \in Seq(Event) /\ Members(events) = {TxEnd(e, end)} \cup Members(rx)
  <2>1. first \o rx \in Seq(Event) /\ Members(first \o rx) = Members(first) \cup Members(rx)
    BY <1>7, <1>8, Joined, JoinedMembers
  <2> QED BY <1>9, <1>10, <2>1
<1>15. \A d \in Members(events) : OneOf(d, e, end, told)
  BY <1>10, <1>11, <1>14 DEF OneOf
<1> QED BY <1>10, <1>13, <1>14, <1>15

-----------------------------------------------------------------------------
(* Types.                                                                  *)

LEMMA CollidedKeepsTypes ==
    ASSUME NEW map, NEW hit
    PROVE  /\ DOMAIN CollidedIn(map, hit) = DOMAIN map
           /\ map \in [DOMAIN map -> Transmission]
                => CollidedIn(map, hit) \in [DOMAIN map -> Transmission]
           /\ map \in [DOMAIN map -> Delivery]
                => CollidedIn(map, hit) \in [DOMAIN map -> Delivery]
BY DEF CollidedIn, Transmission, Delivery

LEMMA UpdatedKeepsTypes ==
    ASSUME NEW state \in Delivery, NEW end
    PROVE  Updated(state, end) \in Delivery
<1>1. /\ state.pending - 1 \in Int
  BY DEF Delivery
<1>2. /\ (state.any_delivered \/ end = "delivered") \in BOOLEAN
      /\ (state.any_per_drop \/ end = "per_drop") \in BOOLEAN
      /\ state.collided \in BOOLEAN
  BY Zenon DEF Delivery
<1> QED BY <1>1, <1>2, Zenon DEF Delivery, Updated

LEMMA HeardOne ==
    ASSUME Typed, NEW e \in Event, e.type = "RxDelivery", NEW end, NEW after,
           after = [heard EXCEPT ![e.frame] = With(@, e.dst, end)]
    PROVE  /\ e.frame \in Frames /\ e.dst \in NodeIds
           /\ DOMAIN after = Frames
           /\ \A f \in Frames : f # e.frame => after[f] = heard[f]
           /\ DOMAIN after[e.frame] = DOMAIN heard[e.frame] \cup {e.dst}
           /\ after[e.frame][e.dst] = end
           /\ \A n \in DOMAIN heard[e.frame] : n # e.dst => after[e.frame][n] = heard[e.frame][n]
           /\ \A f \in Frames : DOMAIN after[f] \subseteq NodeIds
<1>1. e.frame \in Frames /\ e.dst \in NodeIds
  BY DEF Event
<1>2. PICK one : one = With(heard[e.frame], e.dst, end)
  OBVIOUS
<1>3. after[e.frame] = one /\ DOMAIN after = Frames
      /\ \A f \in Frames : f # e.frame => after[f] = heard[f]
  BY <1>1, <1>2 DEF Typed, HistoriesTyped
<1>4. /\ DOMAIN one = DOMAIN heard[e.frame] \cup {e.dst} /\ one[e.dst] = end
      /\ \A n \in DOMAIN heard[e.frame] : n # e.dst => one[n] = heard[e.frame][n]
  BY <1>2 DEF With
<1> QED BY <1>1, <1>3, <1>4 DEF Typed, HistoriesTyped

(* What executeTxStartEvent does when the frame goes on air.               *)
GoneOnAir(e, end, hit, new) ==
    /\ event_queue' \in Seq(Event)
    /\ Members(event_queue') = Members(Tail(event_queue)) \cup new
    /\ Ordered(Tail(event_queue)) => Ordered(event_queue')
    /\ AllApart(Tail(event_queue)) /\ (\A d \in Members(Tail(event_queue)) : d.frame # e.frame)
          => AllApart(event_queue')
    /\ TxEnd(e, end) \in new
    /\ \A d \in new :
          \/ d = TxEnd(e, end)
          \/ /\ d.frame = e.frame /\ d.type = "RxDelivery" /\ d.priority = 3
             /\ end <= d.time /\ d.dst \in NodeIds /\ d.retries = e.retries
    /\ active' = With(CollidedIn(active, hit), e.frame,
                     [start |-> e.time, end |-> end, collided |-> hit # {}])
    /\ busy_until' = IF end > busy_until THEN end ELSE busy_until
    /\ air' = [air EXCEPT ![e.frame] = [start |-> e.time, end |-> end]]
    /\ \/ /\ delivery' = CollidedIn(delivery, hit)
          /\ metrics' = [metrics EXCEPT !.collision = @ + (IF hit # {} THEN 1 ELSE 0)]
          /\ failures' = failures + 1
       \/ /\ \E told \in SUBSET NodeIds :
                /\ told # {}
                /\ delivery' = With(CollidedIn(delivery, hit), e.frame,
                       [pending |-> Cardinality(told), any_delivered |-> FALSE,
                        any_per_drop |-> FALSE, collided |-> hit # {}])
          /\ metrics' = metrics /\ failures' = failures

LEMMA GoesOnAir ==
    ASSUME Typed, NEW e, TxStartOnAir(e)
    PROVE  \E end \in Nat, hit \in SUBSET Frames, new \in SUBSET Event :
              /\ end = e.time + Airtime[e.frame] /\ e.time < end
              /\ hit = Overlapped(e.time, end)
              /\ GoneOnAir(e, end, hit, new)
<1>1. e \in Event /\ e.frame \in Frames /\ e.time \in Nat /\ Tail(event_queue) \in Seq(Event)
  BY PopDue DEF TxStartOnAir
<1>2. PICK end \in Nat : end = e.time + Airtime[e.frame]
  BY <1>1, Parameters
<1>3. end \in Nat /\ e.time < end
  BY <1>1, <1>2, Parameters
<1>4. PICK hit \in SUBSET Frames : hit = Overlapped(e.time, end)
  BY DEF Overlapped, Typed, ActiveTyped
<1>5. PICK told : told = Recipients(e)
  OBVIOUS
<1>6. told \in SUBSET NodeIds
  BY <1>5 DEF Recipients, Typed, ClockTyped
<1>7. TxEnd(e, end) \in Event /\ TxEnd(e, end).frame = e.frame
  BY <1>1, <1>3, NewEvents
<1>8. /\ active' = With(CollidedIn(active, hit), e.frame,
                        [start |-> e.time, end |-> end, collided |-> hit # {}])
      /\ busy_until' = IF end > busy_until THEN end ELSE busy_until
      /\ air' = [air EXCEPT ![e.frame] = [start |-> e.time, end |-> end]]
  BY <1>2, <1>4 DEF TxStartOnAir
<1>9. CASE /\ delivery' = CollidedIn(delivery, hit)
           /\ metrics' = [metrics EXCEPT !.collision = @ + (IF hit # {} THEN 1 ELSE 0)]
           /\ Failed
           /\ event_queue' = Pushed(Tail(event_queue), TxEnd(e, end))
  <2>1. PICK d \in Event : d = TxEnd(e, end) /\ d.frame = e.frame
    BY <1>7
  <2>2. /\ event_queue' \in Seq(Event)
        /\ Members(event_queue') = Members(Tail(event_queue)) \cup {d}
        /\ Ordered(Tail(event_queue)) => Ordered(event_queue')
    BY <1>1, <1>9, <2>1, PushOne
  <2>3. ASSUME AllApart(Tail(event_queue)), \A x \in Members(Tail(event_queue)) : x.frame # e.frame
        PROVE  AllApart(event_queue')
    <3>1. \A x \in Members(Tail(event_queue)) : Apart(x, d) /\ Apart(d, x)
      BY <2>1, <2>3 DEF Apart
    <3> QED BY <1>1, <1>9, <2>1, <2>3, <3>1, PushOneApart
  <2>4. failures' = failures + 1
    BY <1>9 DEF Failed
  <2>5. GoneOnAir(e, end, hit, {d})
    BY <1>8, <1>9, <2>1, <2>2, <2>3, <2>4 DEF GoneOnAir
  <2> WITNESS end \in Nat, hit \in SUBSET Frames, {d} \in SUBSET Event
  <2> QED BY <1>2, <1>3, <1>4, <2>5
<1>10. CASE /\ told # {}
            /\ delivery' = With(CollidedIn(delivery, hit), e.frame,
                      [pending |-> Cardinality(told), any_delivered |-> FALSE,
                       any_per_drop |-> FALSE, collided |-> hit # {}])
            /\ \E order \in Orders(told), delay \in [told -> Delays] :
                  event_queue' = PushedAll(Tail(event_queue),
                      <<TxEnd(e, end)>> \o
                        [i \in 1 .. Len(order) |->
                            RxDelivery(e, end + delay[order[i]], order[i])])
            /\ UNCHANGED <<metrics, failures>>
  <2>1. PICK order \in Orders(told), delay \in [told -> Delays] :
           event_queue' = PushedAll(Tail(event_queue), Sent(e, end, order, delay))
    BY <1>10 DEF Sent
  <2>2. PICK events : events = Sent(e, end, order, delay)
    OBVIOUS
  <2>3. /\ events \in Seq(Event) /\ AllApart(events) /\ TxEnd(e, end) \in Members(events)
        /\ \A d \in Members(events) : OneOf(d, e, end, told)
    BY <1>1, <1>3, <1>6, <2>1, <2>2, Receptions
  <2>4. event_queue' = PushedAll(Tail(event_queue), events)
    BY <2>1, <2>2
  <2>5. /\ event_queue' \in Seq(Event)
        /\ Members(event_queue') = Members(Tail(event_queue)) \cup Members(events)
        /\ Ordered(event_queue')
    BY <1>1, <2>3, <2>4, PushMany
  <2>6. ASSUME AllApart(Tail(event_queue)), \A x \in Members(Tail(event_queue)) : x.frame # e.frame
        PROVE  AllApart(event_queue')
    <3>1. \A x \in Members(Tail(event_queue)) : \A d \in Members(events) : Apart(x, d) /\ Apart(d, x)
      BY <1>7, <2>3, <2>6 DEF OneOf, Apart
    <3> QED BY <1>1, <2>3, <2>4, <2>6, <3>1, PushManyApart
  <2>7. Members(events) \in SUBSET Event
    BY <2>3 DEF Members
  <2>8. \A d \in Members(events) : d = TxEnd(e, end) \/
           /\ d.frame = e.frame /\ d.type = "RxDelivery" /\ d.priority = 3
           /\ end <= d.time /\ d.dst \in NodeIds /\ d.retries = e.retries
    BY <1>6, <2>3 DEF OneOf
  <2>9. GoneOnAir(e, end, hit, Members(events))
    <3>1. \E some \in SUBSET NodeIds :
             /\ some # {}
             /\ delivery' = With(CollidedIn(delivery, hit), e.frame,
                    [pending |-> Cardinality(some), any_delivered |-> FALSE,
                     any_per_drop |-> FALSE, collided |-> hit # {}])
      <4>1. told \in SUBSET NodeIds
        BY <1>6
      <4> WITNESS told \in SUBSET NodeIds
      <4> QED BY <1>10
    <3>2. metrics' = metrics /\ failures' = failures
      BY <1>10
    <3> QED BY <1>8, <2>3, <2>5, <2>6, <2>8, <3>1, <3>2 DEF GoneOnAir
  <2> WITNESS end \in Nat, hit \in SUBSET Frames, Members(events) \in SUBSET Event
  <2> QED BY <1>2, <1>3, <1>4, <2>9
<1> QED BY <1>2, <1>4, <1>5, <1>9, <1>10 DEF TxStartOnAir

LEMMA InitTyped == Init => Typed
<1> SUFFICES ASSUME Init PROVE Typed
  OBVIOUS
<1>1. /\ event_queue = <<>> /\ active = <<>> /\ delivery = <<>>
      /\ call = [f \in Frames |-> [pc |-> "new", time |-> 0]]
      /\ now_us = 0 /\ horizon = Idle /\ nodes = NodeIds
      /\ cw_state = [n \in NodeIds |-> CwMin] /\ busy_until = 0
      /\ metrics = NoMetrics /\ failures = 0
      /\ air = [f \in Frames |-> Silence] /\ heard = [f \in Frames |-> <<>>] /\ resets = 0
  BY DEF Init
<1>2. DOMAIN (<<>>) = {}
  OBVIOUS
<1>3. CallsTyped /\ QueueTyped
  BY <1>1 DEF CallsTyped, QueueTyped
<1>4. ClockTyped /\ WindowTyped
  BY <1>1, Parameters DEF ClockTyped, WindowTyped, Idle
<1>5. ActiveTyped /\ DeliveryTyped
  BY <1>1, <1>2 DEF ActiveTyped, DeliveryTyped
<1>6. CountsTyped /\ HistoriesTyped
  BY <1>1, <1>2 DEF CountsTyped, HistoriesTyped, NoMetrics, Silence
<1> QED BY <1>3, <1>4, <1>5, <1>6 DEF Typed

LEMMA Untouched ==
    ASSUME Typed
    PROVE  /\ UNCHANGED call => CallsTyped'
           /\ UNCHANGED event_queue => QueueTyped'
           /\ UNCHANGED <<now_us, horizon, nodes, resets>> => ClockTyped'
           /\ UNCHANGED cw_state => WindowTyped'
           /\ UNCHANGED <<busy_until, active>> => ActiveTyped'
           /\ UNCHANGED delivery => DeliveryTyped'
           /\ UNCHANGED <<metrics, failures>> => CountsTyped'
           /\ UNCHANGED <<air, heard>> => HistoriesTyped'
BY DEF Typed, CallsTyped, QueueTyped, ClockTyped, WindowTyped, ActiveTyped, DeliveryTyped,
       CountsTyped, HistoriesTyped

LEMMA PoppedTyped ==
    ASSUME Typed, NEW e, NEW type, Popped(e, type)
    PROVE  /\ CallsTyped' /\ ClockTyped'
           /\ event_queue' = Tail(event_queue) => QueueTyped'
<1>1. CallsTyped'
  BY PopDue, Untouched
<1>2. ClockTyped'
  BY PopDue DEF Typed, ClockTyped
<1> QED BY <1>1, <1>2, PopDue DEF QueueTyped

LEMMA OnAirTyped ==
    ASSUME Typed, NEW e, TxStartOnAir(e)
    PROVE  Typed'
<1>1. PICK end \in Nat, hit \in SUBSET Frames, new \in SUBSET Event : GoneOnAir(e, end, hit, new)
  BY GoesOnAir
<1>2. e \in Event /\ e.frame \in Frames /\ e.time \in Nat
  BY PopDue DEF TxStartOnAir
<1>3. (hit # {}) \in BOOLEAN
  OBVIOUS
<1>4. ActiveTyped'
  <2>1. PICK one : one = CollidedIn(active, hit)
    OBVIOUS
  <2>2. DOMAIN one = DOMAIN active /\ one \in [DOMAIN active -> Transmission]
    BY <2>1, CollidedKeepsTypes DEF Typed, ActiveTyped
  <2>3. PICK t : t = [start |-> e.time, end |-> end, collided |-> hit # {}]
    OBVIOUS
  <2>4. t \in Transmission
    BY <1>2, <1>3, <2>3, Zenon DEF Transmission
  <2>5. active' = With(one, e.frame, t)
    BY <1>1, <2>1, <2>3 DEF GoneOnAir
  <2>6. busy_until' \in Nat
    BY <1>1 DEF GoneOnAir, Typed, ActiveTyped
  <2> QED BY <1>2, <2>2, <2>4, <2>5, <2>6 DEF With, Typed, ActiveTyped
<1>5. DeliveryTyped'
  <2>1. PICK one : one = CollidedIn(delivery, hit)
    OBVIOUS
  <2>2. DOMAIN one = DOMAIN delivery /\ one \in [DOMAIN delivery -> Delivery]
    BY <2>1, CollidedKeepsTypes DEF Typed, DeliveryTyped
  <2>3. ASSUME NEW told \in SUBSET NodeIds
        PROVE  [pending |-> Cardinality(told), any_delivered |-> FALSE,
                any_per_drop |-> FALSE, collided |-> hit # {}] \in Delivery
    <3>1. Cardinality(told) \in Int
      BY Parameters, FS_Subset, FS_CardinalityType
    <3> QED BY <1>3, <3>1, Zenon DEF Delivery
  <2>4. CASE delivery' = one
    BY <2>2, <2>4 DEF Typed, DeliveryTyped
  <2>5. ASSUME NEW d \in Delivery, delivery' = With(one, e.frame, d)
        PROVE  DeliveryTyped'
    BY <1>2, <2>2, <2>5 DEF With, Typed, DeliveryTyped
  <2> QED BY <1>1, <2>1, <2>3, <2>4, <2>5 DEF GoneOnAir
<1>6. CountsTyped'
  <2>1. \/ metrics' = [metrics EXCEPT !.collision = @ + (IF hit # {} THEN 1 ELSE 0)]
           /\ failures' = failures + 1
        \/ metrics' = metrics /\ failures' = failures
    BY <1>1 DEF GoneOnAir
  <2> QED BY <2>1 DEF Typed, CountsTyped
<1>7. HistoriesTyped'
  <2>1. air' = [air EXCEPT ![e.frame] = [start |-> e.time, end |-> end]] /\ heard' = heard
    BY <1>1 DEF GoneOnAir, TxStartOnAir
  <2> QED BY <1>2, <2>1 DEF Typed, HistoriesTyped
<1>8. WindowTyped'
  BY Parameters DEF TxStartOnAir, Typed, WindowTyped
<1>9. QueueTyped'
  BY <1>1 DEF GoneOnAir, QueueTyped
<1> QED BY <1>4, <1>5, <1>6, <1>7, <1>8, <1>9, PoppedTyped DEF TxStartOnAir, Typed

LEMMA DeferredEvent ==
    ASSUME Typed, NEW e, TxStartDefer(e)
    PROVE  \E d \in Event : /\ event_queue' = Pushed(Tail(event_queue), d)
                           /\ d.frame = e.frame /\ d.type = "RetryBackoff" /\ d.priority = 1
                           /\ d.retries = e.retries + 1
<1>1. PICK cw : cw = Least(CwMax, 2 * cw_state[Source[e.frame]] + 1)
  OBVIOUS
<1>2. e \in Event /\ e.frame \in Frames
  BY PopDue DEF TxStartDefer
<1>3. cw \in Nat
  <2>1. cw_state[Source[e.frame]] \in Nat
    BY <1>2, Parameters DEF Typed, WindowTyped
  <2> QED BY <1>1, <2>1, Parameters DEF Least
<1>4. PICK slots \in 0 .. cw :
         event_queue' = Pushed(Tail(event_queue),
             RetryBackoff(e, busy_until + Difs + slots * SlotTime))
  BY <1>1 DEF TxStartDefer
<1>5. busy_until + Difs + slots * SlotTime \in Nat
  <2>1. \A x, y \in Nat : x * y \in Nat
    OBVIOUS
  <2>2. slots \in Nat /\ SlotTime \in Nat /\ Difs \in Nat /\ busy_until \in Nat
    BY <1>3, Parameters DEF Typed, ActiveTyped
  <2>3. PICK wait \in Nat : wait = slots * SlotTime
    BY <2>1, <2>2
  <2> QED BY <2>2, <2>3
<1> QED BY <1>2, <1>4, <1>5, NewEvents

LEMMA DeferredTyped ==
    ASSUME Typed, NEW e, TxStartDefer(e)
    PROVE  Typed'
<1>1. e.frame \in Frames /\ Tail(event_queue) \in Seq(Event)
  BY PopDue DEF TxStartDefer
<1>2. QueueTyped'
  BY <1>1, DeferredEvent, PushOne DEF QueueTyped
<1>3. WindowTyped'
  <2>1. Source[e.frame] \in NodeIds /\ cw_state[Source[e.frame]] \in Nat
    BY <1>1, Parameters DEF Typed, WindowTyped
  <2> QED BY <2>1, Parameters DEF TxStartDefer, Least, Typed, WindowTyped
<1> QED BY <1>2, <1>3, PoppedTyped, Untouched DEF TxStartDefer, Typed, histories

LEMMA DeliveredTyped ==
    ASSUME Typed, NEW e, Deliver(e)
    PROVE  Typed'
<1>1. e \in Event /\ e.type = "RxDelivery" /\ e.frame \in DOMAIN delivery
  BY PopDue DEF Deliver
<1>2. PICK end, state :
         /\ state = Updated(delivery[e.frame], end)
         /\ heard' = [heard EXCEPT ![e.frame] = With(@, e.dst, end)]
         /\ IF state.pending = 0
            THEN Finalized(state) /\ delivery' = Without(delivery, e.frame)
            ELSE /\ delivery' = [delivery EXCEPT ![e.frame] = state]
                 /\ UNCHANGED <<metrics, failures>>
  BY DEF Deliver
<1>3. PICK after : after = [heard EXCEPT ![e.frame] = With(@, e.dst, end)]
  OBVIOUS
<1>4. /\ DOMAIN after = Frames
      /\ \A f \in Frames : DOMAIN after[f] \subseteq NodeIds
  BY <1>1, <1>3, HeardOne
<1>5. HistoriesTyped'
  BY <1>2, <1>3, <1>4 DEF Deliver, Typed, HistoriesTyped
<1>6. state \in Delivery
  BY <1>1, <1>2, UpdatedKeepsTypes DEF Typed, DeliveryTyped
<1>7. DeliveryTyped' /\ CountsTyped'
  <2>1. CASE state.pending = 0
    <3>1. DeliveryTyped'
      BY <1>2, <2>1 DEF Without, Typed, DeliveryTyped
    <3>2. CountsTyped'
      BY <1>2, <2>1 DEF Finalized, Typed, CountsTyped
    <3> QED BY <3>1, <3>2
  <2>2. CASE state.pending # 0
    BY <1>1, <1>2, <1>6, <2>2 DEF Typed, DeliveryTyped, CountsTyped
  <2> QED BY <2>1, <2>2
<1> QED BY <1>5, <1>7, PoppedTyped, Untouched DEF Deliver, Typed

LEMMA StepsTyped == Typed /\ [Next]_vars => Typed'
<1> SUFFICES ASSUME Typed, [Next]_vars PROVE Typed'
  OBVIOUS
<1> USE DEF channel, histories
<1>1. ASSUME NEW f \in Frames, Stamp(f) PROVE Typed'
  <2>1. CallsTyped'
    BY <1>1 DEF Stamp, Typed, CallsTyped, ClockTyped
  <2>2. CountsTyped'
    BY <1>1 DEF Stamp, Typed, CountsTyped
  <2> QED BY <1>1, <2>1, <2>2, Untouched DEF Stamp, Typed
<1>2. ASSUME NEW f \in Frames, Submit(f) PROVE Typed'
  <2>1. PICK e : e = TxStart(f, call[f].time)
    OBVIOUS
  <2>2. e \in Event
    BY <2>1, StartEvent DEF Typed, CallsTyped
  <2>3. QueueTyped'
    BY <1>2, <2>1, <2>2, PushOne DEF Submit, Typed, QueueTyped
  <2>4. CallsTyped'
    BY <1>2 DEF Submit, Typed, CallsTyped
  <2> QED BY <1>2, <2>3, <2>4, Untouched DEF Submit, Typed
<1>3. ASSUME NEW until \in Horizons, BeginStep(until) PROVE Typed'
  <2>1. ClockTyped'
    BY <1>3, Parameters DEF BeginStep, Typed, ClockTyped
  <2> QED BY <1>3, <2>1, Untouched DEF BeginStep, Typed
<1>4. CASE EndStep
  <2>1. ClockTyped'
    BY <1>4 DEF EndStep, Typed, ClockTyped, Idle
  <2> QED BY <1>4, <2>1, Untouched DEF EndStep, Typed
<1>5. ASSUME NEW n \in Leavers, Register(n) \/ Unregister(n) PROVE Typed'
  <2>1. n \in NodeIds
    BY NetworkAssumption DEF NetworkAssumption
  <2>2. ClockTyped'
    BY <1>5, <2>1 DEF Register, Unregister, Typed, ClockTyped
  <2>3. WindowTyped'
    BY <1>5, <2>1, Parameters DEF Register, Unregister, Typed, WindowTyped
  <2> QED BY <1>5, <2>2, <2>3, Untouched DEF Register, Unregister, Typed
<1>6. CASE ResetMetrics
  <2>1. DOMAIN (<<>>) = {}
    OBVIOUS
  <2>2. ClockTyped' /\ WindowTyped'
    BY <1>6, Parameters DEF ResetMetrics, Typed, ClockTyped, WindowTyped
  <2>3. ActiveTyped' /\ DeliveryTyped'
    BY <1>6, <2>1 DEF ResetMetrics, Typed, ClockTyped, ActiveTyped, DeliveryTyped
  <2>4. CountsTyped'
    BY <1>6 DEF ResetMetrics, CountsTyped, NoMetrics
  <2> QED BY <1>6, <2>2, <2>3, <2>4, Untouched DEF ResetMetrics, Typed
<1>7. CASE UNCHANGED vars
  BY <1>7, Untouched DEF vars, Typed
<1>8. CASE ProcessEvent
  <2>e. PICK e : e = Head(event_queue)
    OBVIOUS
  <2>1. CASE TxStartOrphan(e) \/ TxStartGiveUp(e)
    <3>1. CountsTyped'
      BY <2>1 DEF TxStartOrphan, TxStartGiveUp, Failed, Typed, CountsTyped
    <3> QED BY <2>1, <3>1, PoppedTyped, Untouched DEF TxStartOrphan, TxStartGiveUp, Typed
  <2>2. CASE EndBackoff(e)
    <3>1. e \in Event /\ Tail(event_queue) \in Seq(Event)
      BY <2>2, PopDue DEF EndBackoff
    <3>2. PICK d : d = [e EXCEPT !.type = "TxStart"]
      OBVIOUS
    <3>3. d \in Event
      BY <3>1, <3>2 DEF Event, EventTypes
    <3>4. event_queue' = Pushed(Tail(event_queue), d)
      BY <2>2, <3>2 DEF EndBackoff
    <3>5. QueueTyped'
      BY <3>1, <3>3, <3>4, PushOne DEF QueueTyped
    <3> QED BY <2>2, <3>5, PoppedTyped, Untouched DEF EndBackoff, Typed
  <2>3. CASE EndTransmission(e)
    <3>1. e.time \in Nat
      BY <2>3, PopDue DEF EndTransmission
    <3>2. ActiveTyped'
      BY <2>3, <3>1 DEF EndTransmission, Without, Typed, ActiveTyped
    <3> QED BY <2>3, <3>2, PoppedTyped, Untouched DEF EndTransmission, Typed
  <2>4. CASE DeliverForgotten(e)
    <3>1. e \in Event /\ e.type = "RxDelivery"
      BY <2>4, PopDue DEF DeliverForgotten
    <3>2. PICK after : after = [heard EXCEPT ![e.frame] = With(@, e.dst, "forgotten")]
      OBVIOUS
    <3>3. /\ DOMAIN after = Frames
          /\ \A f \in Frames : DOMAIN after[f] \subseteq NodeIds
      BY <3>1, <3>2, HeardOne
    <3>4. HistoriesTyped'
      BY <2>4, <3>2, <3>3 DEF DeliverForgotten, Typed, HistoriesTyped
    <3> QED BY <2>4, <3>4, PoppedTyped, Untouched DEF DeliverForgotten, Typed
  <2> QED BY <1>8, <2>e, <2>1, <2>2, <2>3, <2>4, DeferredTyped, OnAirTyped, DeliveredTyped
      DEF ProcessEvent
<1> QED BY <1>1, <1>2, <1>3, <1>4, <1>5, <1>6, <1>7, <1>8 DEF Next

THEOREM ChannelTyped == Spec => []Typed
BY InitTyped, StepsTyped, PTL DEF Spec

-----------------------------------------------------------------------------
(* Without the collision model: the channel counts as busy for as long as  *)
(* any frame is on the air, so that the next one starts after it.          *)

Clear ==
    resets = 0 =>
        /\ \A f \in Frames : air[f].end <= busy_until
        /\ ~CollisionModel => \A f, g \in Frames : f # g => ~Overlap(f, g)

(* Who touches the air.                                                    *)
LEMMA AirSteps ==
    ASSUME Typed, [Next]_vars
    PROVE  \/ UNCHANGED <<air, busy_until, resets>>
           \/ resets' # 0
           \/ \E e : EndTransmission(e)
           \/ \E e : TxStartOnAir(e)
<1>1. CASE ResetMetrics
  BY <1>1 DEF ResetMetrics, Typed, ClockTyped
<1>2. CASE ProcessEvent
  <2>e. PICK e : e = Head(event_queue)
    OBVIOUS
  <2> QED BY <1>2, <2>e DEF ProcessEvent, TxStartOrphan, TxStartGiveUp, TxStartDefer, EndBackoff,
             DeliverForgotten, Deliver, Popped, channel, histories
<1> QED BY <1>1, <1>2 DEF Next, Stamp, Submit, BeginStep, EndStep, Register, Unregister,
           vars, channel, histories

LEMMA StaysClear ==
    ASSUME Typed, Clear, [Next]_vars
    PROVE  Clear'
<1>1. CASE UNCHANGED <<air, busy_until, resets>>
  BY <1>1 DEF Clear, Overlap
<1>2. CASE resets' # 0
  BY <1>2 DEF Clear
<1>3. ASSUME NEW e, EndTransmission(e) PROVE Clear'
  <2>1. e.time \in Nat /\ resets' = resets /\ air' = air
        /\ busy_until' = IF e.time >= busy_until THEN e.time ELSE busy_until
    BY <1>3, PopDue DEF EndTransmission, histories
  <2>2. busy_until \in Nat /\ \A f \in Frames : air[f].end \in Nat
    BY DEF Typed, ActiveTyped, HistoriesTyped
  <2> QED BY <2>1, <2>2 DEF Clear, Overlap
<1>4. ASSUME NEW e, TxStartOnAir(e) PROVE Clear'
  <2>1. PICK end \in Nat : /\ e.time < end
                           /\ busy_until' = IF end > busy_until THEN end ELSE busy_until
                           /\ air' = [air EXCEPT ![e.frame] = [start |-> e.time, end |-> end]]
    BY <1>4, GoesOnAir DEF GoneOnAir
  <2>2. /\ e.frame \in Frames /\ e.time \in Nat /\ resets' = resets
        /\ busy_until \in Nat /\ \A f \in Frames : air[f].end \in Nat /\ air[f].start \in Nat
    BY <1>4, PopDue DEF TxStartOnAir, Typed, ActiveTyped, HistoriesTyped
  <2>3. \A f \in Frames : f # e.frame => air'[f] = air[f]
    BY <2>1 DEF Typed, HistoriesTyped
  <2>4. air'[e.frame] = [start |-> e.time, end |-> end]
    BY <2>1, <2>2 DEF Typed, HistoriesTyped
  <2>5. ASSUME resets' = 0, NEW f \in Frames PROVE air'[f].end <= busy_until'
    BY <2>1, <2>2, <2>3, <2>4, <2>5 DEF Clear
  <2>6. ASSUME resets' = 0, ~CollisionModel PROVE e.time >= busy_until
    BY <1>4, <2>2, <2>6 DEF TxStartOnAir, ChannelBusy, CollisionStart
  <2>7. ASSUME resets' = 0, ~CollisionModel, NEW f \in Frames, NEW g \in Frames, f # g
        PROVE  ~(air'[f].start < air'[g].end /\ air'[g].start < air'[f].end)
    <3>1. air[f].end <= busy_until /\ air[g].end <= busy_until /\ ~Overlap(f, g)
      BY <2>2, <2>7 DEF Clear
    <3>2. CASE f = e.frame
      BY <2>2, <2>3, <2>4, <2>6, <2>7, <3>1, <3>2
    <3>3. CASE g = e.frame
      BY <2>2, <2>3, <2>4, <2>6, <2>7, <3>1, <3>3
    <3> QED BY <2>3, <3>1, <3>2, <3>3 DEF Overlap
  <2> QED BY <2>5, <2>7 DEF Clear, Overlap
<1> QED BY <1>1, <1>2, <1>3, <1>4, AirSteps

(* Carrier sense: whatever the order in which node threads stamp and       *)
(* submit, and however late a start comes to the queue, no two frames are  *)
(* on the air at once, until resetMetrics forgets who is.                  *)
THEOREM OneOnTheAir == Spec => []ChannelExclusive
<1>1. Init => Clear
  <2> SUFFICES ASSUME Init PROVE Clear
    OBVIOUS
  <2>1. busy_until = 0 /\ \A f \in Frames : air[f] = Silence
    BY DEF Init
  <2> QED BY <2>1 DEF Clear, Overlap, Silence
<1>2. Typed /\ Clear /\ [Next]_vars => Clear'
  BY StaysClear
<1>3. Clear => ChannelExclusive
  BY DEF Clear, ChannelExclusive
<1> QED BY <1>1, <1>2, <1>3, InitTyped, StepsTyped, PTL DEF Spec

-----------------------------------------------------------------------------
(* The life of a frame: one attempt at a time, then one transmission, and  *)
(* one reception at each node.                                             *)

Unsent(f) ==
    /\ f \notin DOMAIN active /\ f \notin DOMAIN delivery
    /\ DOMAIN heard[f] = {} /\ air[f] = Silence

LifeOf(e) ==
    /\ call[e.frame].pc = "submitted"
    /\ Waits(e) => Unsent(e.frame)
    /\ e.type = "RxDelivery" => e.dst \notin DOMAIN heard[e.frame]

Life ==
    /\ AllApart(event_queue)
    /\ \A e \in Members(event_queue) : LifeOf(e)
    /\ \A f \in Frames : call[f].pc # "submitted" => Unsent(f)

(* What the head leaves behind.                                            *)
LEMMA BehindHead ==
    ASSUME Typed, Life, NEW e, NEW type, Popped(e, type)
    PROVE  /\ AllApart(Tail(event_queue))
           /\ LifeOf(e)
           /\ \A d \in Members(Tail(event_queue)) :
                 LifeOf(d) /\ d.frame \in Frames /\ Apart(d, e) /\ Apart(e, d)
<1>1. /\ event_queue \in Seq(Event) /\ event_queue # <<>> /\ e = Head(event_queue)
      /\ Members(event_queue) = {e} \cup Members(Tail(event_queue))
      /\ Tail(event_queue) \in Seq(Event)
  BY PopDue
<1>2. /\ AllApart(Tail(event_queue))
      /\ \A d \in Members(Tail(event_queue)) : Apart(d, e) /\ Apart(e, d)
  BY <1>1, PopApart DEF Life
<1>3. \A d \in Members(Tail(event_queue)) : d.frame \in Frames
  <2>1. \A d \in Members(Tail(event_queue)) : d \in Event
    BY <1>1 DEF Members
  <2> QED BY <2>1 DEF Event
<1> QED BY <1>1, <1>2, <1>3 DEF Life

LEMMA SubmittedLife ==
    ASSUME Typed, Life, NEW f \in Frames, Submit(f)
    PROVE  Life'
<1>1. PICK e \in Event : e = TxStart(f, call[f].time) /\ e.frame = f /\ e.type = "TxStart"
  BY StartEvent DEF Typed, CallsTyped
<1>2. event_queue \in Seq(Event) /\ event_queue' = Pushed(event_queue, e)
  BY <1>1 DEF Submit, Typed, QueueTyped
<1>3. Members(event_queue') = Members(event_queue) \cup {e}
  BY <1>1, <1>2, PushOne
<1>4. \A d \in Members(event_queue) : LifeOf(d) /\ d.frame # f /\ d.frame \in Frames
  <2>1. \A d \in Members(event_queue) : d \in Event
    BY <1>2 DEF Members
  <2> QED BY <2>1 DEF Life, LifeOf, Submit, Event
<1>5. AllApart(event_queue')
  BY <1>1, <1>2, <1>4, PushOneApart DEF Apart, Life
<1>6. Unsent(f)
  BY DEF Submit, Life
<1>7. /\ UNCHANGED <<active, delivery, heard, air>>
      /\ \A g \in Frames : g # f => call'[g] = call[g]
      /\ call'[f].pc = "submitted"
  BY DEF Submit, Typed, CallsTyped, channel, histories
<1>8. ASSUME NEW d \in Members(event_queue') PROVE LifeOf(d)'
  <2>1. CASE d = e
    BY <1>1, <1>6, <1>7, <2>1 DEF LifeOf, Unsent, Waits
  <2>2. CASE d \in Members(event_queue)
    BY <1>4, <1>7, <2>2 DEF LifeOf, Unsent
  <2> QED BY <1>3, <2>1, <2>2
<1>9. ASSUME NEW g \in Frames, call'[g].pc # "submitted" PROVE Unsent(g)'
  BY <1>7, <1>9 DEF Life, Unsent
<1> QED BY <1>5, <1>8, <1>9 DEF Life

(* The head waits again, or waits no more.                                 *)
LEMMA WaitingLife ==
    ASSUME Typed, Life, NEW e, NEW type, Popped(e, type), Waits(e),
           UNCHANGED <<active, delivery, heard, air>>,
           \/ event_queue' = Tail(event_queue)
           \/ \E d \in Event : /\ event_queue' = Pushed(Tail(event_queue), d)
                              /\ d.frame = e.frame /\ Waits(d)
    PROVE  Life'
<1>1. /\ e.frame \in Frames /\ Tail(event_queue) \in Seq(Event) /\ call' = call
  BY PopDue
<1>2. /\ AllApart(Tail(event_queue)) /\ LifeOf(e)
      /\ \A d \in Members(Tail(event_queue)) : LifeOf(d) /\ d.frame \in Frames /\ Apart(e, d)
  BY BehindHead
<1>3. \A d \in Members(Tail(event_queue)) : d.frame # e.frame
  BY <1>2 DEF Apart
<1>4. ASSUME NEW d, LifeOf(d) PROVE LifeOf(d)'
  BY <1>1, <1>4 DEF LifeOf, Unsent
<1>5. ASSUME NEW f \in Frames, call'[f].pc # "submitted" PROVE Unsent(f)'
  BY <1>1, <1>5 DEF Life, Unsent
<1>6. CASE event_queue' = Tail(event_queue)
  BY <1>2, <1>4, <1>5, <1>6 DEF Life
<1>7. ASSUME NEW d \in Event, event_queue' = Pushed(Tail(event_queue), d),
             d.frame = e.frame, Waits(d)
      PROVE  Life'
  <2>1. Members(event_queue') = Members(Tail(event_queue)) \cup {d}
    BY <1>1, <1>7, PushOne
  <2>2. AllApart(event_queue')
    BY <1>1, <1>2, <1>3, <1>7, PushOneApart DEF Apart
  <2>3. LifeOf(d)
    BY <1>2, <1>7 DEF LifeOf, Waits
  <2> QED BY <1>2, <1>4, <1>5, <2>1, <2>2, <2>3 DEF Life
<1> QED BY <1>6, <1>7

LEMMA SentLife ==
    ASSUME Typed, Life, NEW e, TxStartOnAir(e)
    PROVE  Life'
<1>1. /\ e \in Event /\ e.frame \in Frames /\ Waits(e) /\ call' = call
      /\ heard' = heard
  BY PopDue DEF TxStartOnAir, Waits
<1>2. /\ AllApart(Tail(event_queue)) /\ LifeOf(e) /\ Unsent(e.frame)
      /\ \A d \in Members(Tail(event_queue)) : LifeOf(d) /\ d.frame \in Frames /\ Apart(e, d)
  BY <1>1, BehindHead DEF TxStartOnAir, LifeOf
<1>3. \A d \in Members(Tail(event_queue)) : d.frame # e.frame
  BY <1>1, <1>2 DEF Apart
<1>4. PICK end \in Nat, hit \in SUBSET Frames, new \in SUBSET Event : GoneOnAir(e, end, hit, new)
  BY GoesOnAir
<1>5. /\ AllApart(event_queue')
      /\ Members(event_queue') = Members(Tail(event_queue)) \cup new
      /\ \A d \in new : d.frame = e.frame /\ d.type \in {"TxEnd", "RxDelivery"}
  BY <1>1, <1>2, <1>3, <1>4, NewEvents DEF GoneOnAir
<1>6. ASSUME NEW f \in Frames, f # e.frame, Unsent(f) PROVE Unsent(f)'
  <2>1. f \notin DOMAIN active' /\ f \notin DOMAIN delivery'
    BY <1>4, <1>6, CollidedKeepsTypes DEF GoneOnAir, With, Unsent
  <2>2. air'[f] = air[f]
    BY <1>4, <1>6 DEF GoneOnAir, Typed, HistoriesTyped
  <2> QED BY <1>1, <1>6, <2>1, <2>2 DEF Unsent
<1>7. ASSUME NEW d \in Members(event_queue') PROVE LifeOf(d)'
  <2>1. CASE d \in new
    BY <1>1, <1>2, <1>5, <2>1 DEF LifeOf, Unsent, Waits
  <2>2. CASE d \in Members(Tail(event_queue))
    BY <1>1, <1>2, <1>3, <1>6, <2>2 DEF LifeOf
  <2> QED BY <1>5, <2>1, <2>2
<1>8. ASSUME NEW f \in Frames, call'[f].pc # "submitted" PROVE Unsent(f)'
  BY <1>1, <1>2, <1>6, <1>8 DEF Life, LifeOf
<1> QED BY <1>5, <1>7, <1>8 DEF Life

(* A reception, or the end of a transmission.                              *)
LEMMA ReceivedLife ==
    ASSUME Typed, Life, NEW e, NEW type, Popped(e, type), ~Waits(e),
           event_queue' = Tail(event_queue), UNCHANGED air,
           DOMAIN active' \subseteq DOMAIN active, DOMAIN delivery' \subseteq DOMAIN delivery,
           \/ UNCHANGED heard
           \/ /\ e.type = "RxDelivery"
              /\ \E end : heard' = [heard EXCEPT ![e.frame] = With(@, e.dst, end)]
    PROVE  Life'
<1>1. e \in Event /\ e.frame \in Frames /\ call' = call
  BY PopDue
<1>2. /\ AllApart(Tail(event_queue)) /\ LifeOf(e)
      /\ \A d \in Members(Tail(event_queue)) :
            LifeOf(d) /\ d.frame \in Frames /\ Apart(d, e) /\ Apart(e, d)
  BY BehindHead
<1>3. /\ \A f \in Frames : f # e.frame => heard'[f] = heard[f]
      /\ \/ heard' = heard
         \/ e.type = "RxDelivery" /\ DOMAIN heard'[e.frame] = DOMAIN heard[e.frame] \cup {e.dst}
  <2>1. ASSUME NEW end, e.type = "RxDelivery",
               heard' = [heard EXCEPT ![e.frame] = With(@, e.dst, end)]
        PROVE  /\ \A f \in Frames : f # e.frame => heard'[f] = heard[f]
               /\ DOMAIN heard'[e.frame] = DOMAIN heard[e.frame] \cup {e.dst}
    <3>1. PICK after : after = [heard EXCEPT ![e.frame] = With(@, e.dst, end)]
      OBVIOUS
    <3>2. /\ \A f \in Frames : f # e.frame => after[f] = heard[f]
          /\ DOMAIN after[e.frame] = DOMAIN heard[e.frame] \cup {e.dst}
      BY <1>1, <3>1 DEF With, Typed, HistoriesTyped
    <3> QED BY <2>1, <3>1, <3>2
  <2> QED BY <2>1
<1>5. ASSUME NEW f \in Frames, f # e.frame, Unsent(f) PROVE Unsent(f)'
  BY <1>3, <1>5 DEF Unsent
<1>6. ASSUME NEW d \in Members(Tail(event_queue)) PROVE LifeOf(d)'
  <2>1. LifeOf(d) /\ d.frame \in Frames /\ Apart(d, e) /\ Apart(e, d)
    BY <1>2
  <2>2. CASE d.frame # e.frame
    BY <1>1, <1>3, <1>5, <2>1, <2>2 DEF LifeOf
  <2>3. CASE d.frame = e.frame
    BY <1>1, <1>3, <2>1, <2>3 DEF LifeOf, Apart
  <2> QED BY <2>2, <2>3
<1>7. ASSUME NEW f \in Frames, call'[f].pc # "submitted" PROVE Unsent(f)'
  BY <1>1, <1>2, <1>5, <1>7 DEF Life, LifeOf
<1> QED BY <1>2, <1>6, <1>7 DEF Life

LEMMA StaysAlive ==
    ASSUME Typed, Life, [Next]_vars
    PROVE  Life'
<1> USE DEF channel, histories
<1>1. ASSUME NEW f \in Frames, Stamp(f) PROVE Life'
  <2>1. /\ UNCHANGED <<event_queue, active, delivery, heard, air>>
        /\ \A g \in Frames : g # f => call'[g] = call[g]
        /\ call[f].pc = "new" /\ Unsent(f)
    BY <1>1 DEF Stamp, Typed, CallsTyped, Life
  <2>2. \A d \in Members(event_queue) : d.frame \in Frames
    <3>1. \A d \in Members(event_queue) : d \in Event
      BY DEF Typed, QueueTyped, Members
    <3> QED BY <3>1 DEF Event
  <2>3. ASSUME NEW d \in Members(event_queue) PROVE LifeOf(d)'
    BY <2>1, <2>2 DEF Life, LifeOf, Unsent
  <2>4. ASSUME NEW g \in Frames, call'[g].pc # "submitted" PROVE Unsent(g)'
    BY <2>1, <2>4 DEF Life, Unsent
  <2> QED BY <2>1, <2>3, <2>4 DEF Life
<1>2. ASSUME NEW f \in Frames, Submit(f) PROVE Life'
  BY <1>2, SubmittedLife
<1>3. CASE ResetMetrics
  <2>1. /\ UNCHANGED <<call, event_queue, heard, air>>
        /\ DOMAIN active' = {} /\ DOMAIN delivery' = {}
    BY <1>3 DEF ResetMetrics
  <2>2. ASSUME NEW f, Unsent(f) PROVE Unsent(f)'
    BY <2>1, <2>2 DEF Unsent
  <2>3. ASSUME NEW d, LifeOf(d) PROVE LifeOf(d)'
    BY <2>1, <2>2, <2>3 DEF LifeOf
  <2> QED BY <2>1, <2>2, <2>3 DEF Life
<1>4. CASE UNCHANGED <<call, event_queue, active, delivery, heard, air>>
  BY <1>4 DEF Life, LifeOf, Unsent
<1>5. CASE ProcessEvent
  <2>e. PICK e : e = Head(event_queue)
    OBVIOUS
  <2>1. CASE TxStartOrphan(e) \/ TxStartGiveUp(e)
    <3>1. Waits(e) /\ Popped(e, "TxStart")
      BY <2>1 DEF TxStartOrphan, TxStartGiveUp, Popped, Waits
    <3> QED BY <2>1, <3>1, WaitingLife DEF TxStartOrphan, TxStartGiveUp
  <2>2. CASE TxStartDefer(e)
    <3>1. Waits(e) /\ Popped(e, "TxStart")
      BY <2>2 DEF TxStartDefer, Popped, Waits
    <3>2. PICK d \in Event : /\ event_queue' = Pushed(Tail(event_queue), d)
                            /\ d.frame = e.frame /\ d.type = "RetryBackoff"
      BY <2>2, DeferredEvent
    <3> QED BY <2>2, <3>1, <3>2, WaitingLife DEF TxStartDefer, Waits
  <2>3. CASE EndBackoff(e)
    <3>1. Waits(e) /\ Popped(e, "RetryBackoff") /\ e \in Event
      BY <2>3, PopDue DEF EndBackoff, Popped, Waits
    <3>2. PICK d : d = [e EXCEPT !.type = "TxStart"]
      OBVIOUS
    <3>3. d \in Event /\ d.frame = e.frame /\ Waits(d)
      BY <3>1, <3>2 DEF Event, EventTypes, Waits
    <3>4. event_queue' = Pushed(Tail(event_queue), d)
      BY <2>3, <3>2 DEF EndBackoff
    <3> QED BY <2>3, <3>1, <3>3, <3>4, WaitingLife DEF EndBackoff
  <2>4. CASE TxStartOnAir(e)
    BY <2>4, SentLife
  <2>5. CASE EndTransmission(e)
    <3>1. ~Waits(e) /\ Popped(e, "TxEnd")
      BY <2>5 DEF EndTransmission, Popped, Waits
    <3>2. DOMAIN active' \subseteq DOMAIN active
      BY <2>5 DEF EndTransmission, Without
    <3> QED BY <2>5, <3>1, <3>2, ReceivedLife DEF EndTransmission
  <2>6. CASE DeliverForgotten(e)
    <3>1. ~Waits(e) /\ e.type = "RxDelivery" /\ Popped(e, "RxDelivery")
      BY <2>6 DEF DeliverForgotten, Popped, Waits
    <3> QED BY <2>6, <3>1, ReceivedLife DEF DeliverForgotten
  <2>7. CASE Deliver(e)
    <3>1. ~Waits(e) /\ e.type = "RxDelivery" /\ Popped(e, "RxDelivery")
      BY <2>7 DEF Deliver, Popped, Waits
    <3>2. DOMAIN delivery' \subseteq DOMAIN delivery
      BY <2>7 DEF Deliver, Without
    <3>3. \E end : heard' = [heard EXCEPT ![e.frame] = With(@, e.dst, end)]
      BY <2>7 DEF Deliver
    <3> QED BY <2>7, <3>1, <3>2, <3>3, ReceivedLife DEF Deliver
  <2> QED BY <1>5, <2>e, <2>1, <2>2, <2>3, <2>4, <2>5, <2>6, <2>7 DEF ProcessEvent
<1> QED BY <1>1, <1>2, <1>3, <1>4, <1>5 DEF Next, BeginStep, EndStep, Register, Unregister, vars

LEMMA InitAlive == Init => Life
<1> SUFFICES ASSUME Init PROVE Life
  OBVIOUS
<1>1. event_queue = <<>> /\ active = <<>> /\ delivery = <<>>
      /\ \A f \in Frames : air[f] = Silence /\ heard[f] = <<>>
  BY DEF Init
<1>2. DOMAIN (<<>>) = {} /\ Len(<<>>) = 0
  OBVIOUS
<1> QED BY <1>1, <1>2 DEF Life, AllApart, Members, Unsent

(* A frame waits as one attempt at most, is unsent for as long as it does, *)
(* and is received once at each node, across all resets.                   *)
THEOREM SentOnce == Spec => []Life
BY InitTyped, StepsTyped, InitAlive, StaysAlive, PTL DEF Spec

-----------------------------------------------------------------------------
(* With the collision model: who can be on the air together.               *)

Lost(f) ==
    /\ ~GotThrough(f)
    /\ f \in DOMAIN delivery => delivery[f].collided

(* The end of a transmission leaves the queue first of what is due when it *)
(* is; a reception is not due before.                                      *)
EventInOrder(e) ==
    /\ e.type = "TxEnd" <=> e.priority = 0
    /\ e.type = "RxDelivery" => air[e.frame].end <= e.time

(* A frame on the air has an end to come, and was heard by nobody; what    *)
(* was on the air since it started had started with it.                    *)
StillSending(f) ==
    /\ active[f].start = air[f].start /\ active[f].end = air[f].end
    /\ air[f].start < air[f].end
    /\ DOMAIN heard[f] = {}
    /\ \E e \in Members(event_queue) : e.type = "TxEnd" /\ e.frame = f /\ e.time = air[f].end
    /\ \A g \in Frames : air[f].start < air[g].end => air[g].start = air[f].start

OnAir ==
    /\ Ordered(event_queue)
    /\ \A e \in Members(event_queue) : EventInOrder(e)
    /\ \A f \in DOMAIN active : StillSending(f)
    /\ \A f \in Frames : air[f].end <= busy_until
    /\ \A f, g \in Frames : f # g /\ Overlap(f, g) => Lost(f) /\ Lost(g)

(* The head is due before the end of everything that is on the air, unless *)
(* it is itself such an end.                                               *)
LEMMA HeadComesFirst ==
    ASSUME Typed, OnAir, NEW e, NEW type, Popped(e, type), type # "TxEnd",
           NEW f \in DOMAIN active
    PROVE  /\ e.time < air[f].end
           /\ \E d \in Members(Tail(event_queue)) :
                 d.type = "TxEnd" /\ d.frame = f /\ d.time = air[f].end
<1>1. /\ event_queue \in Seq(Event) /\ event_queue # <<>> /\ e = Head(event_queue)
      /\ e \in Event /\ e \in Members(event_queue) /\ e.type = type
      /\ Members(event_queue) = {e} \cup Members(Tail(event_queue))
      /\ Tail(event_queue) \in Seq(Event)
  BY PopDue
<1>2. PICK d \in Members(event_queue) : d.type = "TxEnd" /\ d.frame = f /\ d.time = air[f].end
  BY DEF OnAir, StillSending
<1>3. d \in Members(Tail(event_queue))
  BY <1>1, <1>2
<1>4. ~Precedes(d, e)
  BY <1>1, <1>3, PoppedMembers DEF OnAir
<1>5. d.priority = 0 /\ e.priority # 0
  BY <1>1, <1>2 DEF OnAir, EventInOrder
<1>6. d.time \in Nat /\ e.time \in Nat /\ e.priority \in Nat
  <2>1. d \in Event
    BY <1>1, <1>3 DEF Members
  <2> QED BY <1>1, <2>1 DEF Event
<1>7. e.time < d.time
  BY <1>4, <1>5, <1>6 DEF Precedes
<1> QED BY <1>2, <1>3, <1>7

(* Nothing changes on the air; an event is pushed or popped.               *)
LEMMA QuietOnAir ==
    ASSUME Typed, OnAir, UNCHANGED <<active, air, heard, delivery, busy_until>>,
           Ordered(event_queue'),
           \A d \in Members(event_queue') : EventInOrder(d),
           \A d \in Members(event_queue) : d.type = "TxEnd" => d \in Members(event_queue')
    PROVE  OnAir'
<1>1. ASSUME NEW d \in Members(event_queue') PROVE EventInOrder(d)'
  BY <1>1 DEF EventInOrder
<1>2. ASSUME NEW f \in DOMAIN active PROVE StillSending(f)'
  BY <1>2 DEF OnAir, StillSending
<1>3. \A f, g \in Frames : f # g /\ (Overlap(f, g))' => (Lost(f))' /\ (Lost(g))'
  BY DEF OnAir, Overlap, Lost, GotThrough
<1> QED BY <1>1, <1>2, <1>3 DEF OnAir

(* A frame that is heard once more, or whose reception is settled, is not  *)
(* on the air, and stays lost if it was.                                   *)
LEMMA HeardOnAir ==
    ASSUME Typed, OnAir, NEW e, Popped(e, "RxDelivery"),
           event_queue' = Tail(event_queue), UNCHANGED <<active, air, busy_until>>,
           NEW end, heard' = [heard EXCEPT ![e.frame] = With(@, e.dst, end)],
           end = "delivered" => e.frame \in DOMAIN delivery /\ ~delivery[e.frame].collided,
           DOMAIN delivery' \subseteq DOMAIN delivery,
           \A f \in DOMAIN delivery' : delivery'[f].collided = delivery[f].collided
    PROVE  OnAir'
<1>1. /\ event_queue \in Seq(Event) /\ event_queue # <<>> /\ e = Head(event_queue)
      /\ e \in Event /\ e.frame \in Frames /\ e \in Members(event_queue)
      /\ e.type = "RxDelivery" /\ e.time \in Nat
      /\ Members(event_queue) = {e} \cup Members(Tail(event_queue))
  BY PopDue
<1>2. e.frame \notin DOMAIN active
  <2>1. air[e.frame].end <= e.time /\ air[e.frame].end \in Nat
    BY <1>1 DEF OnAir, EventInOrder, Typed, HistoriesTyped
  <2>2. ASSUME e.frame \in DOMAIN active PROVE FALSE
    <3>1. e.time < air[e.frame].end
      BY <2>2, HeadComesFirst
    <3> QED BY <1>1, <2>1, <3>1
  <2> QED BY <2>2
<1>3. /\ \A f \in Frames : f # e.frame => heard'[f] = heard[f]
      /\ DOMAIN heard'[e.frame] = DOMAIN heard[e.frame] \cup {e.dst}
      /\ heard'[e.frame][e.dst] = end
      /\ \A n \in DOMAIN heard[e.frame] : n # e.dst => heard'[e.frame][n] = heard[e.frame][n]
  BY <1>1 DEF With, Typed, HistoriesTyped
<1>4. Ordered(event_queue')
  BY <1>1, PoppedMembers DEF OnAir
<1>5. ASSUME NEW d \in Members(event_queue') PROVE EventInOrder(d)'
  BY <1>1, <1>5 DEF OnAir, EventInOrder
<1>6. ASSUME NEW f \in DOMAIN active' PROVE StillSending(f)'
  <2>1. f \in DOMAIN active /\ f # e.frame /\ f \in Frames /\ StillSending(f)
    BY <1>2, <1>6 DEF OnAir, Typed, ActiveTyped
  <2>2. \E d \in Members(event_queue') :
           d.type = "TxEnd" /\ d.frame = f /\ d.time = air[f].end
    BY <2>1, HeadComesFirst
  <2> QED BY <1>3, <2>1, <2>2 DEF StillSending
<1>7. ASSUME NEW f \in Frames, Lost(f) PROVE Lost(f)'
  <2>1. ~GotThrough(f)'
    <3>1. CASE f # e.frame
      BY <1>3, <1>7, <3>1 DEF Lost, GotThrough
    <3>2. CASE f = e.frame
      <4>1. end # "delivered"
        BY <1>7, <3>2 DEF Lost
      <4> QED BY <1>3, <1>7, <3>2, <4>1 DEF Lost, GotThrough
    <3> QED BY <3>1, <3>2
  <2> QED BY <1>7, <2>1 DEF Lost
<1>8. \A f, g \in Frames : f # g /\ (Overlap(f, g))' => (Lost(f))' /\ (Lost(g))'
  <2> TAKE f, g \in Frames
  <2> HAVE f # g /\ (Overlap(f, g))'
  <2>1. Lost(f) /\ Lost(g)
    BY DEF Overlap, OnAir
  <2> QED BY <1>7, <2>1
<1> QED BY <1>4, <1>5, <1>6, <1>8 DEF OnAir

LEMMA EndedOnAir ==
    ASSUME Typed, Life, OnAir, NEW e, EndTransmission(e)
    PROVE  OnAir'
<1>1. /\ event_queue \in Seq(Event) /\ event_queue # <<>> /\ e = Head(event_queue)
      /\ e.time \in Nat
      /\ Members(event_queue) = {e} \cup Members(Tail(event_queue))
      /\ event_queue' = Tail(event_queue)
      /\ DOMAIN active' = DOMAIN active \ {e.frame}
      /\ \A f \in DOMAIN active' : active'[f] = active[f]
      /\ busy_until' = IF e.time >= busy_until THEN e.time ELSE busy_until
      /\ UNCHANGED <<air, heard, delivery>>
  BY PopDue DEF EndTransmission, Without, histories
<1>2. Ordered(event_queue')
  BY <1>1, PoppedMembers DEF OnAir
<1>3. ASSUME NEW d \in Members(event_queue') PROVE EventInOrder(d)'
  BY <1>1, <1>3 DEF OnAir, EventInOrder
<1>4. ASSUME NEW f \in DOMAIN active' PROVE StillSending(f)'
  BY <1>1, <1>4 DEF OnAir, StillSending
<1>5. \A f \in Frames : air'[f].end <= busy_until'
  <2>1. busy_until \in Nat /\ \A f \in Frames : air[f].end \in Nat
    BY DEF Typed, ActiveTyped, HistoriesTyped
  <2> QED BY <1>1, <2>1 DEF OnAir
<1>6. \A f, g \in Frames : f # g /\ (Overlap(f, g))' => (Lost(f))' /\ (Lost(g))'
  BY <1>1 DEF OnAir, Overlap, Lost, GotThrough
<1> QED BY <1>2, <1>3, <1>4, <1>5, <1>6 DEF OnAir

(* When a frame goes on the air, what else is on it started at the same    *)
(* moment.                                                                 *)
LEMMA SentOnAir ==
    ASSUME Typed, Life, OnAir, NEW e, TxStartOnAir(e)
    PROVE  OnAir'
<1>1. /\ event_queue \in Seq(Event) /\ event_queue # <<>> /\ e = Head(event_queue)
      /\ e \in Event /\ e.frame \in Frames /\ Waits(e) /\ e.time \in Nat
      /\ Members(event_queue) = {e} \cup Members(Tail(event_queue))
      /\ heard' = heard /\ Popped(e, "TxStart") /\ ~ChannelBusy(e)
  BY PopDue DEF TxStartOnAir, Waits
<1>2. /\ Unsent(e.frame)
      /\ \A d \in Members(Tail(event_queue)) : d.frame # e.frame /\ d.frame \in Frames
  BY <1>1, BehindHead DEF LifeOf, Apart
<1>3. PICK end \in Nat, hit \in SUBSET Frames, new \in SUBSET Event :
         /\ e.time < end /\ hit = Overlapped(e.time, end) /\ GoneOnAir(e, end, hit, new)
  BY GoesOnAir
<1>4. /\ air'[e.frame].start = e.time /\ air'[e.frame].end = end
      /\ \A f \in Frames : f # e.frame => air'[f] = air[f]
      /\ busy_until' = IF end > busy_until THEN end ELSE busy_until
  BY <1>1, <1>3 DEF GoneOnAir, Typed, HistoriesTyped
<1>5. /\ DOMAIN active' = DOMAIN active \cup {e.frame}
      /\ active'[e.frame].start = e.time /\ active'[e.frame].end = end
      /\ \A f \in DOMAIN active : f # e.frame =>
            active'[f].start = active[f].start /\ active'[f].end = active[f].end
  <2>1. PICK one : one = CollidedIn(active, hit)
    OBVIOUS
  <2>2. /\ DOMAIN one = DOMAIN active
        /\ \A f \in DOMAIN active : one[f].start = active[f].start /\ one[f].end = active[f].end
    BY <2>1 DEF CollidedIn, Typed, ActiveTyped, Transmission
  <2>3. active' = With(one, e.frame, [start |-> e.time, end |-> end, collided |-> hit # {}])
    BY <1>3, <2>1 DEF GoneOnAir
  <2> QED BY <2>2, <2>3 DEF With
<1>6. /\ \A f \in DOMAIN delivery' : f # e.frame =>
            /\ f \in DOMAIN delivery
            /\ delivery'[f].collided = (delivery[f].collided \/ f \in hit)
      /\ e.frame \in DOMAIN delivery' => delivery'[e.frame].collided = (hit # {})
  <2>1. PICK one : one = CollidedIn(delivery, hit)
    OBVIOUS
  <2>2. /\ DOMAIN one = DOMAIN delivery
        /\ \A f \in DOMAIN delivery : one[f].collided = (delivery[f].collided \/ f \in hit)
    BY <2>1 DEF CollidedIn, Typed, DeliveryTyped, Delivery
  <2>3. \/ delivery' = one
        \/ \E told : delivery' = With(one, e.frame,
                    [pending |-> Cardinality(told), any_delivered |-> FALSE,
                     any_per_drop |-> FALSE, collided |-> hit # {}])
    BY <1>3, <2>1 DEF GoneOnAir
  <2> QED BY <1>2, <2>2, <2>3 DEF With, Unsent
(* Carrier sense: what is on the air, if anything, started at this moment. *)
<1>7. ASSUME NEW g \in DOMAIN active
      PROVE  /\ g \in Frames /\ g # e.frame /\ air[g].start = e.time /\ e.time < air[g].end
             /\ \E d \in Members(Tail(event_queue)) :
                    d.type = "TxEnd" /\ d.frame = g /\ d.time = air[g].end
  <2>1. /\ g \in Frames /\ g # e.frame /\ StillSending(g)
        /\ air[g].end \in Nat /\ busy_until \in Nat /\ air[g].end <= busy_until
    BY <1>2, <1>7 DEF Unsent, OnAir, Typed, ActiveTyped, HistoriesTyped
  <2>2. /\ e.time < air[g].end
        /\ \E d \in Members(Tail(event_queue)) :
              d.type = "TxEnd" /\ d.frame = g /\ d.time = air[g].end
    BY <1>1, <1>7, HeadComesFirst
  <2>3. CollisionStart(e)
    BY <1>1, <2>1, <2>2 DEF ChannelBusy
  <2>4. PICK h \in DOMAIN active : active[h].start = e.time
    BY <2>3 DEF CollisionStart
  <2>5. StillSending(h) /\ air[h].start = e.time
    BY <2>4 DEF OnAir, StillSending
  <2> QED BY <2>1, <2>2, <2>5 DEF StillSending
(* Whatever ends later than now is as old.                                 *)
<1>8. ASSUME NEW g \in Frames, g # e.frame, e.time < air[g].end
      PROVE  /\ air[g].start = e.time
             /\ hit # {}
             /\ g \in hit \/ Lost(g)
  <2>1. air[g].end \in Nat /\ busy_until \in Nat /\ air[g].end <= busy_until
    BY DEF OnAir, Typed, ActiveTyped, HistoriesTyped
  <2>2. CollisionStart(e)
    BY <1>1, <1>8, <2>1 DEF ChannelBusy
  <2>3. PICK h \in DOMAIN active : active[h].start = e.time /\ active[h].end > e.time /\ CollisionModel
    BY <2>2 DEF CollisionStart
  <2>4. StillSending(h) /\ air[h].start = e.time /\ e.time < air[h].end /\ h \in Frames
    BY <1>7, <2>3 DEF OnAir
  <2>5. air[g].start = e.time
    BY <1>8, <2>4 DEF StillSending
  <2>6. \A x \in DOMAIN active : x \in hit
    <3> TAKE x \in DOMAIN active
    <3>1. active[x].start = e.time /\ active[x].end = air[x].end /\ e.time < air[x].end
      BY <1>7 DEF OnAir, StillSending
    <3> QED BY <1>1, <1>3, <2>3, <3>1 DEF Overlapped
  <2>7. CASE g \in DOMAIN active
    BY <2>3, <2>5, <2>6, <2>7
  <2>8. CASE g \notin DOMAIN active
    <3>1. g # h /\ Overlap(g, h)
      BY <1>8, <2>3, <2>4, <2>5, <2>8 DEF Overlap
    <3>2. Lost(g)
      BY <2>4, <3>1 DEF OnAir
    <3> QED BY <2>3, <2>5, <2>6, <3>2
  <2> QED BY <2>7, <2>8
<1>9. Ordered(event_queue')
  BY <1>1, <1>3, PoppedMembers DEF GoneOnAir, OnAir
<1>10. /\ TxEnd(e, end).type = "TxEnd" /\ TxEnd(e, end).priority = 0
       /\ TxEnd(e, end).frame = e.frame /\ TxEnd(e, end).time = end
  BY DEF TxEnd
<1>11. ASSUME NEW d \in Members(event_queue') PROVE EventInOrder(d)'
  <2>1. d \in Members(Tail(event_queue)) \/ d \in new
    BY <1>3, <1>11 DEF GoneOnAir
  <2>2. CASE d \in Members(Tail(event_queue))
    BY <1>1, <1>2, <1>4, <2>2 DEF OnAir, EventInOrder
  <2>3. CASE d \in new
    <3>1. \/ d.type = "TxEnd" /\ d.priority = 0
          \/ /\ d.frame = e.frame /\ d.type = "RxDelivery" /\ d.priority = 3
             /\ end <= d.time
      BY <1>3, <1>10, <2>3 DEF GoneOnAir
    <3> QED BY <1>4, <3>1 DEF EventInOrder
  <2> QED BY <2>1, <2>2, <2>3
<1>12. ASSUME NEW f \in DOMAIN active' PROVE StillSending(f)'
  <2>1. CASE f = e.frame
    <3>1. DOMAIN heard'[f] = {}
      BY <1>1, <1>2, <2>1 DEF Unsent
    <3>2. \E d \in Members(event_queue') :
             d.type = "TxEnd" /\ d.frame = f /\ d.time = air'[f].end
      BY <1>3, <1>4, <1>10, <2>1 DEF GoneOnAir
    <3>3. \A g \in Frames : air'[f].start < air'[g].end => air'[g].start = air'[f].start
      BY <1>4, <1>8, <2>1
    <3> QED BY <1>3, <1>4, <1>5, <2>1, <3>1, <3>2, <3>3 DEF StillSending
  <2>2. CASE f # e.frame
    <3>1. /\ f \in DOMAIN active /\ f \in Frames /\ StillSending(f)
          /\ air[f].start = e.time /\ air'[f] = air[f]
      BY <1>4, <1>5, <1>7, <1>12, <2>2 DEF OnAir
    <3>2. \E d \in Members(event_queue') :
             d.type = "TxEnd" /\ d.frame = f /\ d.time = air'[f].end
      BY <1>3, <1>7, <3>1 DEF GoneOnAir
    <3>3. \A g \in Frames : air'[f].start < air'[g].end => air'[g].start = air'[f].start
      BY <1>4, <3>1 DEF StillSending
    <3>4. /\ active'[f].start = air'[f].start /\ active'[f].end = air'[f].end
          /\ air'[f].start < air'[f].end /\ DOMAIN heard'[f] = {}
      BY <1>1, <1>5, <2>2, <3>1 DEF StillSending
    <3> QED BY <3>2, <3>3, <3>4 DEF StillSending
  <2> QED BY <2>1, <2>2
<1>13. \A f \in Frames : air'[f].end <= busy_until'
  <2>1. busy_until \in Nat /\ \A f \in Frames : air[f].end \in Nat /\ air[f].end <= busy_until
    BY DEF OnAir, Typed, ActiveTyped, HistoriesTyped
  <2> QED BY <1>3, <1>4, <2>1
<1>14. ASSUME NEW f \in Frames, f # e.frame, Lost(f) \/ f \in hit PROVE Lost(f)'
  <2>1. f \in hit => f \in DOMAIN active
    BY <1>3 DEF Overlapped
  <2>2. ~GotThrough(f)
    BY <1>14, <2>1 DEF Lost, GotThrough, OnAir, StillSending
  <2> QED BY <1>1, <1>6, <1>14, <2>2 DEF Lost, GotThrough
<1>15. hit # {} => Lost(e.frame)'
  BY <1>1, <1>2, <1>6 DEF Lost, GotThrough, Unsent
<1>16. ASSUME NEW f \in Frames, NEW g \in Frames, f # g, (Overlap(f, g))'
       PROVE  (Lost(f))' /\ (Lost(g))'
  <2>1. CASE f = e.frame
    <3>1. g # e.frame /\ e.time < air[g].end
      BY <1>4, <1>16, <2>1 DEF Overlap
    <3> QED BY <1>8, <1>14, <1>15, <2>1, <3>1
  <2>2. CASE g = e.frame
    <3>1. f # e.frame /\ e.time < air[f].end
      BY <1>4, <1>16, <2>2 DEF Overlap
    <3> QED BY <1>8, <1>14, <1>15, <2>2, <3>1
  <2>3. CASE f # e.frame /\ g # e.frame
    <3>1. Overlap(f, g)
      BY <1>4, <1>16, <2>3 DEF Overlap
    <3> QED BY <1>14, <1>16, <2>3, <3>1 DEF OnAir
  <2> QED BY <2>1, <2>2, <2>3
<1> QED BY <1>9, <1>11, <1>12, <1>13, <1>16 DEF OnAir

LEMMA StaysOnAir ==
    ASSUME Typed, Life, OnAir, [Next]_vars, resets' = 0
    PROVE  OnAir'
<1> USE DEF channel, histories
<1>1. CASE UNCHANGED <<event_queue, active, air, heard, delivery, busy_until>>
  BY <1>1, QuietOnAir DEF OnAir
<1>2. ASSUME NEW f \in Frames, Submit(f) PROVE OnAir'
  <2>1. PICK e \in Event : /\ e = TxStart(f, call[f].time)
                           /\ e.type = "TxStart" /\ e.priority = 2
    <3>1. TxStart(f, call[f].time) \in Event
      BY StartEvent DEF Typed, CallsTyped
    <3> QED BY <3>1 DEF TxStart
  <2>2. event_queue' = Pushed(event_queue, e) /\ event_queue \in Seq(Event)
    BY <1>2, <2>1 DEF Submit, Typed, QueueTyped
  <2>3. /\ Members(event_queue') = Members(event_queue) \cup {e}
        /\ Ordered(event_queue')
    BY <2>1, <2>2, PushOne DEF OnAir
  <2>4. EventInOrder(e)
    BY <2>1 DEF EventInOrder
  <2>5. \A d \in Members(event_queue') : EventInOrder(d)
    BY <2>3, <2>4 DEF OnAir
  <2>6. UNCHANGED <<active, air, heard, delivery, busy_until>>
    BY <1>2 DEF Submit
  <2> QED BY <2>3, <2>5, <2>6, QuietOnAir
<1>3. CASE ResetMetrics
  BY <1>3 DEF ResetMetrics, Typed, ClockTyped
<1>4. CASE ProcessEvent
  <2>e. PICK e : e = Head(event_queue)
    OBVIOUS
  <2>h. ASSUME NEW type, Popped(e, type)
        PROVE  /\ Tail(event_queue) \in Seq(Event) /\ Ordered(Tail(event_queue))
               /\ e \in Event /\ EventInOrder(e)
               /\ \A d \in Members(Tail(event_queue)) : EventInOrder(d)
               /\ type # "TxEnd" => \A d \in Members(event_queue) :
                     d.type = "TxEnd" => d \in Members(Tail(event_queue))
    <3>1. /\ event_queue \in Seq(Event) /\ event_queue # <<>> /\ e = Head(event_queue)
          /\ e \in Event /\ e.type = type /\ Tail(event_queue) \in Seq(Event)
          /\ Members(event_queue) = {e} \cup Members(Tail(event_queue))
      BY <2>h, PopDue
    <3>2. Ordered(Tail(event_queue))
      BY <3>1, PoppedMembers DEF OnAir
    <3> QED BY <3>1, <3>2 DEF OnAir
  <2>1. CASE TxStartOrphan(e) \/ TxStartGiveUp(e)
    <3>1. /\ Popped(e, "TxStart") /\ event_queue' = Tail(event_queue)
          /\ UNCHANGED <<active, air, heard, delivery, busy_until>>
      BY <2>1 DEF TxStartOrphan, TxStartGiveUp
    <3> QED BY <2>h, <3>1, QuietOnAir
  <2>2. ASSUME NEW type, Popped(e, type), type # "TxEnd", NEW d \in Event,
               event_queue' = Pushed(Tail(event_queue), d), d.priority # 0,
               d.type \in {"TxStart", "RetryBackoff"},
               UNCHANGED <<active, air, heard, delivery, busy_until>>
        PROVE  OnAir'
    <3>1. /\ Members(event_queue') = Members(Tail(event_queue)) \cup {d}
          /\ Ordered(event_queue')
      BY <2>2, <2>h, PushOne
    <3>2. EventInOrder(d)
      BY <2>2 DEF EventInOrder
    <3> QED BY <2>2, <2>h, <3>1, <3>2, QuietOnAir
  <2>3. CASE TxStartDefer(e)
    <3>1. Popped(e, "TxStart") /\ UNCHANGED <<active, air, heard, delivery, busy_until>>
      BY <2>3 DEF TxStartDefer
    <3>2. PICK d \in Event : /\ event_queue' = Pushed(Tail(event_queue), d)
                            /\ d.type = "RetryBackoff" /\ d.priority = 1
      BY <2>3, DeferredEvent
    <3> QED BY <2>2, <3>1, <3>2
  <2>4. CASE EndBackoff(e)
    <3>1. /\ Popped(e, "RetryBackoff") /\ UNCHANGED <<active, air, heard, delivery, busy_until>>
          /\ e.type = "RetryBackoff"
      BY <2>4 DEF EndBackoff, Popped
    <3>2. PICK d : d = [e EXCEPT !.type = "TxStart"]
      OBVIOUS
    <3>3. e \in Event /\ e.priority # 0
      BY <2>h, <3>1 DEF EventInOrder
    <3>4. d \in Event /\ d.type = "TxStart" /\ d.priority # 0
      BY <3>2, <3>3 DEF Event, EventTypes
    <3>5. event_queue' = Pushed(Tail(event_queue), d)
      BY <2>4, <3>2 DEF EndBackoff
    <3> QED BY <2>2, <3>1, <3>4, <3>5
  <2>5. CASE TxStartOnAir(e)
    BY <2>5, SentOnAir
  <2>6. CASE EndTransmission(e)
    BY <2>6, EndedOnAir
  <2>7. CASE DeliverForgotten(e)
    <3>1. "forgotten" # "delivered"
      OBVIOUS
    <3> QED BY <2>7, <3>1, HeardOnAir DEF DeliverForgotten
  <2>8. CASE Deliver(e)
    <3>1. Popped(e, "RxDelivery") /\ e.frame \in DOMAIN delivery
          /\ event_queue' = Tail(event_queue) /\ UNCHANGED <<active, air, busy_until>>
      BY <2>8 DEF Deliver
    <3>2. PICK end, state :
             /\ end \in Reception(e) /\ state = Updated(delivery[e.frame], end)
             /\ heard' = [heard EXCEPT ![e.frame] = With(@, e.dst, end)]
             /\ \/ delivery' = Without(delivery, e.frame)
                \/ delivery' = [delivery EXCEPT ![e.frame] = state]
      BY <2>8 DEF Deliver
    <3>3. end = "delivered" => ~delivery[e.frame].collided
      BY <3>2 DEF Reception
    <3>4. state.collided = delivery[e.frame].collided
      BY <3>2, Zenon DEF Updated
    <3>5. /\ DOMAIN delivery' \subseteq DOMAIN delivery
          /\ \A f \in DOMAIN delivery' : delivery'[f].collided = delivery[f].collided
      BY <3>1, <3>2, <3>4 DEF Without
    <3> QED BY <3>1, <3>2, <3>3, <3>5, HeardOnAir
  <2> QED BY <1>4, <2>e, <2>1, <2>3, <2>4, <2>5, <2>6, <2>7, <2>8 DEF ProcessEvent
<1> QED BY <1>1, <1>2, <1>3, <1>4 DEF Next, Stamp, BeginStep, EndStep, Register, Unregister, vars

LEMMA NoResetBefore ==
    ASSUME Typed, [Next]_vars, resets' = 0
    PROVE  resets = 0
<1>1. CASE ResetMetrics
  BY <1>1 DEF ResetMetrics, Typed, ClockTyped
<1>2. CASE ProcessEvent
  BY <1>2 DEF ProcessEvent, TxStartOrphan, TxStartGiveUp, TxStartDefer, TxStartOnAir,
        EndBackoff, EndTransmission, DeliverForgotten, Deliver, Popped
<1> QED BY <1>1, <1>2 DEF Next, Stamp, Submit, BeginStep, EndStep, Register, Unregister, vars

(* Frames that were on the air together are lost at every receiver, though *)
(* each is marked in another event and a start may come late to the queue. *)
THEOREM CollisionsAreLost == Spec => []OverlapSilences
<1> DEFINE Inv == resets = 0 => OnAir
<1>1. Init => Inv
  <2> SUFFICES ASSUME Init PROVE OnAir
    OBVIOUS
  <2>1. /\ event_queue = <<>> /\ active = <<>> /\ busy_until = 0
        /\ \A f \in Frames : air[f] = Silence
    BY DEF Init
  <2>2. DOMAIN (<<>>) = {} /\ Len(<<>>) = 0
    OBVIOUS
  <2> QED BY <2>1, <2>2 DEF OnAir, Ordered, Members, Overlap, Silence
<1>2. Typed /\ Life /\ Inv /\ [Next]_vars => Inv'
  BY NoResetBefore, StaysOnAir
<1>3. Inv => OverlapSilences
  BY DEF OnAir, OverlapSilences, Lost
<1> QED BY <1>1, <1>2, <1>3, InitTyped, StepsTyped, InitAlive, StaysAlive, PTL DEF Spec

-----------------------------------------------------------------------------
(* The counters: each attempt is outstanding, or has been settled once.    *)

Settled == {f \in Frames \ Outstanding : GotThrough(f)}

Accounted ==
    /\ IsFiniteSet(Outstanding)
    /\ metrics.attempts = metrics.success + failures + Cardinality(Outstanding)
    /\ IsFiniteSet(Settled)
    /\ metrics.success = Cardinality(Settled)
    /\ \A f \in DOMAIN delivery : delivery[f].any_delivered <=> GotThrough(f)

(* Outstanding, by the members of the queue.                               *)
LEMMA WhoIsOutstanding ==
    ASSUME Typed, NEW f
    PROVE  f \in Outstanding <=>
              \/ f \in Frames /\ call[f].pc = "stamped"
              \/ \E e \in Members(event_queue) : Waits(e) /\ e.frame = f
              \/ f \in DOMAIN delivery
<1>1. DOMAIN event_queue = 1 .. Len(event_queue)
  BY DEF Typed, QueueTyped
<1>2. f \in Waiting <=> \E e \in Members(event_queue) : Waits(e) /\ e.frame = f
  BY <1>1 DEF Waiting, Queued, Members, Waits
<1> QED BY <1>2 DEF Outstanding

LEMMA WhoIsOutstandingNext ==
    ASSUME Typed', NEW f
    PROVE  f \in Outstanding' <=>
              \/ f \in Frames /\ call'[f].pc = "stamped"
              \/ \E e \in Members(event_queue') : Waits(e) /\ e.frame = f
              \/ f \in DOMAIN delivery'
<1>1. DOMAIN event_queue' = 1 .. Len(event_queue')
  BY DEF Typed, QueueTyped
<1>2. f \in Waiting' <=> \E e \in Members(event_queue') : Waits(e) /\ e.frame = f
  BY <1>1 DEF Waiting, Queued, Members, Waits
<1> QED BY <1>2 DEF Outstanding

(* An unsent frame has not got through.                                    *)
LEMMA UnsentIsUnheard ==
    ASSUME NEW f, Unsent(f)
    PROVE  ~GotThrough(f)
BY DEF Unsent, GotThrough

(* The counters stay as they are.                                          *)
LEMMA NothingToCount ==
    ASSUME Accounted, UNCHANGED <<metrics, failures>>, Outstanding' = Outstanding,
           \A f \in Frames \ Outstanding : GotThrough(f)' <=> GotThrough(f),
           \A f \in DOMAIN delivery' : delivery'[f].any_delivered <=> GotThrough(f)'
    PROVE  Accounted'
<1>1. Settled' = Settled
  BY DEF Settled
<1> QED BY <1>1 DEF Accounted

(* One attempt is settled, and nobody heard it.                            *)
LEMMA OneFails ==
    ASSUME Typed, Accounted, NEW f \in Outstanding, Outstanding' = Outstanding \ {f},
           metrics'.attempts = metrics.attempts, metrics'.success = metrics.success,
           failures' = failures + 1,
           ~GotThrough(f)', \A g \in Frames : g # f => (GotThrough(g)' <=> GotThrough(g)),
           \A g \in DOMAIN delivery' : delivery'[g].any_delivered <=> GotThrough(g)'
    PROVE  Accounted'
<1>1. /\ IsFiniteSet(Outstanding \ {f})
      /\ Cardinality(Outstanding \ {f}) = Cardinality(Outstanding) - 1
      /\ Cardinality(Outstanding) \in Nat
  BY FS_RemoveElement, FS_CardinalityType DEF Accounted
<1>2. Settled' = Settled
  BY DEF Settled
<1>3. metrics.success \in Nat /\ failures \in Nat /\ metrics.attempts \in Nat
  BY DEF Typed, CountsTyped
<1> QED BY <1>1, <1>2, <1>3 DEF Accounted

(* One attempt is settled, and somebody heard it.                          *)
LEMMA OneSucceeds ==
    ASSUME Typed, Accounted, NEW f \in Outstanding, f \in Frames,
           Outstanding' = Outstanding \ {f},
           metrics'.attempts = metrics.attempts, metrics'.success = metrics.success + 1,
           failures' = failures,
           GotThrough(f)', \A g \in Frames : g # f => (GotThrough(g)' <=> GotThrough(g)),
           \A g \in DOMAIN delivery' : delivery'[g].any_delivered <=> GotThrough(g)'
    PROVE  Accounted'
<1>1. /\ IsFiniteSet(Outstanding \ {f})
      /\ Cardinality(Outstanding \ {f}) = Cardinality(Outstanding) - 1
      /\ Cardinality(Outstanding) \in Nat
  BY FS_RemoveElement, FS_CardinalityType DEF Accounted
<1>2. Settled' = Settled \cup {f} /\ f \notin Settled
  BY DEF Settled
<1>3. /\ IsFiniteSet(Settled \cup {f})
      /\ Cardinality(Settled \cup {f}) = Cardinality(Settled) + 1
      /\ Cardinality(Settled) \in Nat
  BY <1>2, FS_AddElement, FS_CardinalityType DEF Accounted
<1>4. metrics.success \in Nat /\ failures \in Nat /\ metrics.attempts \in Nat
  BY DEF Typed, CountsTyped
<1> QED BY <1>1, <1>2, <1>3, <1>4 DEF Accounted

LEMMA StampedAccounted ==
    ASSUME Typed, Life, Accounted, NEW f \in Frames, Stamp(f)
    PROVE  Accounted'
<1>1. /\ UNCHANGED <<event_queue, delivery, heard, failures>>
      /\ metrics' = [metrics EXCEPT !.attempts = @ + 1]
      /\ \A g \in Frames : g # f => call'[g] = call[g]
      /\ call[f].pc = "new" /\ call'[f].pc = "stamped" /\ Unsent(f)
  BY DEF Stamp, Typed, CallsTyped, Life, channel, histories
<1>2. \A e \in Members(event_queue) : e.frame # f
  BY <1>1 DEF Life, LifeOf
<1>3. f \notin Outstanding
  BY <1>1, <1>2, WhoIsOutstanding DEF Unsent
<1>4. Outstanding' = Outstanding \cup {f}
  BY <1>1 DEF Outstanding, Waiting, Queued
<1>5. /\ IsFiniteSet(Outstanding \cup {f})
      /\ Cardinality(Outstanding \cup {f}) = Cardinality(Outstanding) + 1
      /\ Cardinality(Outstanding) \in Nat
  BY <1>3, FS_AddElement, FS_CardinalityType DEF Accounted
<1>6. \A g : GotThrough(g)' <=> GotThrough(g)
  BY <1>1 DEF GotThrough
<1>7. Settled' = Settled
  BY <1>1, <1>4, <1>6, UnsentIsUnheard DEF Settled
<1>8. /\ metrics'.attempts = metrics.attempts + 1 /\ metrics'.success = metrics.success
      /\ metrics.success \in Nat /\ failures \in Nat /\ metrics.attempts \in Nat
  BY <1>1 DEF Typed, CountsTyped
<1> QED BY <1>1, <1>4, <1>5, <1>6, <1>7, <1>8 DEF Accounted

LEMMA SubmittedAccounted ==
    ASSUME Typed, Life, Accounted, NEW f \in Frames, Submit(f)
    PROVE  Accounted'
<1>1. PICK e \in Event : e = TxStart(f, call[f].time) /\ e.frame = f /\ e.type = "TxStart"
  BY StartEvent DEF Typed, CallsTyped
<1>2. event_queue \in Seq(Event) /\ event_queue' = Pushed(event_queue, e)
  BY <1>1 DEF Submit, Typed, QueueTyped
<1>3. Members(event_queue') = Members(event_queue) \cup {e}
  BY <1>1, <1>2, PushOne
<1>4. /\ UNCHANGED <<delivery, heard, metrics, failures>>
      /\ \A g \in Frames : g # f => call'[g] = call[g]
      /\ call[f].pc = "stamped" /\ call'[f].pc = "submitted"
  BY DEF Submit, Typed, CallsTyped, channel, histories
<1>5. Typed'
  BY StepsTyped DEF Next
<1>6. \A g : g \in Outstanding' <=> g \in Outstanding
  BY <1>1, <1>3, <1>4, <1>5, WhoIsOutstanding, WhoIsOutstandingNext DEF Waits
<1>7. \A g : GotThrough(g)' <=> GotThrough(g)
  BY <1>4 DEF GotThrough
<1> QED BY <1>4, <1>6, <1>7, NothingToCount DEF Accounted

(* An attempt ends with its start.                                         *)
LEMMA FailedAccounted ==
    ASSUME Typed, Typed', Life, Accounted, NEW e, Popped(e, "TxStart"),
           \A d \in Members(event_queue') : Waits(d) => d \in Members(Tail(event_queue)),
           \A d \in Members(Tail(event_queue)) : d \in Members(event_queue'),
           DOMAIN delivery' = DOMAIN delivery,
           \A f \in DOMAIN delivery : delivery'[f].any_delivered = delivery[f].any_delivered,
           UNCHANGED heard,
           metrics'.attempts = metrics.attempts, metrics'.success = metrics.success,
           failures' = failures + 1
    PROVE  Accounted'
<1>1. /\ e.frame \in Frames /\ e.type = "TxStart" /\ Waits(e) /\ call' = call
      /\ Members(event_queue) = {e} \cup Members(Tail(event_queue))
  BY PopDue DEF Waits
<1>2. /\ Unsent(e.frame) /\ call[e.frame].pc = "submitted"
      /\ \A d \in Members(Tail(event_queue)) : d.frame # e.frame
  BY <1>1, BehindHead DEF LifeOf, Apart
<1>3. e.frame \in Outstanding
  BY <1>1, WhoIsOutstanding
<1>4. \A f : f \in Outstanding' <=> f \in Outstanding /\ f # e.frame
  BY <1>1, <1>2, WhoIsOutstanding, WhoIsOutstandingNext DEF Unsent
<1>5. \A f : GotThrough(f)' <=> GotThrough(f)
  BY DEF GotThrough
<1>6. Outstanding' = Outstanding \ {e.frame}
  BY <1>4
<1>7. ~GotThrough(e.frame)'
  BY <1>2, <1>5, UnsentIsUnheard
<1>8. \A f \in DOMAIN delivery' : delivery'[f].any_delivered <=> GotThrough(f)'
  BY <1>5 DEF Accounted
<1> QED BY <1>3, <1>5, <1>6, <1>7, <1>8, OneFails

(* An attempt waits again, or is on its way.                               *)
LEMMA OnItsWay ==
    ASSUME Typed, Typed', Life, Accounted, NEW e, NEW type, Popped(e, type), Waits(e),
           \A d \in Members(event_queue') :
              Waits(d) => d \in Members(Tail(event_queue)) \/ d.frame = e.frame,
           \A d \in Members(Tail(event_queue)) : d \in Members(event_queue'),
           \/ /\ \E d \in Members(event_queue') : Waits(d) /\ d.frame = e.frame
              /\ DOMAIN delivery' = DOMAIN delivery
           \/ DOMAIN delivery' = DOMAIN delivery \cup {e.frame},
           \A f \in DOMAIN delivery : delivery'[f].any_delivered = delivery[f].any_delivered,
           e.frame \in DOMAIN delivery' => delivery'[e.frame].any_delivered = FALSE,
           UNCHANGED <<heard, metrics, failures>>
    PROVE  Accounted'
<1>1. /\ e.frame \in Frames /\ call' = call
      /\ Members(event_queue) = {e} \cup Members(Tail(event_queue))
  BY PopDue
<1>2. Unsent(e.frame)
  BY BehindHead DEF LifeOf
<1>3. \A f : f \in Outstanding' <=> f \in Outstanding
  <2> TAKE f
  <2>1. CASE f = e.frame
    BY <1>1, <2>1, WhoIsOutstanding, WhoIsOutstandingNext
  <2>2. CASE f # e.frame
    BY <1>1, <2>2, WhoIsOutstanding, WhoIsOutstandingNext
  <2> QED BY <2>1, <2>2
<1>4. \A f : GotThrough(f)' <=> GotThrough(f)
  BY DEF GotThrough
<1>5. \A f \in DOMAIN delivery' : delivery'[f].any_delivered <=> GotThrough(f)'
  <2> TAKE f \in DOMAIN delivery'
  <2>1. CASE f \in DOMAIN delivery
    BY <1>4, <2>1 DEF Accounted
  <2>2. CASE f \notin DOMAIN delivery
    <3>1. f = e.frame
      BY <2>2
    <3>2. delivery'[f].any_delivered = FALSE
      BY <3>1
    <3> QED BY <1>2, <1>4, <3>1, <3>2, UnsentIsUnheard
  <2> QED BY <2>1, <2>2
<1>6. Outstanding' = Outstanding
  BY <1>3
<1> QED BY <1>4, <1>5, <1>6, NothingToCount

(* The end of a transmission, and a reception that settles nothing.        *)
LEMMA SettlesNothing ==
    ASSUME Typed, Typed', Life, Accounted, NEW e, NEW type, Popped(e, type), ~Waits(e),
           event_queue' = Tail(event_queue), DOMAIN delivery' = DOMAIN delivery,
           UNCHANGED <<metrics, failures>>,
           \A f \in Frames : f # e.frame \/ f \notin DOMAIN delivery
                             => (GotThrough(f)' <=> GotThrough(f)),
           \A f \in DOMAIN delivery : delivery'[f].any_delivered <=> GotThrough(f)'
    PROVE  Accounted'
<1>1. /\ e.frame \in Frames /\ call' = call
      /\ Members(event_queue) = {e} \cup Members(Tail(event_queue))
  BY PopDue
<1>2. \A f : f \in Outstanding' <=> f \in Outstanding
  BY <1>1, WhoIsOutstanding, WhoIsOutstandingNext
<1>3. \A f \in Frames \ Outstanding : GotThrough(f)' <=> GotThrough(f)
  BY WhoIsOutstanding
<1>4. Outstanding' = Outstanding
  BY <1>2
<1> QED BY <1>3, <1>4, NothingToCount

LEMMA DeliveredAccounted ==
    ASSUME Typed, Typed', Life, Accounted, NEW e, Deliver(e)
    PROVE  Accounted'
<1>1. /\ e \in Event /\ e.frame \in Frames /\ call' = call /\ e.type = "RxDelivery"
      /\ Popped(e, "RxDelivery") /\ ~Waits(e)
      /\ Members(event_queue) = {e} \cup Members(Tail(event_queue))
      /\ event_queue' = Tail(event_queue) /\ e.frame \in DOMAIN delivery
  BY PopDue DEF Deliver, Waits
<1>2. /\ e.dst \notin DOMAIN heard[e.frame] /\ call[e.frame].pc = "submitted"
      /\ \A d \in Members(Tail(event_queue)) : Waits(d) => d.frame # e.frame
  BY <1>1, BehindHead DEF LifeOf, Apart
<1>3. PICK end, state :
         /\ state = Updated(delivery[e.frame], end)
         /\ heard' = [heard EXCEPT ![e.frame] = With(@, e.dst, end)]
         /\ IF state.pending = 0
            THEN Finalized(state) /\ delivery' = Without(delivery, e.frame)
            ELSE /\ delivery' = [delivery EXCEPT ![e.frame] = state]
                 /\ UNCHANGED <<metrics, failures>>
  BY DEF Deliver
<1>4. /\ \A f \in Frames : f # e.frame => (GotThrough(f)' <=> GotThrough(f))
      /\ GotThrough(e.frame)' <=> GotThrough(e.frame) \/ end = "delivered"
  <2>1. /\ \A f \in Frames : f # e.frame => heard'[f] = heard[f]
        /\ DOMAIN heard'[e.frame] = DOMAIN heard[e.frame] \cup {e.dst}
        /\ heard'[e.frame][e.dst] = end
        /\ \A n \in DOMAIN heard[e.frame] : n # e.dst => heard'[e.frame][n] = heard[e.frame][n]
    BY <1>1, <1>3 DEF With, Typed, HistoriesTyped
  <2> QED BY <1>2, <2>1 DEF GotThrough
<1>5. state.any_delivered <=> GotThrough(e.frame)'
  <2>1. state.any_delivered <=> delivery[e.frame].any_delivered \/ end = "delivered"
    BY <1>3, Zenon DEF Updated
  <2> QED BY <1>1, <1>4, <2>1 DEF Accounted
<1>6. CASE state.pending # 0
  <2>1. /\ DOMAIN delivery' = DOMAIN delivery /\ delivery'[e.frame] = state
        /\ \A f \in DOMAIN delivery : f # e.frame => delivery'[f] = delivery[f]
        /\ metrics' = metrics /\ failures' = failures
    BY <1>1, <1>3, <1>6 DEF Typed, DeliveryTyped
  <2>2. \A f \in DOMAIN delivery : delivery'[f].any_delivered <=> GotThrough(f)'
    BY <1>4, <1>5, <2>1 DEF Accounted, Typed, DeliveryTyped
  <2> QED BY <1>1, <1>4, <2>1, <2>2, SettlesNothing
<1>7. CASE state.pending = 0
  <2>1. /\ DOMAIN delivery' = DOMAIN delivery \ {e.frame}
        /\ \A f \in DOMAIN delivery' : delivery'[f] = delivery[f]
        /\ Finalized(state)
    BY <1>3, <1>7 DEF Without
  <2>2. \A f \in DOMAIN delivery' : delivery'[f].any_delivered <=> GotThrough(f)'
    BY <1>4, <2>1 DEF Accounted, Typed, DeliveryTyped
  <2>3. \A f : f \in Outstanding' <=> f \in Outstanding /\ f # e.frame
    BY <1>1, <1>2, <2>1, WhoIsOutstanding, WhoIsOutstandingNext
  <2>4. Outstanding' = Outstanding \ {e.frame} /\ e.frame \in Outstanding
    BY <1>1, <2>3, WhoIsOutstanding
  <2>5. metrics'.attempts = metrics.attempts
    BY <2>1 DEF Finalized
  <2>6. CASE state.any_delivered
    <3>1. metrics'.success = metrics.success + 1 /\ failures' = failures
      BY <2>1, <2>6 DEF Finalized, Typed, CountsTyped
    <3> QED BY <1>1, <1>4, <1>5, <2>2, <2>4, <2>5, <2>6, <3>1, OneSucceeds
  <2>7. CASE ~state.any_delivered
    <3>1. metrics'.success = metrics.success /\ failures' = failures + 1
      BY <2>1, <2>7 DEF Finalized, Typed, CountsTyped
    <3> QED BY <1>1, <1>4, <1>5, <2>2, <2>4, <2>5, <2>7, <3>1, OneFails
  <2> QED BY <2>6, <2>7
<1> QED BY <1>6, <1>7

LEMMA SentAccounted ==
    ASSUME Typed, Typed', Life, Accounted, NEW e, TxStartOnAir(e)
    PROVE  Accounted'
<1>1. /\ e \in Event /\ e.frame \in Frames /\ Popped(e, "TxStart") /\ Waits(e)
      /\ heard' = heard
  BY PopDue DEF TxStartOnAir, Waits
<1>2. Unsent(e.frame)
  BY <1>1, BehindHead DEF LifeOf
<1>3. PICK end \in Nat, hit \in SUBSET Frames, new \in SUBSET Event : GoneOnAir(e, end, hit, new)
  BY GoesOnAir
<1>4. TxEnd(e, end).type = "TxEnd"
  BY DEF TxEnd
<1>5. /\ \A d \in Members(event_queue') : Waits(d) => d \in Members(Tail(event_queue))
      /\ \A d \in Members(Tail(event_queue)) : d \in Members(event_queue')
  BY <1>3, <1>4 DEF GoneOnAir, Waits
<1>6. PICK one : one = CollidedIn(delivery, hit)
  OBVIOUS
<1>7. /\ DOMAIN one = DOMAIN delivery
      /\ \A f \in DOMAIN delivery : one[f].any_delivered = delivery[f].any_delivered
  BY <1>6 DEF CollidedIn, Typed, DeliveryTyped, Delivery
<1>8. CASE /\ delivery' = one /\ failures' = failures + 1
           /\ metrics' = [metrics EXCEPT !.collision = @ + (IF hit # {} THEN 1 ELSE 0)]
  <2>1. metrics'.attempts = metrics.attempts /\ metrics'.success = metrics.success
    BY <1>8 DEF Typed, CountsTyped
  <2> QED BY <1>1, <1>5, <1>7, <1>8, <2>1, FailedAccounted
<1>9. ASSUME NEW told \in SUBSET NodeIds,
             delivery' = With(one, e.frame,
                 [pending |-> Cardinality(told), any_delivered |-> FALSE,
                  any_per_drop |-> FALSE, collided |-> hit # {}]),
             UNCHANGED <<metrics, failures>>
      PROVE  Accounted'
  <2>1. /\ DOMAIN delivery' = DOMAIN delivery \cup {e.frame}
        /\ delivery'[e.frame].any_delivered = FALSE
        /\ \A f \in DOMAIN delivery : delivery'[f].any_delivered = delivery[f].any_delivered
    BY <1>2, <1>7, <1>9 DEF With, Unsent
  <2> QED BY <1>1, <1>5, <1>9, <2>1, OnItsWay
<1> QED BY <1>3, <1>6, <1>8, <1>9 DEF GoneOnAir

LEMMA StaysAccounted ==
    ASSUME Typed, Life, Accounted, [Next]_vars, resets' = 0
    PROVE  Accounted'
<1> USE DEF channel, histories
<1>t. Typed'
  BY StepsTyped
<1>1. CASE UNCHANGED <<call, event_queue, delivery, heard, metrics, failures>>
  <2>1. Outstanding' = Outstanding
    BY <1>1 DEF Outstanding, Waiting, Queued
  <2>2. \A f : GotThrough(f)' <=> GotThrough(f)
    BY <1>1 DEF GotThrough
  <2> QED BY <1>1, <2>1, <2>2, NothingToCount DEF Accounted
<1>2. CASE ResetMetrics
  BY <1>2 DEF ResetMetrics, Typed, ClockTyped
<1>3. CASE ProcessEvent
  <2>e. PICK e : e = Head(event_queue)
    OBVIOUS
  <2>1. CASE TxStartOrphan(e) \/ TxStartGiveUp(e)
    <3>1. /\ Popped(e, "TxStart") /\ event_queue' = Tail(event_queue)
          /\ UNCHANGED <<delivery, heard, metrics>> /\ failures' = failures + 1
      BY <2>1 DEF TxStartOrphan, TxStartGiveUp, Failed
    <3> QED BY <1>t, <3>1, FailedAccounted
  <2>2. ASSUME NEW type, Popped(e, type), Waits(e), NEW d \in Event,
               event_queue' = Pushed(Tail(event_queue), d), d.frame = e.frame, Waits(d),
               UNCHANGED <<delivery, heard, metrics, failures>>
        PROVE  Accounted'
    <3>1. Members(event_queue') = Members(Tail(event_queue)) \cup {d}
      BY <2>2, PopDue, PushOne
    <3>2. e.frame \notin DOMAIN delivery
      BY <2>2, BehindHead DEF LifeOf, Unsent
    <3> QED BY <1>t, <2>2, <3>1, <3>2, OnItsWay
  <2>3. CASE TxStartDefer(e)
    <3>1. /\ Popped(e, "TxStart") /\ Waits(e)
          /\ UNCHANGED <<delivery, heard, metrics, failures>>
      BY <2>3 DEF TxStartDefer, Popped, Waits
    <3>2. PICK d \in Event : /\ event_queue' = Pushed(Tail(event_queue), d)
                            /\ d.frame = e.frame /\ Waits(d)
      BY <2>3, DeferredEvent DEF Waits
    <3> QED BY <2>2, <3>1, <3>2
  <2>4. CASE EndBackoff(e)
    <3>1. /\ Popped(e, "RetryBackoff") /\ Waits(e) /\ e \in Event
          /\ UNCHANGED <<delivery, heard, metrics, failures>>
      BY <2>4, PopDue DEF EndBackoff, Popped, Waits
    <3>2. PICK d : d = [e EXCEPT !.type = "TxStart"]
      OBVIOUS
    <3>3. d \in Event /\ d.frame = e.frame /\ Waits(d)
      BY <3>1, <3>2 DEF Event, EventTypes, Waits
    <3>4. event_queue' = Pushed(Tail(event_queue), d)
      BY <2>4, <3>2 DEF EndBackoff
    <3> QED BY <2>2, <3>1, <3>3, <3>4
  <2>5. CASE TxStartOnAir(e)
    BY <1>t, <2>5, SentAccounted
  <2>6. CASE EndTransmission(e)
    <3>1. /\ Popped(e, "TxEnd") /\ ~Waits(e) /\ event_queue' = Tail(event_queue)
          /\ UNCHANGED <<delivery, heard, metrics, failures>>
      BY <2>6 DEF EndTransmission, Popped, Waits
    <3>2. \A f : GotThrough(f)' <=> GotThrough(f)
      BY <3>1 DEF GotThrough
    <3>3. \A f \in DOMAIN delivery : delivery'[f].any_delivered <=> GotThrough(f)'
      BY <3>1, <3>2 DEF Accounted
    <3> QED BY <1>t, <3>1, <3>2, <3>3, SettlesNothing
  <2>7. CASE DeliverForgotten(e)
    <3>1. /\ Popped(e, "RxDelivery") /\ ~Waits(e) /\ event_queue' = Tail(event_queue)
          /\ UNCHANGED <<delivery, metrics, failures>> /\ e.frame \notin DOMAIN delivery
          /\ heard' = [heard EXCEPT ![e.frame] = With(@, e.dst, "forgotten")]
          /\ e.type = "RxDelivery"
      BY <2>7 DEF DeliverForgotten, Popped, Waits
    <3>2. e \in Event /\ e.frame \in Frames /\ e.dst \notin DOMAIN heard[e.frame]
      BY <3>1, PopDue, BehindHead DEF LifeOf
    <3>3. \A f \in Frames : GotThrough(f)' <=> GotThrough(f)
      <4>1. /\ \A f \in Frames : f # e.frame => heard'[f] = heard[f]
            /\ DOMAIN heard'[e.frame] = DOMAIN heard[e.frame] \cup {e.dst}
            /\ heard'[e.frame][e.dst] = "forgotten"
            /\ \A n \in DOMAIN heard[e.frame] :
                  n # e.dst => heard'[e.frame][n] = heard[e.frame][n]
        BY <3>1, <3>2 DEF With, Typed, HistoriesTyped
      <4> QED BY <3>2, <4>1 DEF GotThrough
    <3>4. \A f \in DOMAIN delivery : delivery'[f].any_delivered <=> GotThrough(f)'
      BY <3>1, <3>3 DEF Accounted, Typed, DeliveryTyped
    <3> QED BY <1>t, <3>1, <3>3, <3>4, SettlesNothing
  <2>8. CASE Deliver(e)
    BY <1>t, <2>8, DeliveredAccounted
  <2> QED BY <1>3, <2>e, <2>1, <2>3, <2>4, <2>5, <2>6, <2>7, <2>8 DEF ProcessEvent
<1> QED BY <1>1, <1>2, <1>3, StampedAccounted, SubmittedAccounted
    DEF Next, BeginStep, EndStep, Register, Unregister, vars

LEMMA InitAccounted == Init => Accounted
<1> SUFFICES ASSUME Init PROVE Accounted
  OBVIOUS
<1>1. /\ event_queue = <<>> /\ delivery = <<>> /\ metrics = NoMetrics /\ failures = 0
      /\ \A f \in Frames : call[f].pc = "new" /\ heard[f] = <<>>
  BY DEF Init
<1>2. DOMAIN (<<>>) = {} /\ Len(<<>>) = 0
  OBVIOUS
<1>3. Outstanding = {}
  BY <1>1, <1>2 DEF Outstanding, Waiting, Queued
<1>4. Settled = {}
  BY <1>1, <1>2 DEF Settled, GotThrough
<1>5. IsFiniteSet({}) /\ Cardinality({}) = 0
  BY FS_EmptySet
<1> QED BY <1>1, <1>2, <1>3, <1>4, <1>5 DEF Accounted, NoMetrics

LEMMA AlwaysAccounted == Spec => [](resets = 0 => Accounted)
<1> DEFINE Inv == resets = 0 => Accounted
<1>1. Init => Inv
  BY InitAccounted
<1>2. Typed /\ Life /\ Inv /\ [Next]_vars => Inv'
  BY NoResetBefore, StaysAccounted
<1> QED BY <1>1, <1>2, InitTyped, StepsTyped, InitAlive, StaysAlive, PTL DEF Spec

(* Until the counters are reset, an attempt that was counted is waiting,   *)
(* on its way, or reported once: by the receivers' last event, or by the   *)
(* start that came to nothing, while nodes come and go.                    *)
THEOREM AttemptsAreAccounted == Spec => []AttemptsAccounted
<1>1. (resets = 0 => Accounted) => AttemptsAccounted
  BY DEF Accounted, AttemptsAccounted
<1> QED BY <1>1, AlwaysAccounted, PTL

(* ... and it is a success if and only if a node heard the frame.          *)
THEOREM SuccessIsHeard == Spec => []SuccessMeansHeard
<1>1. (resets = 0 => Accounted) => SuccessMeansHeard
  BY DEF Accounted, SuccessMeansHeard, Settled
<1> QED BY <1>1, AlwaysAccounted, PTL

-----------------------------------------------------------------------------
(* What TypeOK adds to Typed: a backoff is only pushed while there are     *)
(* retries left, a window that doubles is cut off, and a state counts down *)
(* from the number of its receivers and is gone at zero.                   *)
FewRetries == \A d \in Members(event_queue) : d.retries <= MaxRetries
SmallWindows == \A n \in NodeIds : cw_state[n] <= CwMax
SomePending == \A f \in DOMAIN delivery : delivery[f].pending \in 1 .. Cardinality(NodeIds)
Bounds == FewRetries /\ SmallWindows /\ SomePending

LEMMA Limits ==
    /\ MaxRetries \in Nat /\ CwMin <= CwMax /\ Cardinality(NodeIds) \in Nat
<1>1. MaxRetries \in Nat
  BY NetworkAssumption DEF NetworkAssumption
<1>2. CwMin <= CwMax
  BY NetworkAssumption DEF NetworkAssumption, CwMax
<1>3. Cardinality(NodeIds) \in Nat
  BY Parameters, FS_CardinalityType
<1> QED BY <1>1, <1>2, <1>3

LEMMA SomeAreTold ==
    ASSUME NEW told \in SUBSET NodeIds, told # {}
    PROVE  Cardinality(told) \in 1 .. Cardinality(NodeIds)
<1>1. IsFiniteSet(told) /\ Cardinality(told) <= Cardinality(NodeIds)
  BY Parameters, FS_Subset
<1>2. Cardinality(told) \in Nat /\ Cardinality(told) # 0
  BY <1>1, FS_CardinalityType, FS_EmptySet
<1> QED BY <1>1, <1>2, Limits

LEMMA PoppedKeepsRetries ==
    ASSUME Typed, Bounds, NEW e, NEW type, Popped(e, type)
    PROVE  /\ e.retries \in 0 .. MaxRetries
           /\ \A d \in Members(Tail(event_queue)) : d.retries <= MaxRetries
<1>1. e \in Event /\ e \in Members(event_queue)
      /\ Members(event_queue) = {e} \cup Members(Tail(event_queue))
  BY PopDue
<1>2. e.retries \in Nat
  BY <1>1 DEF Event
<1> QED BY <1>1, <1>2, Limits DEF Bounds, FewRetries

(* The states of receivers still counted, when a collision marks some.     *)
LEMMA MarkedKeepsPending ==
    ASSUME Bounds, NEW hit
    PROVE  \A f \in DOMAIN CollidedIn(delivery, hit) :
              /\ f \in DOMAIN delivery
              /\ CollidedIn(delivery, hit)[f].pending \in 1 .. Cardinality(NodeIds)
BY DEF Bounds, SomePending, CollidedIn

LEMMA OnAirKeepsBounds ==
    ASSUME Typed, Bounds, NEW e, TxStartOnAir(e)
    PROVE  Bounds'
<1>1. PICK end \in Nat, hit \in SUBSET Frames, new \in SUBSET Event : GoneOnAir(e, end, hit, new)
  BY GoesOnAir
<1>2. /\ e \in Event /\ e.retries \in 0 .. MaxRetries
      /\ \A d \in Members(Tail(event_queue)) : d.retries <= MaxRetries
  BY PopDue, PoppedKeepsRetries DEF TxStartOnAir
<1>3. FewRetries'
  <2>1. Members(event_queue') = Members(Tail(event_queue)) \cup new
    BY <1>1 DEF GoneOnAir
  <2>2. \A d \in new : d = TxEnd(e, end) \/ d.retries = e.retries
    BY <1>1, Zenon DEF GoneOnAir
  <2>3. TxEnd(e, end).retries = 0
    BY <1>2, NewEvents
  <2>4. \A d \in new : d.retries <= MaxRetries
    BY <1>2, <2>2, <2>3, Limits
  <2> QED BY <1>2, <2>1, <2>4 DEF FewRetries
<1>4. SmallWindows'
  BY Limits DEF TxStartOnAir, Bounds, SmallWindows, Typed, WindowTyped
<1>5. SomePending'
  <2>1. PICK one : one = CollidedIn(delivery, hit)
    OBVIOUS
  <2>2. \A f \in DOMAIN one : one[f].pending \in 1 .. Cardinality(NodeIds)
    BY <2>1, MarkedKeepsPending
  <2>3. CASE delivery' = one
    BY <2>2, <2>3 DEF SomePending
  <2>4. ASSUME NEW d, d.pending \in 1 .. Cardinality(NodeIds),
               delivery' = With(one, e.frame, d)
        PROVE  SomePending'
    <3>1. /\ DOMAIN delivery' = DOMAIN one \cup {e.frame} /\ delivery'[e.frame] = d
          /\ \A f \in DOMAIN one : f # e.frame => delivery'[f] = one[f]
      <4>1. PICK after : after = With(one, e.frame, d)
        OBVIOUS
      <4>2. /\ DOMAIN after = DOMAIN one \cup {e.frame} /\ after[e.frame] = d
            /\ \A f \in DOMAIN one : f # e.frame => after[f] = one[f]
        BY <4>1 DEF With
      <4> QED BY <2>4, <4>1, <4>2, Zenon
    <3> QED BY <2>2, <2>4, <3>1 DEF SomePending
  <2>5. \/ delivery' = one
        \/ \E told \in SUBSET NodeIds :
              /\ told # {}
              /\ delivery' = With(one, e.frame,
                    [pending |-> Cardinality(told), any_delivered |-> FALSE,
                     any_per_drop |-> FALSE, collided |-> hit # {}])
    BY <1>1, <2>1, Zenon DEF GoneOnAir
  <2>6. CASE delivery' # one
    <3>1. PICK told \in SUBSET NodeIds :
             /\ told # {}
             /\ delivery' = With(one, e.frame,
                   [pending |-> Cardinality(told), any_delivered |-> FALSE,
                    any_per_drop |-> FALSE, collided |-> hit # {}])
      BY <2>5, <2>6
    <3>2. PICK d : d = [pending |-> Cardinality(told), any_delivered |-> FALSE,
                        any_per_drop |-> FALSE, collided |-> hit # {}]
      OBVIOUS
    <3>3. d.pending = Cardinality(told) /\ delivery' = With(one, e.frame, d)
      BY <3>1, <3>2
    <3>4. Cardinality(told) \in 1 .. Cardinality(NodeIds)
      BY <3>1, SomeAreTold
    <3> QED BY <2>4, <3>3, <3>4
  <2> QED BY <2>3, <2>6
<1> QED BY <1>3, <1>4, <1>5 DEF Bounds

LEMMA DeferKeepsBounds ==
    ASSUME Typed, Bounds, NEW e, TxStartDefer(e)
    PROVE  Bounds'
<1>1. e.frame \in Frames /\ Tail(event_queue) \in Seq(Event)
      /\ e.retries \in 0 .. MaxRetries /\ e.retries < MaxRetries
      /\ \A d \in Members(Tail(event_queue)) : d.retries <= MaxRetries
  BY PopDue, PoppedKeepsRetries DEF TxStartDefer
<1>2. FewRetries'
  <2>1. PICK d \in Event : event_queue' = Pushed(Tail(event_queue), d)
                          /\ d.retries = e.retries + 1
    BY DeferredEvent
  <2>2. Members(event_queue') = Members(Tail(event_queue)) \cup {d}
    BY <1>1, <2>1, PushOne
  <2>3. d.retries <= MaxRetries
    BY <1>1, <2>1, Limits
  <2> QED BY <1>1, <2>2, <2>3 DEF FewRetries
<1>3. SmallWindows'
  <2>1. Source[e.frame] \in NodeIds /\ cw_state[Source[e.frame]] \in Nat
    BY <1>1, Parameters DEF Typed, WindowTyped
  <2>2. PICK cw : cw = Least(CwMax, 2 * cw_state[Source[e.frame]] + 1)
    OBVIOUS
  <2>3. cw <= CwMax
    BY <2>1, <2>2, Parameters DEF Least
  <2>4. cw_state' = [cw_state EXCEPT ![Source[e.frame]] = cw]
    BY <2>2 DEF TxStartDefer
  <2> QED BY <2>1, <2>3, <2>4 DEF Bounds, SmallWindows, Typed, WindowTyped
<1>4. SomePending'
  BY DEF TxStartDefer, Bounds, SomePending
<1> QED BY <1>2, <1>3, <1>4 DEF Bounds

LEMMA DeliveryKeepsBounds ==
    ASSUME Typed, Bounds, NEW e, Deliver(e)
    PROVE  Bounds'
<1>1. e.frame \in DOMAIN delivery /\ cw_state' = cw_state /\ event_queue' = Tail(event_queue)
  BY DEF Deliver
<1>2. FewRetries'
  BY <1>1, PoppedKeepsRetries DEF Deliver, FewRetries
<1>3. SmallWindows'
  BY <1>1 DEF Bounds, SmallWindows
<1>4. SomePending'
  <2>1. PICK end, state :
           /\ state = Updated(delivery[e.frame], end)
           /\ IF state.pending = 0
              THEN Finalized(state) /\ delivery' = Without(delivery, e.frame)
              ELSE /\ delivery' = [delivery EXCEPT ![e.frame] = state]
                   /\ UNCHANGED <<metrics, failures>>
    BY DEF Deliver
  <2>2. state.pending = delivery[e.frame].pending - 1
    BY <2>1 DEF Updated
  <2>3. delivery[e.frame].pending \in 1 .. Cardinality(NodeIds)
    BY <1>1 DEF Bounds, SomePending
  <2>4. CASE state.pending = 0
    BY <2>1, <2>4 DEF Without, Bounds, SomePending
  <2>5. CASE state.pending # 0
    <3>1. delivery' = [delivery EXCEPT ![e.frame] = state]
      BY <2>1, <2>5
    <3>2. state.pending \in 1 .. Cardinality(NodeIds)
      BY <2>2, <2>3, <2>5, Limits
    <3> QED BY <1>1, <3>1, <3>2 DEF Bounds, SomePending
  <2> QED BY <2>4, <2>5
<1> QED BY <1>2, <1>3, <1>4 DEF Bounds

LEMMA StepsKeepBounds == Typed /\ Bounds /\ [Next]_vars => Bounds'
<1> SUFFICES ASSUME Typed, Bounds, [Next]_vars PROVE Bounds'
  OBVIOUS
<1>u. /\ UNCHANGED event_queue => FewRetries'
      /\ UNCHANGED cw_state => SmallWindows'
      /\ UNCHANGED delivery => SomePending'
  BY DEF Bounds, FewRetries, SmallWindows, SomePending, Members
<1> USE DEF channel, histories
<1>1. ASSUME NEW f \in Frames, Stamp(f) PROVE Bounds'
  BY <1>1, <1>u DEF Stamp, Bounds
<1>2. ASSUME NEW f \in Frames, Submit(f) PROVE Bounds'
  <2>1. PICK e : e = TxStart(f, call[f].time)
    OBVIOUS
  <2>2. e \in Event /\ e.retries = 0
    BY <2>1, StartEvent DEF Typed, CallsTyped
  <2>3. Members(event_queue') = Members(event_queue) \cup {e}
    BY <1>2, <2>1, <2>2, PushOne DEF Submit, Typed, QueueTyped
  <2>4. FewRetries'
    BY <2>2, <2>3, Limits DEF Bounds, FewRetries
  <2> QED BY <1>2, <1>u, <2>4 DEF Submit, Bounds
<1>3. ASSUME NEW until \in Horizons, BeginStep(until) PROVE Bounds'
  BY <1>3, <1>u DEF BeginStep, Bounds
<1>4. CASE EndStep
  BY <1>4, <1>u DEF EndStep, Bounds
<1>5. ASSUME NEW n \in Leavers, Register(n) \/ Unregister(n) PROVE Bounds'
  <2>1. SmallWindows'
    BY <1>5, Limits DEF Register, Unregister, Bounds, SmallWindows, Typed, WindowTyped
  <2> QED BY <1>5, <1>u, <2>1 DEF Register, Unregister, Bounds
<1>6. CASE ResetMetrics
  <2>1. DOMAIN (<<>>) = {}
    OBVIOUS
  <2>2. SmallWindows' /\ SomePending'
    BY <1>6, <2>1, Limits DEF ResetMetrics, SmallWindows, SomePending
  <2> QED BY <1>6, <1>u, <2>2 DEF ResetMetrics, Bounds
<1>7. CASE UNCHANGED vars
  BY <1>7, <1>u DEF vars, Bounds
<1>8. CASE ProcessEvent
  <2>e. PICK e : e = Head(event_queue)
    OBVIOUS
  <2>1. CASE TxStartOrphan(e) \/ TxStartGiveUp(e) \/ EndTransmission(e) \/ DeliverForgotten(e)
    <3>1. event_queue' = Tail(event_queue) /\ cw_state' = cw_state /\ \E type : Popped(e, type)
      BY <2>1 DEF TxStartOrphan, TxStartGiveUp, EndTransmission, DeliverForgotten
    <3>2. FewRetries'
      BY <3>1, PoppedKeepsRetries DEF FewRetries
    <3>3. delivery' = delivery
      BY <2>1 DEF TxStartOrphan, TxStartGiveUp, EndTransmission, DeliverForgotten
    <3> QED BY <1>u, <3>1, <3>2, <3>3 DEF Bounds
  <2>2. CASE EndBackoff(e)
    <3>1. /\ e \in Event /\ Tail(event_queue) \in Seq(Event) /\ e.retries \in 0 .. MaxRetries
          /\ \A d \in Members(Tail(event_queue)) : d.retries <= MaxRetries
      BY <2>2, PopDue, PoppedKeepsRetries DEF EndBackoff
    <3>2. PICK d : d = [e EXCEPT !.type = "TxStart"]
      OBVIOUS
    <3>3. d \in Event /\ d.retries = e.retries
      BY <3>1, <3>2 DEF Event, EventTypes
    <3>4. event_queue' = Pushed(Tail(event_queue), d)
      BY <2>2, <3>2 DEF EndBackoff
    <3>5. Members(event_queue') = Members(Tail(event_queue)) \cup {d}
      BY <3>1, <3>3, <3>4, PushOne
    <3>6. FewRetries'
      BY <3>1, <3>3, <3>5, Limits DEF FewRetries
    <3> QED BY <2>2, <1>u, <3>6 DEF EndBackoff, Bounds
  <2> QED BY <1>8, <2>e, <2>1, <2>2, DeferKeepsBounds, OnAirKeepsBounds, DeliveryKeepsBounds
      DEF ProcessEvent
<1> QED BY <1>1, <1>2, <1>3, <1>4, <1>5, <1>6, <1>7, <1>8 DEF Next

(* The channel keeps its shape: no event carries more retries than         *)
(* max_retries_ (executeTxStartEvent, executeRetryBackoffEvent), no        *)
(* contention window outgrows cw_max_, and a transmission's state is there *)
(* only while receptions are still to be counted                           *)
(* (executeDeliveryEvent).                                                 *)
THEOREM TypeCorrect == Spec => []TypeOK
<1>1. Init => Bounds
  <2> SUFFICES ASSUME Init PROVE Bounds
    OBVIOUS
  <2>1. DOMAIN (<<>>) = {} /\ Members(<<>>) = {}
    BY DEF Members
  <2> QED BY <2>1, Limits DEF Init, Bounds, FewRetries, SmallWindows, SomePending
<1>2. Typed /\ Bounds => TypeOK
  <2> SUFFICES ASSUME Typed, Bounds PROVE TypeOK
    OBVIOUS
  <2>1. \A f \in Frames : /\ call[f].pc \in {"new", "stamped", "submitted"}
                          /\ call[f].time \in Nat /\ DOMAIN heard[f] \subseteq NodeIds
    BY DEF Typed, CallsTyped, HistoriesTyped
  <2>2. \A i \in DOMAIN event_queue : event_queue[i].retries \in 0 .. MaxRetries
    <3> SUFFICES ASSUME NEW i \in DOMAIN event_queue
                 PROVE  event_queue[i].retries \in 0 .. MaxRetries
      OBVIOUS
    <3>1. event_queue[i] \in Event /\ event_queue[i] \in Members(event_queue)
      BY DEF Typed, QueueTyped, Members
    <3>2. event_queue[i].retries \in Nat /\ event_queue[i].retries <= MaxRetries
      BY <3>1 DEF Event, Bounds, FewRetries
    <3> QED BY <3>2, Limits
  <2>3. cw_state \in [NodeIds -> 0 .. CwMax]
    BY Parameters DEF Typed, WindowTyped, Bounds, SmallWindows
  <2>4. \A f \in DOMAIN delivery : delivery[f].pending \in 1 .. Cardinality(NodeIds)
    BY DEF Bounds, SomePending
  <2> QED BY <2>1, <2>2, <2>3, <2>4 DEF TypeOK, Typed, ClockTyped, ActiveTyped
<1> QED BY <1>1, <1>2, InitTyped, StepsTyped, StepsKeepBounds, PTL DEF Spec

=============================================================================
