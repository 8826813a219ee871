-------------------------------- MODULE Mesh --------------------------------
(***************************************************************************)
(* Several nodes and the messages they flood: what the network layers of   *)
(* network_manager.cpp make of one another.  Each node has its duplicate   *)
(* filter (LruCache), its verdicts (RoutingEngine) and its pool of relays  *)
(* (the code's slots; when one is sent is up to hold-back times, which     *)
(* nodes do not share, so here at any time).                               *)
(*                                                                         *)
(* One frame is worked off in one step, rxTaskLoop's body: another thread  *)
(* of the node comes between its parts in NetworkManager.  A relay taken   *)
(* to the fire buffer counts as sent, since a frame may reach a receiver   *)
(* as late as it likes.  Frames on their way, or in a receiver's rx queue, *)
(* are a bag; on a lossy channel, and when that queue is full, one of them *)
(* may be lost.  No frame is expired (RoutingEngine has the clock).        *)
(***************************************************************************)
EXTENDS Geo, FiniteSets, Bags

CONSTANTS
    Nodes,
    Place,       \* where each node is
    Earshot,     \* how far a transmission is heard
    Messages,    \* the calls of sendMessage
    Header,      \* what each sends: origin_node, priority, hops, and its scope
    Setups       \* [nodes, messages, lossy, room, queue]: who takes part, what
                 \* is sent, the channel, whether the filters have room for all
                 \* messages or for one, and how many slots there are for relays

ASSUME MeshAssumption ==
    /\ IsFiniteSet(Messages)
    /\ \A m \in Messages : Header[m].origin_node \in Nodes /\ Header[m].hops \in Nat
    /\ \A s \in Setups : s.nodes \subseteq Nodes /\ s.queue \in Nat

VARIABLES
    setup,
    cache,       \* dup_filter_ of each node
    slots,       \* active relays of each node, as the frames received
    inbox,       \* the frames each node is going to process
    sent,        \* messages sent
    delivered,   \* how often a node's application got a message, up to 2
    relayed      \* how often a node relayed it, up to 2

vars == <<setup, cache, slots, inbox, sent, delivered, relayed>>

(* Room for every message, or for one. *)
Large == INSTANCE LruCache WITH Ids <- Messages, Capacity <- Cardinality(Messages), last <- 0
Small == INSTANCE LruCache WITH Ids <- Messages, Capacity <- 1, last <- 0
Remembers(c, m) == Large!Remembers(c, m)
Touch(c, m) == IF setup.room THEN Large!Touch(c, m) ELSE Small!Touch(c, m)

Route == INSTANCE RoutingEngine WITH
            Headers <- {}, Ids <- {}, Capacity <- 1, Word <- 1, Places <- {}, Signals <- {},
            clock <- 0, result <- 0

Hears(n) == {r \in setup.nodes \ {n} : ~Beyond(Place[n], Place[r], Earshot)}

(* A frame: the message, the hops left, and who transmitted it. *)
Frame(m, hops, n) == [message |-> m, hops |-> hops, tx |-> n]

(* The fields of the received header that evaluate looks at. *)
HeaderOf(frame) ==
    [hops |-> frame.hops, origin |-> Place[Header[frame.message].origin_node],
     max_distance |-> Header[frame.message].max_distance,
     directional |-> Header[frame.message].directional,
     heading |-> Header[frame.message].heading]

Broadcast(boxes, frame) ==
    [r \in Nodes |-> IF r \in Hears(frame.tx) THEN boxes[r] (+) SetToBag({frame}) ELSE boxes[r]]

Counted(counts, n, m) == [counts EXCEPT ![n][m] = IF @ < 2 THEN @ + 1 ELSE @]

Init ==
    /\ setup \in Setups
    /\ cache = [n \in Nodes |-> Large!Empty]
    /\ slots = [n \in Nodes |-> {}]
    /\ inbox = [n \in Nodes |-> EmptyBag]
    /\ sent = {}
    /\ delivered = [n \in Nodes |-> [m \in Messages |-> 0]]
    /\ relayed = [n \in Nodes |-> [m \in Messages |-> 0]]

(* Mutant of Send: the sender does not mark its own message. *)
SendUnmarked(m) ==
    LET n == Header[m].origin_node
    IN  /\ m \in setup.messages \ sent
        /\ sent' = sent \cup {m}
        /\ inbox' = Broadcast(inbox, Frame(m, Header[m].hops, n))
        /\ UNCHANGED <<setup, cache, slots, delivered, relayed>>

(* sendMessage *)
Send(m) ==
    LET n == Header[m].origin_node
    IN  /\ m \in setup.messages \ sent
        /\ sent' = sent \cup {m}
        /\ cache' = [cache EXCEPT ![n] = Touch(@, m)]
        /\ inbox' = Broadcast(inbox, Frame(m, Header[m].hops, n))
        /\ UNCHANGED <<setup, slots, delivered, relayed>>

(* Mutant of Overtaken: any copy heard cancels. *)
OvertakenByAny(n, frame) == {s \in slots[n] : s.message = frame.message}

(* onDuplicateHeard *)
Overtaken(n, frame) ==
    {s \in slots[n] : /\ s.message = frame.message
                      /\ IsBetween(Place[Header[s.message].origin_node], Place[n], Place[frame.tx])}

(* enqueue: with no slot free, in place of a least urgent relay, if that   *)
(* is less urgent than the frame.                                          *)
Enqueued(pool, frame) ==
    LET Priority(s) == Header[s.message].priority
        worst == {s \in pool : /\ \A t \in pool : Priority(t) <= Priority(s)
                               /\ Priority(frame) < Priority(s)}
    IN  CASE Cardinality(pool) < setup.queue -> {pool \cup {frame}}
          [] worst = {} -> {pool}
          [] OTHER -> {(pool \ {s}) \cup {frame} : s \in worst}

(* rxTaskLoop: relays are cancelled by every copy, the rest is for the     *)
(* first one.                                                              *)
Receive(n, frame) ==
    LET m == frame.message
        first == ~Remembers(cache[n], m)
        pool == slots[n] \ Overtaken(n, frame)
    IN  /\ BagIn(frame, inbox[n])
        /\ inbox' = [inbox EXCEPT ![n] = @ (-) SetToBag({frame})]
        /\ cache' = [cache EXCEPT ![n] = Touch(@, m)]
        /\ delivered' = IF first THEN Counted(delivered, n, m) ELSE delivered
        /\ \E after \in IF first /\ ~Route!OutOfScope(HeaderOf(frame), Place[n])
                        THEN Enqueued(pool, frame) ELSE {pool} :
              slots' = [slots EXCEPT ![n] = after]
        /\ UNCHANGED <<setup, sent, relayed>>

(* Mutant of Relay: the frame keeps its hops. *)
RelayForEver(n, s) ==
    /\ s \in slots[n]
    /\ slots' = [slots EXCEPT ![n] = @ \ {s}]
    /\ inbox' = Broadcast(inbox, Frame(s.message, s.hops, n))
    /\ relayed' = Counted(relayed, n, s.message)
    /\ UNCHANGED <<setup, cache, sent, delivered>>

(* Mutant of Relay: a relay on its last hop is passed over, and stays.     *)
RelayPassesOver(n, s) ==
    /\ s \in slots[n] /\ s.hops > 1
    /\ slots' = [slots EXCEPT ![n] = @ \ {s}]
    /\ inbox' = Broadcast(inbox, Frame(s.message, s.hops - 1, n))
    /\ relayed' = Counted(relayed, n, s.message)
    /\ UNCHANGED <<setup, cache, sent, delivered>>

(* processTick and fireEntry *)
Relay(n, s) ==
    /\ s \in slots[n]
    /\ slots' = [slots EXCEPT ![n] = @ \ {s}]
    /\ inbox' = Broadcast(inbox, Frame(s.message, IF s.hops > 0 THEN s.hops - 1 ELSE 0, n))
    /\ relayed' = Counted(relayed, n, s.message)
    /\ UNCHANGED <<setup, cache, sent, delivered>>

Lose(n, frame) ==
    /\ setup.lossy /\ BagIn(frame, inbox[n])
    /\ inbox' = [inbox EXCEPT ![n] = @ (-) SetToBag({frame})]
    /\ UNCHANGED <<setup, cache, slots, sent, delivered, relayed>>

Work(n) ==
    \/ \E frame \in BagToSet(inbox[n]) : Receive(n, frame)
    \/ \E s \in slots[n] : Relay(n, s)

Next ==
    \/ \E m \in Messages : Send(m)
    \/ \E n \in Nodes : Work(n) \/ \E frame \in BagToSet(inbox[n]) : Lose(n, frame)

Spec == Init /\ [][Next]_vars

(* Every node goes on processing frames, and every relay is sent at last   *)
(* (both loops of the manager).                                            *)
FairSpec == Spec /\ \A n \in Nodes : WF_vars(Work(n))

-----------------------------------------------------------------------------

Roomy == setup.room /\ setup.queue >= Cardinality(Messages)
Quiet == \A n \in Nodes : inbox[n] = EmptyBag /\ slots[n] = {}

(* k transmissions lead from n to r, each heard by the node of the next.   *)
Way(n, r, k) ==
    \E w \in [0 .. k -> Nodes] :
        w[0] = n /\ w[k] = r /\ \A i \in 1 .. k : w[i] \in Hears(w[i - 1])

(* A filter without room keeps one id, a pool has as many relays as slots. *)
TypeOK ==
    /\ \A n \in Nodes : /\ cache[n].ids \subseteq Messages
                        /\ setup.room \/ Cardinality(cache[n].ids) <= 1
                        /\ Cardinality(slots[n]) <= setup.queue
                        /\ IsABag(inbox[n])
    /\ sent \subseteq Messages

(* While the filters have room, no application gets a message twice, nor   *)
(* its own, on whatever ways the copies come.                              *)
DeliveredOnce ==
    setup.room => \A n \in Nodes, m \in Messages :
        delivered[n][m] <= (IF n = Header[m].origin_node THEN 0 ELSE 1)

(* Each node sends a message on once at most; with room for few relays,    *)
(* and when frames are lost, too.                                          *)
RelayedOnce ==
    setup.room =>
        \A n \in Nodes, m \in Messages :
            relayed[n][m] <= (IF n = Header[m].origin_node THEN 0 ELSE 1)

(* While the filters have room, the flood comes to each node once: one     *)
(* delivery, one relay (routing_engine.cpp:60, network_manager.cpp:117).   *)
HandledOnce == DeliveredOnce /\ RelayedOnce

(* The hops a copy has spent are the transmissions on its way from the     *)
(* origin, so no message is heard farther off than hops_remaining + 1 of   *)
(* them (fireEntry, forwarding_queue.cpp:126-129).                         *)
HopsSpent ==
    \A n \in Nodes : \A frame \in BagToSet(inbox[n]) :
        LET h == Header[frame.message]
        IN  frame.hops <= h.hops /\ Way(h.origin_node, frame.tx, h.hops - frame.hops)

(* Every flood ends, however small the filters are and however many copies *)
(* they let through again: hops run out.                                   *)
FloodEnds == <>[]Quiet

(* Without loss, and with room and hops enough, a message reaches every    *)
(* node on the line, whichever relays are cancelled on its way.            *)
EveryoneReached ==
    \A m \in Messages :
        m \in sent /\ Roomy /\ ~setup.lossy /\ Header[m].hops >= Cardinality(Nodes) - 2
            ~> \A n \in setup.nodes \ {Header[m].origin_node} : delivered[n][m] > 0
=============================================================================
