----------------------------- MODULE MeshProofs -----------------------------
(***************************************************************************)
(* Proofs about Mesh, for any nodes, places, ranges, messages, number of   *)
(* relay slots, and channel.                                               *)
(***************************************************************************)
EXTENDS Mesh, FiniteSetTheorems, TLAPS

USE MeshAssumption

LEMMA SameCardinality == \A S : Large!Cardinality(S) = Cardinality(S)
BY DEF Large!Cardinality, Cardinality

(* A filter with room for every message forgets none.                      *)
LEMMA RoomKeepsAll ==
    ASSUME NEW c, c.ids \subseteq Messages, NEW m \in Messages
    PROVE  Large!Touch(c, m).ids = c.ids \cup {m}
<1>1. CASE m \in c.ids
  BY <1>1 DEF Large!Touch, Large!Kept, Large!Remembers
<1>2. CASE m \notin c.ids
  <2>1. IsFiniteSet(c.ids \cup {m})
        /\ Cardinality(c.ids \cup {m}) <= Cardinality(Messages)
    BY FS_Subset
  <2>2. IsFiniteSet(c.ids) /\ Cardinality(c.ids \cup {m}) = Cardinality(c.ids) + 1
    BY <1>2, FS_Subset, FS_AddElement
  <2>3. Cardinality(c.ids) \in Nat /\ Cardinality(Messages) \in Nat
    BY <2>2, FS_CardinalityType
  <2>4. Cardinality(c.ids) < Cardinality(Messages)
    BY <2>1, <2>2, <2>3
  <2> QED BY <2>4, SameCardinality DEF Large!Touch, Large!Kept, Large!Remembers
<1> QED BY <1>1, <1>2

(* Broadcasting adds one frame to the bags of those who hear it.           *)
LEMMA BroadcastAdds ==
    ASSUME NEW boxes, NEW frame
    PROVE  /\ DOMAIN Broadcast(boxes, frame) = Nodes
           /\ \A n \in Nodes : \A f \in BagToSet(Broadcast(boxes, frame)[n]) :
                f \in BagToSet(boxes[n]) \/ (f = frame /\ n \in Hears(frame.tx))
BY DEF Broadcast, BagToSet, SetToBag, (+)

(* Taking a frame out leaves others at most.                               *)
LEMMA TakingOut ==
    ASSUME NEW bag, NEW frame
    PROVE  BagToSet(bag (-) SetToBag({frame})) \subseteq BagToSet(bag)
BY DEF BagToSet, SetToBag, (-)

(* A pool that a frame was offered to holds what it did, and the frame.    *)
LEMMA EnqueuedAdds ==
    ASSUME NEW pool, NEW frame, NEW after \in Enqueued(pool, frame)
    PROVE  after \subseteq pool \cup {frame}
BY DEF Enqueued

(* One more, up to 2. *)
LEMMA CountedAdds ==
    ASSUME NEW counts \in [Nodes -> [Messages -> 0 .. 2]],
           NEW n \in Nodes, NEW m \in Messages
    PROVE  /\ Counted(counts, n, m) \in [Nodes -> [Messages -> 0 .. 2]]
           /\ counts[n][m] = 0 => Counted(counts, n, m)[n][m] = 1
           /\ \A r \in Nodes, k \in Messages :
                r # n \/ k # m => Counted(counts, n, m)[r][k] = counts[r][k]
<1> DEFINE c == IF counts[n][m] < 2 THEN counts[n][m] + 1 ELSE counts[n][m]
<1>1. counts[n] \in [Messages -> 0 .. 2] /\ counts[n][m] \in 0 .. 2
  OBVIOUS
<1>2. c \in 0 .. 2 /\ (counts[n][m] = 0 => c = 1)
  BY <1>1
<1>3. Counted(counts, n, m) = [counts EXCEPT ![n][m] = c]
  BY DEF Counted
<1> HIDE DEF c
<1> QED BY <1>1, <1>2, <1>3

(* What a received frame does to its receiver. *)
LEMMA ReceiveDoes ==
    ASSUME NEW n \in Nodes, NEW frame, Receive(n, frame),
           DOMAIN slots = Nodes, DOMAIN inbox = Nodes
    PROVE  /\ frame \in BagToSet(inbox[n])
           /\ cache' = [cache EXCEPT ![n] = Touch(@, frame.message)]
           /\ UNCHANGED <<setup, sent, relayed>>
           /\ DOMAIN inbox' = Nodes /\ DOMAIN slots' = Nodes
           /\ \A r \in Nodes : BagToSet(inbox'[r]) \subseteq BagToSet(inbox[r])
           /\ \A r \in Nodes \ {n} : slots'[r] = slots[r]
           /\ \/ /\ frame.message \in cache[n].ids
                 /\ delivered' = delivered
                 /\ slots'[n] \subseteq slots[n]
              \/ /\ frame.message \notin cache[n].ids
                 /\ delivered' = Counted(delivered, n, frame.message)
                 /\ slots'[n] \subseteq slots[n] \cup {frame}
                 /\ frame \in slots'[n] \ slots[n] => frame.hops # 0
<1> DEFINE m == frame.message
           first == ~Remembers(cache[n], m)
           pool == slots[n] \ Overtaken(n, frame)
           forward == first /\ ~Route!OutOfScope(HeaderOf(frame), Place[n])
<1>1. /\ BagIn(frame, inbox[n])
      /\ inbox' = [inbox EXCEPT ![n] = @ (-) SetToBag({frame})]
      /\ cache' = [cache EXCEPT ![n] = Touch(@, m)]
      /\ delivered' = IF first THEN Counted(delivered, n, m) ELSE delivered
      /\ UNCHANGED <<setup, sent, relayed>>
  BY DEF Receive
<1>2. PICK after \in IF forward THEN Enqueued(pool, frame) ELSE {pool} :
             slots' = [slots EXCEPT ![n] = after]
  BY DEF Receive
<1>3. \A r \in Nodes : BagToSet(inbox'[r]) \subseteq BagToSet(inbox[r])
  BY <1>1, TakingOut
<1>4. first <=> m \notin cache[n].ids
  BY DEF Remembers, Large!Remembers
<1>5. forward => frame.hops # 0
  BY DEF Route!OutOfScope, HeaderOf
<1>6. /\ ~forward => after = pool
      /\ forward => after \subseteq pool \cup {frame}
  BY <1>2, EnqueuedAdds
<1>7. pool \subseteq slots[n]
  OBVIOUS
<1>8. frame \in BagToSet(inbox[n])
  BY <1>1 DEF BagIn
<1> HIDE DEF pool, forward, m, first
<1>9. /\ slots'[n] = after
      /\ \A r \in Nodes \ {n} : slots'[r] = slots[r]
      /\ DOMAIN inbox' = Nodes /\ DOMAIN slots' = Nodes
  BY <1>1, <1>2
<1>10. CASE first
  BY <1>1, <1>3, <1>4, <1>5, <1>6, <1>7, <1>8, <1>9, <1>10 DEF m
<1>11. CASE ~first
  <2>1. ~forward
    BY <1>11 DEF forward
  <2> QED BY <1>1, <1>3, <1>4, <1>6, <1>7, <1>8, <1>9, <1>11, <2>1 DEF m
<1> QED BY <1>10, <1>11

-----------------------------------------------------------------------------

(* What the theorems need of the variables' types.                         *)
Types ==
    /\ setup \in Setups /\ sent \subseteq Messages
    /\ DOMAIN cache = Nodes /\ \A n \in Nodes : cache[n].ids \subseteq Messages
    /\ DOMAIN slots = Nodes /\ \A n \in Nodes : \A s \in slots[n] : s.message \in Messages
    /\ DOMAIN inbox = Nodes
    /\ \A n \in Nodes : \A f \in BagToSet(inbox[n]) : f.message \in Messages
    /\ delivered \in [Nodes -> [Messages -> 0 .. 2]]
    /\ relayed \in [Nodes -> [Messages -> 0 .. 2]]

(* A filter touched by a message keeps to the messages.                    *)
LEMMA TouchIsTyped ==
    ASSUME NEW c, c.ids \subseteq Messages, NEW m \in Messages
    PROVE  Touch(c, m).ids \subseteq Messages
<1>1. Large!Kept(c, m) \subseteq c.ids /\ Small!Kept(c, m) \subseteq c.ids
  BY DEF Large!Kept, Small!Kept
<1> QED BY <1>1 DEF Touch, Large!Touch, Small!Touch

LEMMA TypesHold == Spec => []Types
<1>1. Init => Types
  BY DEF Init, Types, Large!Empty, EmptyBag, SetToBag, BagToSet
<1>2. Types /\ [Next]_vars => Types'
  <2> SUFFICES ASSUME Types, [Next]_vars PROVE Types'
    OBVIOUS
  <2>1. ASSUME NEW m \in Messages, Send(m) PROVE Types'
    <3>1. Touch(cache[Header[m].origin_node], m).ids \subseteq Messages
      BY TouchIsTyped DEF Types
    <3> DEFINE frame == Frame(m, Header[m].hops, Header[m].origin_node)
    <3>2. frame.message = m
      BY DEF Frame
    <3> HIDE DEF frame
    <3>3. /\ cache' = [cache EXCEPT ![Header[m].origin_node] = Touch(@, m)]
          /\ inbox' = Broadcast(inbox, frame)
          /\ sent' = sent \cup {m}
          /\ UNCHANGED <<setup, slots, delivered, relayed>>
      BY <2>1 DEF Send, frame
    <3>6. \A r \in Nodes : \A f \in BagToSet(inbox'[r]) :
             f \in BagToSet(inbox[r]) \/ (f = frame /\ r \in Hears(frame.tx))
      BY <3>3, BroadcastAdds
    <3>4. \A n \in Nodes : \A f \in BagToSet(inbox'[n]) : f.message \in Messages
      BY <3>2, <3>6 DEF Types
    <3>5. DOMAIN inbox' = Nodes
      BY <3>3, BroadcastAdds
    <3> QED BY <3>1, <3>3, <3>4, <3>5 DEF Types
  <2>2. ASSUME NEW n \in Nodes, NEW frame, Receive(n, frame) PROVE Types'
    <3> DEFINE m == frame.message
    <3>1. DOMAIN slots = Nodes /\ DOMAIN inbox = Nodes
      BY DEF Types
    <3>2. /\ cache' = [cache EXCEPT ![n] = Touch(@, m)]
          /\ delivered' = delivered \/ delivered' = Counted(delivered, n, m)
          /\ UNCHANGED <<setup, sent, relayed>>
          /\ DOMAIN inbox' = Nodes /\ DOMAIN slots' = Nodes
          /\ \A r \in Nodes : BagToSet(inbox'[r]) \subseteq BagToSet(inbox[r])
          /\ \A r \in Nodes : slots'[r] \subseteq slots[r] \cup {frame}
          /\ frame \in BagToSet(inbox[n])
      BY <2>2, <3>1, ReceiveDoes
    <3>3. m \in Messages
      BY <3>2 DEF Types
    <3>4. Touch(cache[n], m).ids \subseteq Messages
      BY <3>3, TouchIsTyped DEF Types
    <3>5. delivered' \in [Nodes -> [Messages -> 0 .. 2]]
      BY <3>2, <3>3, CountedAdds DEF Types
    <3> QED BY <3>2, <3>3, <3>4, <3>5 DEF Types
  <2>3. ASSUME NEW n \in Nodes, NEW s \in slots[n], Relay(n, s) PROVE Types'
    <3> DEFINE frame == Frame(s.message, IF s.hops > 0 THEN s.hops - 1 ELSE 0, n)
    <3>1. frame.message \in Messages
      BY DEF Frame, Types
    <3>2. /\ slots' = [slots EXCEPT ![n] = @ \ {s}]
          /\ inbox' = Broadcast(inbox, frame)
          /\ relayed' = Counted(relayed, n, s.message)
          /\ UNCHANGED <<setup, cache, sent, delivered>>
      BY <2>3 DEF Relay
    <3> HIDE DEF frame
    <3>5. \A r \in Nodes : \A f \in BagToSet(inbox'[r]) :
             f \in BagToSet(inbox[r]) \/ (f = frame /\ r \in Hears(frame.tx))
      BY <3>2, BroadcastAdds
    <3>3. /\ \A r \in Nodes : \A f \in BagToSet(inbox'[r]) : f.message \in Messages
          /\ DOMAIN inbox' = Nodes
      BY <3>1, <3>2, <3>5, BroadcastAdds DEF Types
    <3>4. relayed' \in [Nodes -> [Messages -> 0 .. 2]]
      BY <3>2, CountedAdds DEF Types
    <3> QED BY <3>2, <3>3, <3>4 DEF Types
  <2>4. ASSUME NEW n \in Nodes, NEW frame, Lose(n, frame) PROVE Types'
    <3>1. \A r \in Nodes : BagToSet(inbox'[r]) \subseteq BagToSet(inbox[r])
      BY <2>4, TakingOut DEF Lose, Types
    <3> QED BY <2>4, <3>1 DEF Lose, Types
  <2>5. CASE UNCHANGED vars
    BY <2>5 DEF vars, Types
  <2> QED BY <2>1, <2>2, <2>3, <2>4, <2>5 DEF Next, Work
<1> QED BY <1>1, <1>2, PTL DEF Spec

-----------------------------------------------------------------------------

(* With room in the filters, what a node holds, delivered or relayed is in *)
(* its filter and not its own, and what travels was sent, so that its      *)
(* sender knows it.                                                        *)
Foreign(n, m) == m \in cache[n].ids /\ n # Header[m].origin_node

Known ==
    setup.room =>
        /\ \A m \in sent : m \in cache[Header[m].origin_node].ids
        /\ \A n \in Nodes : \A f \in BagToSet(inbox[n]) : f.message \in sent
        /\ \A n \in Nodes : \A s \in slots[n] :
              /\ s.message \in sent /\ Foreign(n, s.message)
              /\ relayed[n][s.message] = 0
              /\ \A t \in slots[n] : t.message = s.message => t = s
        /\ \A n \in Nodes, m \in Messages :
              /\ delivered[n][m] > 0 \/ relayed[n][m] > 0 => Foreign(n, m)
              /\ delivered[n][m] <= 1 /\ relayed[n][m] <= 1

(* HandledOnce: whatever copies arrive, in whatever order, an application  *)
(* gets a message once and a node relays it once.                          *)
THEOREM FloodComesOnce == Spec => []HandledOnce
<1>1. Init => Known
  BY DEF Init, Known, Large!Empty, EmptyBag, SetToBag, BagToSet
<1>2. Types /\ Known /\ [Next]_vars => Known'
  <2> SUFFICES ASSUME Types, Known, [Next]_vars, setup'.room PROVE Known'
    BY DEF Known
  <2>0. setup' = setup
    BY DEF Next, Work, Send, Receive, Relay, Lose, vars
  <2>1. ASSUME NEW m \in Messages, Send(m) PROVE Known'
    <3> DEFINE o == Header[m].origin_node
               frame == Frame(m, Header[m].hops, o)
    <3>1. frame.message = m
      BY DEF Frame
    <3> HIDE DEF frame
    <3>2. /\ cache' = [cache EXCEPT ![o] = Touch(@, m)]
          /\ inbox' = Broadcast(inbox, frame)
          /\ sent' = sent \cup {m}
          /\ UNCHANGED <<setup, slots, delivered, relayed>>
      BY <2>1 DEF Send, frame
    <3>3. Touch(cache[o], m).ids = cache[o].ids \cup {m}
      BY <2>0, RoomKeepsAll DEF Types, Touch
    <3>4. \A n \in Nodes : cache[n].ids \subseteq cache'[n].ids
      BY <3>2, <3>3 DEF Types
    <3>5. m \in cache'[o].ids
      BY <3>2, <3>3 DEF Types
    <3>8. \A r \in Nodes : \A f \in BagToSet(inbox'[r]) :
             f \in BagToSet(inbox[r]) \/ (f = frame /\ r \in Hears(frame.tx))
      BY <3>2, BroadcastAdds
    <3>6. \A n \in Nodes : \A f \in BagToSet(inbox'[n]) : f.message \in sent'
      BY <2>0, <3>1, <3>2, <3>8 DEF Known
    <3> HIDE DEF o
    <3>7. \A k \in sent' : k \in cache'[Header[k].origin_node].ids
      BY <2>0, <3>2, <3>4, <3>5 DEF Known, o, Types
    <3> QED BY <2>0, <3>2, <3>4, <3>6, <3>7 DEF Known, Foreign
  <2>2. ASSUME NEW n \in Nodes, NEW frame, Receive(n, frame) PROVE Known'
    <3> DEFINE m == frame.message
    <3>1. DOMAIN slots = Nodes /\ DOMAIN inbox = Nodes
      BY DEF Types
    <3>2. /\ cache' = [cache EXCEPT ![n] = Touch(@, m)]
          /\ UNCHANGED <<setup, sent, relayed>>
          /\ \A r \in Nodes : BagToSet(inbox'[r]) \subseteq BagToSet(inbox[r])
          /\ \A r \in Nodes \ {n} : slots'[r] = slots[r]
          /\ frame \in BagToSet(inbox[n])
      BY <2>2, <3>1, ReceiveDoes
    <3>3. m \in Messages /\ m \in sent
      BY <2>0, <3>2 DEF Types, Known
    <3>4. Touch(cache[n], m).ids = cache[n].ids \cup {m}
      BY <2>0, <3>3, RoomKeepsAll DEF Types, Touch
    <3>5. /\ m \in cache'[n].ids
          /\ \A r \in Nodes : cache[r].ids \subseteq cache'[r].ids
      BY <3>2, <3>4 DEF Types
    <3>6. /\ \A k \in sent' : k \in cache'[Header[k].origin_node].ids
          /\ \A r \in Nodes : \A f \in BagToSet(inbox'[r]) : f.message \in sent'
      BY <2>0, <3>2, <3>5 DEF Known, Types
    <3>7. CASE delivered' = delivered /\ slots'[n] \subseteq slots[n]
      <4>1. \A r \in Nodes : slots'[r] \subseteq slots[r]
        BY <3>2, <3>7
      <4> QED BY <2>0, <3>2, <3>5, <3>6, <3>7, <4>1 DEF Known, Foreign
    <3>8. CASE /\ m \notin cache[n].ids
               /\ delivered' = Counted(delivered, n, m)
               /\ slots'[n] \subseteq slots[n] \cup {frame}
      <4>1. n # Header[m].origin_node
        BY <2>0, <3>3, <3>8 DEF Known
      <4>2. ~Foreign(n, m)
        BY <3>8 DEF Foreign
      <4>3. delivered[n][m] = 0 /\ relayed[n][m] = 0
        BY <2>0, <3>3, <4>2 DEF Known, Types
      <4>4. \A s \in slots[n] : s.message # m
        BY <2>0, <4>2 DEF Known
      <4>5. Foreign(n, m)'
        BY <3>5, <4>1 DEF Foreign
      <4>6. \A r \in Nodes, k \in Messages : Foreign(r, k) => Foreign(r, k)'
        BY <3>5 DEF Foreign
      <4>7. /\ delivered'[n][m] = 1
            /\ \A r \in Nodes, k \in Messages :
                 r # n \/ k # m => delivered'[r][k] = delivered[r][k]
        <5>1. delivered \in [Nodes -> [Messages -> 0 .. 2]]
          BY DEF Types
        <5> QED BY <3>3, <3>8, <4>3, <5>1, CountedAdds
      <4>8. \A r \in Nodes, k \in Messages :
              /\ delivered'[r][k] > 0 \/ relayed'[r][k] > 0 => Foreign(r, k)'
              /\ delivered'[r][k] <= 1 /\ relayed'[r][k] <= 1
        BY <2>0, <3>2, <4>3, <4>5, <4>6, <4>7 DEF Known
      <4>9. \A s \in slots'[n] :
              /\ s.message \in sent' /\ Foreign(n, s.message)'
              /\ relayed'[n][s.message] = 0
              /\ \A t \in slots'[n] : t.message = s.message => t = s
        BY <2>0, <3>2, <3>3, <3>8, <4>3, <4>4, <4>5, <4>6 DEF Known, Types
      <4>10. \A r \in Nodes \ {n} : \A s \in slots'[r] :
              /\ s.message \in sent' /\ Foreign(r, s.message)'
              /\ relayed'[r][s.message] = 0
              /\ \A t \in slots'[r] : t.message = s.message => t = s
        BY <2>0, <3>2, <4>6 DEF Known, Types
      <4> QED BY <2>0, <3>6, <4>8, <4>9, <4>10 DEF Known
    <3> QED BY <2>2, <3>1, <3>7, <3>8, ReceiveDoes
  <2>3. ASSUME NEW n \in Nodes, NEW s \in slots[n], Relay(n, s) PROVE Known'
    <3> DEFINE m == s.message
               frame == Frame(m, IF s.hops > 0 THEN s.hops - 1 ELSE 0, n)
    <3>1. frame.message = m
      BY DEF Frame
    <3>2. /\ slots' = [slots EXCEPT ![n] = @ \ {s}]
          /\ inbox' = Broadcast(inbox, frame)
          /\ relayed' = Counted(relayed, n, m)
          /\ UNCHANGED <<setup, cache, sent, delivered>>
      BY <2>3 DEF Relay
    <3> HIDE DEF frame
    <3>3. /\ m \in Messages /\ m \in sent /\ Foreign(n, m) /\ relayed[n][m] = 0
          /\ \A t \in slots[n] : t.message = m => t = s
      BY <2>0 DEF Known, Types
    <3>4. \A r \in Nodes : \A f \in BagToSet(inbox'[r]) :
             f \in BagToSet(inbox[r]) \/ (f = frame /\ r \in Hears(frame.tx))
      BY <3>2, BroadcastAdds
    <3>5. \A r \in Nodes : \A f \in BagToSet(inbox'[r]) : f.message \in sent'
      BY <2>0, <3>1, <3>2, <3>3, <3>4 DEF Known
    <3>6. /\ relayed'[n][m] = 1
          /\ \A r \in Nodes, k \in Messages :
               r # n \/ k # m => relayed'[r][k] = relayed[r][k]
      <4>1. relayed \in [Nodes -> [Messages -> 0 .. 2]]
        BY DEF Types
      <4>2. PICK k \in Messages : k = m
        BY <3>3
      <4>3. PICK after : after = Counted(relayed, n, k)
        OBVIOUS
      <4>4. /\ relayed[n][k] = 0 => after[n][k] = 1
            /\ \A r \in Nodes, j \in Messages :
                 r # n \/ j # k => after[r][j] = relayed[r][j]
        BY <4>1, <4>3, CountedAdds
      <4> HIDE DEF m
      <4> QED BY <3>2, <3>3, <4>2, <4>3, <4>4
    <3>7. \A r \in Nodes, k \in Messages : Foreign(r, k)' <=> Foreign(r, k)
      BY <3>2 DEF Foreign
    <3>8. \A r \in Nodes : slots'[r] \subseteq slots[r] /\ (r = n => s \notin slots'[r])
      BY <3>2 DEF Types
    <3>9. \A r \in Nodes, k \in Messages :
              /\ delivered'[r][k] > 0 \/ relayed'[r][k] > 0 => Foreign(r, k)'
              /\ delivered'[r][k] <= 1 /\ relayed'[r][k] <= 1
      BY <2>0, <3>2, <3>3, <3>6, <3>7 DEF Known
    <3>10. \A r \in Nodes : \A q \in slots'[r] :
              /\ q.message \in sent' /\ Foreign(r, q.message)'
              /\ relayed'[r][q.message] = 0
              /\ \A t \in slots'[r] : t.message = q.message => t = q
      <4> TAKE r \in Nodes
      <4> TAKE q \in slots'[r]
      <4>1. q \in slots[r] /\ q.message \in Messages
        BY <3>8 DEF Types
      <4>2. r # n \/ q.message # m
        BY <3>3, <3>8, <4>1
      <4>3. relayed'[r][q.message] = 0
        BY <2>0, <3>6, <4>1, <4>2 DEF Known
      <4> QED BY <2>0, <3>2, <3>7, <3>8, <4>1, <4>3 DEF Known
    <3>11. \A k \in sent' : k \in cache'[Header[k].origin_node].ids
      BY <2>0, <3>2 DEF Known
    <3> QED BY <2>0, <3>5, <3>9, <3>10, <3>11 DEF Known
  <2>4. ASSUME NEW n \in Nodes, NEW frame, Lose(n, frame) PROVE Known'
    <3>1. \A r \in Nodes : BagToSet(inbox'[r]) \subseteq BagToSet(inbox[r])
      BY <2>4, TakingOut DEF Lose, Types
    <3> QED BY <2>0, <2>4, <3>1 DEF Lose, Known, Foreign
  <2>5. CASE UNCHANGED vars
    BY <2>0, <2>5 DEF vars, Known, Foreign
  <2> QED BY <2>1, <2>2, <2>3, <2>4, <2>5 DEF Next, Work
<1>3. Types /\ Known => HandledOnce
  <2> SUFFICES ASSUME Types, Known, setup.room, NEW n \in Nodes, NEW m \in Messages
               PROVE  /\ delivered[n][m] <= (IF n = Header[m].origin_node THEN 0 ELSE 1)
                      /\ relayed[n][m] <= (IF n = Header[m].origin_node THEN 0 ELSE 1)
    BY DEF HandledOnce, DeliveredOnce, RelayedOnce
  <2>1. delivered[n][m] \in 0 .. 2 /\ relayed[n][m] \in 0 .. 2
    BY DEF Types
  <2> QED BY <2>1 DEF Known, Foreign
<1> QED BY <1>1, <1>2, <1>3, TypesHold, PTL DEF Spec

-----------------------------------------------------------------------------

LEMMA NoWay ==
    ASSUME NEW n \in Nodes
    PROVE  Way(n, n, 0)
<1> DEFINE w == [i \in 0 .. 0 |-> n]
<1>1. w \in [0 .. 0 -> Nodes] /\ w[0] = n
  OBVIOUS
<1>2. \A i \in 1 .. 0 : w[i] \in Hears(w[i - 1])
  OBVIOUS
<1> HIDE DEF w
<1> QED BY <1>1, <1>2 DEF Way

LEMMA OneMoreHop ==
    ASSUME NEW n, NEW r, NEW k \in Nat, Way(n, r, k), NEW t \in Hears(r), t \in Nodes
    PROVE  Way(n, t, k + 1)
<1>1. PICK w \in [0 .. k -> Nodes] :
        w[0] = n /\ w[k] = r /\ \A i \in 1 .. k : w[i] \in Hears(w[i - 1])
  BY DEF Way
<1> DEFINE longer == [i \in 0 .. k + 1 |-> IF i = k + 1 THEN t ELSE w[i]]
<1>2. longer \in [0 .. k + 1 -> Nodes]
  BY <1>1
<1>3. longer[0] = n /\ longer[k + 1] = t
  BY <1>1
<1>4. \A i \in 1 .. k + 1 : longer[i] \in Hears(longer[i - 1])
  <2> TAKE i \in 1 .. k + 1
  <2>1. CASE i = k + 1
    <3>1. longer[i] = t /\ longer[i - 1] = w[k]
      BY <2>1
    <3> QED BY <1>1, <3>1
  <2>2. CASE i # k + 1
    <3>1. i \in 1 .. k /\ longer[i] = w[i] /\ longer[i - 1] = w[i - 1]
      BY <2>2
    <3> QED BY <1>1, <3>1
  <2> QED BY <2>1, <2>2
<1> HIDE DEF longer
<1> QED BY <1>2, <1>3, <1>4 DEF Way

(* A copy came h.hops - hops transmissions from the origin; who has it, or *)
(* relays it, heard the last of them.                                      *)
Came(n, f) ==
    LET h == Header[f.message]
    IN  /\ n \in Hears(f.tx)
        /\ f.hops \in 0 .. h.hops
        /\ Way(h.origin_node, f.tx, h.hops - f.hops)

Spent ==
    /\ \A n \in Nodes : \A f \in BagToSet(inbox[n]) : Came(n, f)
    /\ \A n \in Nodes : \A s \in slots[n] : Came(n, s) /\ s.hops > 0

(* HopsSpent: every copy has spent a hop for each transmission on its way, *)
(* so hop counts bound how far any message goes, however the filters       *)
(* forget and the frames are reordered.                                    *)
THEOREM HopsAreSpent == Spec => []HopsSpent
<1>1. Init => Spent
  BY DEF Init, Spent, EmptyBag, SetToBag, BagToSet
<1>2. Types /\ Spent /\ [Next]_vars => Spent'
  <2> SUFFICES ASSUME Types, Spent, [Next]_vars PROVE Spent'
    OBVIOUS
  <2>0. \A n, f : Came(n, f) => Came(n, f)'
    <3>1. setup' = setup
      BY DEF Next, Work, Send, Receive, Relay, Lose, vars
    <3> QED BY <3>1 DEF Came, Way, Hears
  <2>1. ASSUME NEW m \in Messages, Send(m) PROVE Spent'
    <3> DEFINE h == Header[m]
               frame == Frame(m, h.hops, h.origin_node)
    <3>1. frame.message = m /\ frame.hops = h.hops /\ frame.tx = h.origin_node
      BY DEF Frame
    <3> HIDE DEF frame
    <3>2. inbox' = Broadcast(inbox, frame) /\ slots' = slots
      BY <2>1 DEF Send, frame
    <3>3. \A r \in Nodes : \A f \in BagToSet(inbox'[r]) :
             f \in BagToSet(inbox[r]) \/ (f = frame /\ r \in Hears(frame.tx))
      BY <3>2, BroadcastAdds
    <3>4. Way(h.origin_node, frame.tx, h.hops - frame.hops)
      <4>1. h.hops - frame.hops = 0 /\ h.origin_node \in Nodes
        BY <3>1
      <4> QED BY <3>1, <4>1, NoWay
    <3>5. \A r \in Hears(frame.tx) : Came(r, frame)
      BY <3>1, <3>4 DEF Came
    <3> QED BY <2>0, <3>2, <3>3, <3>5 DEF Spent
  <2>2. ASSUME NEW n \in Nodes, NEW frame, Receive(n, frame) PROVE Spent'
    <3>1. DOMAIN slots = Nodes /\ DOMAIN inbox = Nodes
      BY DEF Types
    <3>2. /\ frame \in BagToSet(inbox[n])
          /\ \A r \in Nodes : BagToSet(inbox'[r]) \subseteq BagToSet(inbox[r])
          /\ \A r \in Nodes : \A s \in slots'[r] :
                s \in slots[r] \/ (r = n /\ s = frame /\ frame.hops # 0)
      BY <2>2, <3>1, ReceiveDoes
    <3>3. Came(n, frame)
      BY <3>2 DEF Spent
    <3>4. frame.hops # 0 => frame.hops > 0
      BY <3>2, <3>3 DEF Came, Types
    <3> QED BY <2>0, <3>2, <3>3, <3>4 DEF Spent
  <2>3. ASSUME NEW n \in Nodes, NEW s \in slots[n], Relay(n, s) PROVE Spent'
    <3> DEFINE m == s.message
               h == Header[m]
               frame == Frame(m, IF s.hops > 0 THEN s.hops - 1 ELSE 0, n)
    <3>1. frame.message = m /\ frame.tx = n
          /\ (s.hops > 0 => frame.hops = s.hops - 1)
      BY DEF Frame
    <3>2. slots' = [slots EXCEPT ![n] = @ \ {s}] /\ inbox' = Broadcast(inbox, frame)
      BY <2>3 DEF Relay
    <3> HIDE DEF frame
    <3>3. /\ n \in Hears(s.tx) /\ m \in Messages /\ h.hops \in Nat
          /\ s.hops \in 1 .. h.hops
          /\ Way(h.origin_node, s.tx, h.hops - s.hops)
      BY DEF Spent, Came, Types
    <3> HIDE DEF m, h
    <3>4. Way(h.origin_node, n, h.hops - s.hops + 1)
      <4>1. h.hops - s.hops \in Nat
        BY <3>3
      <4> QED BY <3>3, <4>1, OneMoreHop
    <3>5. frame.hops \in 0 .. h.hops /\ h.hops - s.hops + 1 = h.hops - frame.hops
      BY <3>1, <3>3
    <3>6. \A r \in Hears(frame.tx) : Came(r, frame)
      BY <3>1, <3>4, <3>5 DEF Came, h
    <3>7. \A r \in Nodes : \A f \in BagToSet(inbox'[r]) :
             f \in BagToSet(inbox[r]) \/ (f = frame /\ r \in Hears(frame.tx))
      BY <3>2, BroadcastAdds
    <3>8. \A r \in Nodes : slots'[r] \subseteq slots[r]
      BY <3>2 DEF Types
    <3> QED BY <2>0, <3>6, <3>7, <3>8 DEF Spent
  <2>4. ASSUME NEW n \in Nodes, NEW frame, Lose(n, frame) PROVE Spent'
    <3>1. \A r \in Nodes : BagToSet(inbox'[r]) \subseteq BagToSet(inbox[r])
      BY <2>4, TakingOut DEF Lose, Types
    <3> QED BY <2>0, <2>4, <3>1 DEF Lose, Spent
  <2>5. CASE UNCHANGED vars
    BY <2>0, <2>5 DEF vars, Spent
  <2> QED BY <2>1, <2>2, <2>3, <2>4, <2>5 DEF Next, Work
<1>3. Types /\ Spent => HopsSpent
  BY DEF Spent, Came, Types, HopsSpent
<1> QED BY <1>1, <1>2, <1>3, TypesHold, PTL DEF Spec

-----------------------------------------------------------------------------
(* What is bounded, and by what: filters by their room, pools by their     *)
(* slots, and copies by nothing, but each by a number.                     *)

LEMMA OneMoreCopy ==
    ASSUME NEW bag, IsABag(bag), NEW frame
    PROVE  IsABag(bag (+) SetToBag({frame}))
<1>1. PICK more : more = bag (+) SetToBag({frame})
  OBVIOUS
<1>2. /\ \A f \in DOMAIN bag : bag[f] \in Nat /\ bag[f] > 0
      /\ more = [f \in DOMAIN bag \cup {frame} |->
                   (IF f \in DOMAIN bag THEN bag[f] ELSE 0) + (IF f = frame THEN 1 ELSE 0)]
  BY <1>1 DEF IsABag, SetToBag, (+)
<1>3. \A f \in DOMAIN bag \cup {frame} : more[f] \in {k \in Nat : k > 0}
  BY <1>2
<1> QED BY <1>1, <1>2, <1>3 DEF IsABag

LEMMA OneCopyLess ==
    ASSUME NEW bag, IsABag(bag), NEW frame
    PROVE  IsABag(bag (-) SetToBag({frame}))
<1>1. PICK B : B = [f \in DOMAIN bag |-> IF f = frame THEN bag[f] - 1 ELSE bag[f]]
  OBVIOUS
<1>2. bag (-) SetToBag({frame}) = [f \in {d \in DOMAIN B : B[d] > 0} |-> B[f]]
  BY <1>1 DEF SetToBag, (-)
<1>3. \A f \in DOMAIN B : B[f] \in Int
  BY <1>1 DEF IsABag
<1>4. \A f \in {d \in DOMAIN B : B[d] > 0} : B[f] \in {k \in Nat : k > 0}
  BY <1>3
<1> QED BY <1>2, <1>4 DEF IsABag

LEMMA BroadcastKeepsBags ==
    ASSUME NEW boxes, NEW frame, \A n \in Nodes : IsABag(boxes[n])
    PROVE  \A n \in Nodes : IsABag(Broadcast(boxes, frame)[n])
BY OneMoreCopy DEF Broadcast

LEMMA TinyCardinality == \A S : Small!Cardinality(S) = Cardinality(S)
BY DEF Small!Cardinality, Cardinality

(* A filter without room keeps the last id it was shown.                   *)
LEMMA NoRoomKeepsLast ==
    ASSUME NEW c, IsFiniteSet(c.ids), Cardinality(c.ids) <= 1, NEW m
    PROVE  Small!Touch(c, m).ids = {m}
<1>1. Cardinality(c.ids) \in 0 .. 1
  BY FS_CardinalityType
<1>2. CASE Cardinality(c.ids) = 0
  <2>1. c.ids = {}
    BY <1>2, FS_EmptySet
  <2> QED BY <2>1 DEF Small!Touch, Small!Kept
<1>3. CASE Cardinality(c.ids) = 1
  <2>1. PICK x : c.ids = {x}
    BY <1>3, FS_Singleton
  <2>2. Small!Oldest(c) = x
    BY <2>1 DEF Small!Oldest
  <2>3. ~(Cardinality(c.ids) < 1)
    BY <1>3
  <2>4. Small!Kept(c, m) = {}
    BY <2>1, <2>2, <2>3, TinyCardinality DEF Small!Kept, Small!Remembers
  <2> QED BY <2>4 DEF Small!Touch
<1> QED BY <1>1, <1>2, <1>3

(* A pool that a frame was offered to has no more relays than slots.       *)
LEMMA EnqueuedFits ==
    ASSUME setup.queue \in Nat, NEW pool, IsFiniteSet(pool), Cardinality(pool) <= setup.queue,
           NEW frame, NEW after \in Enqueued(pool, frame)
    PROVE  IsFiniteSet(after) /\ Cardinality(after) <= setup.queue
<1>1. Cardinality(pool) \in Nat
  BY FS_CardinalityType
<1>2. CASE Cardinality(pool) < setup.queue /\ after = pool \cup {frame}
  <2>1. /\ IsFiniteSet(after)
        /\ Cardinality(after) = Cardinality(pool) \/ Cardinality(after) = Cardinality(pool) + 1
    BY <1>2, FS_AddElement
  <2> QED BY <1>1, <1>2, <2>1
<1>3. CASE after = pool
  BY <1>3
<1>4. ASSUME NEW s \in pool, after = (pool \ {s}) \cup {frame}
      PROVE  IsFiniteSet(after) /\ Cardinality(after) <= setup.queue
  <2>1. IsFiniteSet(pool \ {s}) /\ Cardinality(pool \ {s}) = Cardinality(pool) - 1
    BY FS_RemoveElement
  <2>2. /\ IsFiniteSet(after)
        /\ \/ Cardinality(after) = Cardinality(pool \ {s})
           \/ Cardinality(after) = Cardinality(pool \ {s}) + 1
    BY <1>4, <2>1, FS_AddElement
  <2> QED BY <1>1, <2>1, <2>2
<1> QED BY <1>2, <1>3, <1>4 DEF Enqueued

Bounds ==
    /\ \A n \in Nodes : setup.room \/ Cardinality(cache[n].ids) <= 1
    /\ \A n \in Nodes : IsFiniteSet(slots[n]) /\ Cardinality(slots[n]) <= setup.queue
    /\ \A n \in Nodes : IsABag(inbox[n])

LEMMA TouchKeepsRoom ==
    ASSUME Types, Bounds, NEW n \in Nodes, NEW m,
           cache' = [cache EXCEPT ![n] = Touch(@, m)]
    PROVE  \A r \in Nodes : setup.room \/ Cardinality(cache'[r].ids) <= 1
<1> SUFFICES ASSUME ~setup.room, NEW r \in Nodes PROVE Cardinality(cache'[r].ids) <= 1
  OBVIOUS
<1>1. CASE r = n
  <2>0. PICK c : c = cache[n]
    OBVIOUS
  <2>1. cache'[n] = Small!Touch(c, m)
    BY <2>0 DEF Touch, Types
  <2>2. c.ids \subseteq Messages /\ Cardinality(c.ids) <= 1
    BY <2>0 DEF Types, Bounds
  <2>3. IsFiniteSet(c.ids)
    BY <2>2, FS_Subset
  <2>4. Small!Touch(c, m).ids = {m}
    BY <2>2, <2>3, NoRoomKeepsLast
  <2>5. Cardinality({m}) = 1
    BY FS_Singleton
  <2>6. Cardinality(cache'[n].ids) = 1
    BY <2>1, <2>4, <2>5
  <2> QED BY <1>1, <2>6
<1>2. CASE r # n
  BY <1>2 DEF Types, Bounds
<1> QED BY <1>1, <1>2

(* Every node's filter keeps to its room and its pool to its slots,        *)
(* whatever the others send it (duplicate_filter.cpp:31-43,                *)
(* forwarding_queue.cpp:34-55).                                            *)
THEOREM TypeCorrect == Spec => []TypeOK
<1>1. Init => Bounds
  <2> SUFFICES ASSUME Init PROVE Bounds
    OBVIOUS
  <2>1. \A n \in Nodes : cache[n].ids = {} /\ slots[n] = {} /\ inbox[n] = EmptyBag
    BY DEF Init, Large!Empty
  <2>2. IsABag(EmptyBag)
    BY DEF IsABag, EmptyBag, SetToBag
  <2>3. setup.queue \in Nat
    BY DEF Init
  <2>4. IsFiniteSet({}) /\ Cardinality({}) = 0
    BY FS_EmptySet
  <2>5. \A n \in Nodes : Cardinality(cache[n].ids) = 0
    BY <2>1, <2>4
  <2>6. \A n \in Nodes : IsFiniteSet(slots[n]) /\ Cardinality(slots[n]) = 0
    BY <2>1, <2>4
  <2>7. \A n \in Nodes : IsABag(inbox[n])
    BY <2>1, <2>2
  <2> QED BY <2>3, <2>5, <2>6, <2>7 DEF Bounds
<1>2. Types /\ Bounds /\ [Next]_vars => Bounds'
  <2> SUFFICES ASSUME Types, Bounds, [Next]_vars PROVE Bounds'
    OBVIOUS
  <2>0. setup.queue \in Nat /\ setup' = setup
    BY DEF Types, Next, Work, Send, Receive, Relay, Lose, vars
  <2>1. ASSUME NEW m \in Messages, Send(m) PROVE Bounds'
    <3>1. Header[m].origin_node \in Nodes
      OBVIOUS
    <3>2. \A r \in Nodes : setup.room \/ Cardinality(cache'[r].ids) <= 1
      BY <2>1, <3>1, TouchKeepsRoom DEF Send
    <3>3. \A r \in Nodes : IsABag(inbox'[r])
      BY <2>1, BroadcastKeepsBags DEF Send, Bounds
    <3> QED BY <2>0, <2>1, <3>2, <3>3 DEF Send, Bounds
  <2>2. ASSUME NEW n \in Nodes, NEW frame, Receive(n, frame) PROVE Bounds'
    <3> DEFINE m == frame.message
    <3>a. cache' = [cache EXCEPT ![n] = Touch(@, m)]
      BY <2>2 DEF Receive
    <3> HIDE DEF m
    <3>1. \A r \in Nodes : setup.room \/ Cardinality(cache'[r].ids) <= 1
      BY <3>a, TouchKeepsRoom
    <3>2. \A r \in Nodes : IsABag(inbox'[r])
      BY <2>2, OneCopyLess DEF Receive, Bounds, Types
    <3> DEFINE pool == slots[n] \ Overtaken(n, frame)
    <3>b. PICK after \in Enqueued(pool, frame) \cup {pool} : slots' = [slots EXCEPT ![n] = after]
      BY <2>2 DEF Receive
    <3>3. pool \subseteq slots[n]
      OBVIOUS
    <3> HIDE DEF pool
    <3>4. IsFiniteSet(slots[n]) /\ Cardinality(slots[n]) \in Nat
          /\ Cardinality(slots[n]) <= setup.queue
      BY FS_CardinalityType DEF Bounds
    <3>5. IsFiniteSet(pool) /\ Cardinality(pool) \in Nat /\ Cardinality(pool) <= setup.queue
      <4>1. IsFiniteSet(pool) /\ Cardinality(pool) <= Cardinality(slots[n])
        BY <3>3, <3>4, FS_Subset
      <4>2. Cardinality(pool) \in Nat
        BY <4>1, FS_CardinalityType
      <4> QED BY <2>0, <3>4, <4>1, <4>2
    <3>6. IsFiniteSet(after) /\ Cardinality(after) <= setup.queue
      BY <2>0, <3>b, <3>5, EnqueuedFits
    <3>7. \A r \in Nodes : IsFiniteSet(slots'[r]) /\ Cardinality(slots'[r]) <= setup.queue
      BY <3>b, <3>6 DEF Bounds, Types
    <3> QED BY <2>0, <3>1, <3>2, <3>7 DEF Bounds
  <2>3. ASSUME NEW n \in Nodes, NEW s \in slots[n], Relay(n, s) PROVE Bounds'
    <3>1. \A r \in Nodes : IsABag(inbox'[r])
      BY <2>3, BroadcastKeepsBags DEF Relay, Bounds
    <3>2. IsFiniteSet(slots[n]) /\ Cardinality(slots[n]) \in Nat
          /\ Cardinality(slots[n]) <= setup.queue
      BY FS_CardinalityType DEF Bounds
    <3>3. IsFiniteSet(slots[n] \ {s}) /\ Cardinality(slots[n] \ {s}) = Cardinality(slots[n]) - 1
      BY <3>2, FS_RemoveElement
    <3>4. \A r \in Nodes : IsFiniteSet(slots'[r]) /\ Cardinality(slots'[r]) <= setup.queue
      BY <2>0, <2>3, <3>2, <3>3 DEF Relay, Bounds, Types
    <3> QED BY <2>0, <2>3, <3>1, <3>4 DEF Relay, Bounds
  <2>4. ASSUME NEW n \in Nodes, NEW frame, Lose(n, frame) PROVE Bounds'
    <3>1. \A r \in Nodes : IsABag(inbox'[r])
      BY <2>4, OneCopyLess DEF Lose, Bounds, Types
    <3> QED BY <2>0, <2>4, <3>1 DEF Lose, Bounds
  <2>5. CASE UNCHANGED vars
    BY <2>0, <2>5 DEF vars, Bounds
  <2> QED BY <2>1, <2>2, <2>3, <2>4, <2>5 DEF Next, Work
<1>3. Types /\ Bounds => TypeOK
  BY DEF Types, Bounds, TypeOK
<1> QED BY <1>1, <1>2, <1>3, TypesHold, PTL DEF Spec
=============================================================================
