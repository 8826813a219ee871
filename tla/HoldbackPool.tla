---------------------------- MODULE HoldbackPool ----------------------------
(***************************************************************************)
(* What the forwarding queue promises, without slots, scans or a fire      *)
(* buffer: a bounded pool of relays, each held back until its fire time,   *)
(* that a transmission heard from farther away cancels.                    *)
(*                                                                         *)
(* pool     the relays held back                                           *)
(* leaving  the relays taken out to be sent, which nothing cancels anymore *)
(* fate     what became of each request to relay                           *)
(* now      the steady clock                                               *)
(***************************************************************************)
EXTENDS Geo, FiniteSets

CONSTANTS
    Jobs,        \* the calls of enqueue, one token each
    Header,      \* the header each call brings: id, priority, origin
    Capacity,    \* NetworkConfig::forwarding_queue_size
    Holdbacks,   \* the hold-back times the routing engine asks for
    MaxTime      \* bound on the clock

VARIABLES pool, leaving, fate, now

poolVars == <<pool, leaving, fate, now>>

Relay == [job : Jobs, fire_time : 0 .. MaxTime]

Urgency(r) == Header[r.job].priority    \* 0 is the most urgent

(* The relays that no other relay of S is less urgent than. *)
LeastUrgent(S) == {r \in S : \A s \in S : Urgency(s) <= Urgency(r)}

Settle(S, f) == [j \in Jobs |-> IF j \in {r.job : r \in S} THEN f ELSE fate[j]]

PoolInit ==
    /\ pool = {}
    /\ leaving = {}
    /\ fate = [j \in Jobs |-> "new"]
    /\ now = 0

(* Requests are taken while there is room; after that one is taken only in *)
(* place of a strictly less urgent relay, one of the least urgent.         *)
Accept(r) ==
    /\ Cardinality(pool) < Capacity
    /\ pool' = pool \cup {r}
    /\ fate' = Settle({r}, "held")

Replace(r, old) ==
    /\ Cardinality(pool) >= Capacity
    /\ Urgency(r) < Urgency(old)
    /\ pool' = (pool \ {old}) \cup {r}
    /\ fate' = [Settle({old}, "evicted") EXCEPT ![r.job] = "held"]

Refuse(r) ==
    /\ Cardinality(pool) >= Capacity
    /\ \A old \in pool : Urgency(old) <= Urgency(r)
    /\ fate' = Settle({r}, "refused")
    /\ pool' = pool

Request(r) ==
    /\ fate[r.job] = "new"
    /\ now <= r.fire_time
    /\ Accept(r) \/ Refuse(r) \/ \E old \in LeastUrgent(pool) : Replace(r, old)
    /\ UNCHANGED <<leaving, now>>

(* A transmission of message id from tx, heard at me, makes the relays it  *)
(* overtakes pointless.                                                    *)
Overtaken(id, me, tx) ==
    {r \in pool : /\ Header[r.job].id = id
                  /\ IsBetween(Header[r.job].origin, me, tx)}

Cancel(id, me, tx) ==
    /\ pool' = pool \ Overtaken(id, me, tx)
    /\ fate' = Settle(Overtaken(id, me, tx), "cancelled")
    /\ UNCHANGED <<leaving, now>>

(* Relays leave only when their fire time has come. *)
Leave(S) ==
    /\ S \subseteq {r \in pool : r.fire_time <= now}
    /\ leaving' = leaving \cup S
    /\ pool' = pool \ S
    /\ fate' = Settle(S, "leaving")
    /\ now' = now

Transmit(r) ==
    /\ leaving' = leaving \ {r}
    /\ fate' = Settle({r}, "sent")
    /\ UNCHANGED <<pool, now>>

Pass ==
    /\ now < MaxTime
    /\ now' = now + 1
    /\ UNCHANGED <<pool, leaving, fate>>

PoolNext ==
    \/ \E r \in Relay : Request(r)
    \/ \E j \in Jobs, me, tx \in Points : Cancel(Header[j].id, me, tx)
    \/ \E S \in SUBSET pool : Leave(S)
    \/ \E r \in leaving : Transmit(r)
    \/ Pass

PoolSpec == PoolInit /\ [][PoolNext]_poolVars
=============================================================================
