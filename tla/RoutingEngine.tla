--------------------------- MODULE RoutingEngine ---------------------------
(***************************************************************************)
(* RoutingEngine::evaluate (routing_engine.cpp): the verdict on a received *)
(* header.  The engine has no state of its own; it asks the duplicate      *)
(* filter, here the least-recently-used cache it implements, and the       *)
(* location provider for the time and the place.                           *)
(***************************************************************************)
EXTENDS Geo, Holdback

CONSTANTS
    Headers,     \* the headers that can be received
    Ids,         \* their message ids
    Capacity,    \* entries of the duplicate filter
    Word,        \* 2^32 in the code: seconds are uint32_t
    Places,      \* where this node can be
    Signals      \* the [rssi, snr] a reception can have

ASSUME RoutingAssumption ==
    /\ \A h \in Headers : /\ h.id \in Ids /\ h.priority \in Bytes
                            /\ h.timestamp \in 0 .. Word - 1 /\ h.lifetime \in Nat
                            /\ h.origin \in Points /\ h.tx \in Points
    /\ Capacity \in Nat \ {0}
    /\ Word \in Nat \ {0}
    /\ Places \subseteq Points
    /\ \A signal \in Signals : signal.rssi \in Int /\ signal.snr \in Int

VARIABLES
    cache,     \* dup_filter_
    clock,     \* loc_.getTimestamp(): epoch seconds, 0 when unknown
    result     \* the EvalResult of the last call, with the header's id

vars == <<cache, clock, result>>

NoCall == [op |-> "none"]
Dup == INSTANCE LruCache WITH last <- NoCall

Verdicts == {"DROP", "DELIVER_ONLY", "DELIVER_AND_FORWARD"}
NoResult == [verdict |-> "none"]

(* Mutant of Expired: a frame of unknown time is as old as the epoch. *)
ExpiredWhenUnknown(h) == (h.timestamp + h.lifetime) % Word < clock

(* Mutant of Expired: seconds kept in half the width. *)
ExpiredNarrow(h) ==
    /\ clock # 0 /\ h.timestamp # 0
    /\ (h.timestamp + h.lifetime) % (Word \div 2) < clock % (Word \div 2)

(* Skipped when either side does not know the time. *)
Expired(h) ==
    /\ clock # 0 /\ h.timestamp # 0
    /\ (h.timestamp + h.lifetime) % Word < clock

OutOfScope(h, me) ==
    \/ h.hops = 0
    \/ h.max_distance > 0 /\ Beyond(h.origin, me, h.max_distance)
    \/ h.directional /\ ~InCone(h.origin, me, h.heading)

HoldbackOf(h, me, signal) ==
    ComputeHoldback(h.priority, Metres[h.tx][me], signal.rssi, signal.snr)

-----------------------------------------------------------------------------

Init ==
    /\ cache = Dup!Empty
    /\ clock = 0
    /\ result = NoResult

Answer(h, verdict) == result' = [id |-> h.id, verdict |-> verdict]

(* An expired frame is dropped before the filter sees it. *)
DropExpired(h) ==
    /\ Expired(h)
    /\ Answer(h, "DROP")
    /\ cache' = cache /\ clock' = clock

Filter(h) == cache' = Dup!Touch(cache, h.id)    \* isDuplicate

DropDuplicate(h) ==
    /\ ~Expired(h)
    /\ Dup!Remembers(cache, h.id)
    /\ Filter(h)
    /\ Answer(h, "DROP")
    /\ clock' = clock

DeliverOnly(h, me) ==
    /\ ~Expired(h)
    /\ ~Dup!Remembers(cache, h.id)
    /\ OutOfScope(h, me)
    /\ Filter(h)
    /\ Answer(h, "DELIVER_ONLY")
    /\ clock' = clock

DeliverAndForward(h, me, signal) ==
    /\ ~Expired(h)
    /\ ~Dup!Remembers(cache, h.id)
    /\ ~OutOfScope(h, me)
    /\ Filter(h)
    /\ result' = [id |-> h.id, verdict |-> "DELIVER_AND_FORWARD",
                  holdback |-> HoldbackOf(h, me, signal)]
    /\ clock' = clock

Evaluate(h, me, signal) ==
    \/ DropExpired(h)
    \/ DropDuplicate(h)
    \/ DeliverOnly(h, me)
    \/ DeliverAndForward(h, me, signal)

(* External: the provider's clock is set once, then advances. *)
AdvanceClock ==
    /\ \E t \in 1 .. Word - 1 : (clock # 0 => t = clock + 1) /\ clock' = t
    /\ UNCHANGED <<cache, result>>

Next ==
    \/ \E h \in Headers, me \in Places, signal \in Signals : Evaluate(h, me, signal)
    \/ AdvanceClock

Spec == Init /\ [][Next]_vars

-----------------------------------------------------------------------------

TypeOK ==
    /\ Dup!TypeOK
    /\ clock \in 0 .. Word - 1
    /\ result = NoResult
         \/ /\ result.verdict \in Verdicts
            /\ result.id \in Ids
            /\ result.verdict = "DELIVER_AND_FORWARD" <=> "holdback" \in DOMAIN result
=============================================================================
