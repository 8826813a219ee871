--------------------------- MODULE RoutingHistory ---------------------------
(***************************************************************************)
(* RoutingEngine with a history of what was delivered, of what was dropped *)
(* as expired or dropped young, and of the last reception.                 *)
(***************************************************************************)
EXTENDS RoutingEngine

CONSTANT MaxDeliveries   \* bound on how often a message is delivered

VARIABLES
    delivered,   \* how often each message was delivered
    expired,     \* the messages of which a copy came too old
    lost,        \* those dropped young, before any copy was delivered
    heard        \* the last reception, in a set

HistoryInit ==
    /\ Init
    /\ delivered = [i \in Ids |-> 0]
    /\ expired = {}
    /\ lost = {}
    /\ heard = {}

TimeKnown(h) == clock # 0 /\ h.timestamp # 0
Older(h) == TimeKnown(h) /\ clock - h.timestamp > h.lifetime

(* What the histories make of the answer to h. *)
Judge(h) ==
    LET dropped == result'.verdict = "DROP"
    IN  /\ delivered[h.id] < MaxDeliveries
        /\ delivered' = [delivered EXCEPT ![h.id] = IF dropped THEN @ ELSE @ + 1]
        /\ expired' = IF Older(h) THEN expired \cup {h.id} ELSE expired
        /\ lost' = IF dropped /\ ~Older(h) /\ delivered[h.id] = 0
                   THEN lost \cup {h.id} ELSE lost

Reception(h, me, signal) ==
    [priority |-> h.priority, dist |-> Metres[h.tx][me], rssi |-> signal.rssi, snr |-> signal.snr]

Receptions == {Reception(h, me, signal) : h \in Headers, me \in Places, signal \in Signals}

HistoryNext ==
    \/ \E h \in Headers, me \in Places, signal \in Signals :
          /\ Evaluate(h, me, signal)
          /\ Judge(h)
          /\ heard' = {Reception(h, me, signal)}
    \/ AdvanceClock /\ UNCHANGED <<delivered, expired, lost, heard>>

historyVars == <<cache, clock, result, delivered, expired, lost, heard>>

HistorySpec == HistoryInit /\ [][HistoryNext]_historyVars

-----------------------------------------------------------------------------

(* A message dropped for its age never comes back to life: no later copy   *)
(* of it is delivered, although the drop left no mark in the filter        *)
(* (routing_engine.cpp:51-57).                                             *)
NoResurrection ==
    [][\A i \in expired : delivered'[i] = delivered[i]]_historyVars

(* No message is dropped within its lifetime, or when its age cannot be    *)
(* known, unless a copy of it was delivered before: "Time-to-live for the  *)
(* message in seconds" (network_manager.h:91).                             *)
FreshNeverLost == lost = {}

(* The hold-back orders the relays of a message by how much they extend    *)
(* its reach: a node that hears a copy from no nearer, no stronger and no  *)
(* less urgent than this node did never waits longer                       *)
(* (routing_engine.cpp:117-121).                                           *)
FarFirst ==
    \A r \in heard, s \in Receptions :
        /\ "holdback" \in DOMAIN result
        /\ s.dist >= r.dist /\ s.rssi <= r.rssi /\ s.snr <= r.snr
        /\ s.priority <= r.priority
        => ComputeHoldback(s.priority, s.dist, s.rssi, s.snr) <= result.holdback

(* Every wait lies between MinMs and MaxMs times the multiplier of its     *)
(* priority, whatever the distance and the signal (the clamps of           *)
(* routing_engine.cpp:109-115), so that it never goes negative before the  *)
(* cast to uint32_t.                                                       *)
WithinMultipliedBounds ==
    \A r \in heard :
        LET q == Quarters[Clamp(r.priority, 0, 3)]
        IN  "holdback" \in DOMAIN result =>
                /\ 4 * result.holdback <= MaxMs * q
                /\ 4 * (result.holdback + 1) > MinMs * q
=============================================================================
