-------------------------- MODULE ForwardingQueue --------------------------
(***************************************************************************)
(* ForwardingQueue (forwarding_queue.cpp): an array of relay slots shared, *)
(* under a mutex, by two threads.                                          *)
(*                                                                         *)
(*   RX thread          Enqueue, OnDuplicateHeard (one critical section    *)
(*                      each)                                              *)
(*   forwarding thread  processTick, in the steps the mutex leaves:        *)
(*                      ReadClock before it is taken, Scan while it is     *)
(*                      held, one FireEntry per due relay and EndTick      *)
(*                      after it is released                               *)
(*                                                                         *)
(* A relay is named by the enqueue call that brought it (job), whose       *)
(* header is Header[job].  A slot that is not active keeps stale bytes in  *)
(* the code; nothing reads them, so it is Free here.                       *)
(***************************************************************************)
EXTENDS Geo, FiniteSets

CONSTANTS
    Jobs,        \* the calls of enqueue, one token each
    Header,      \* the header each call brings: id, priority, origin
    kMaxSlots,   \* CONFIG_NET_FORWARDING_QUEUE_SIZE, the length of the array
    Capacity,    \* capacity_
    Holdbacks,   \* values of holdback_ms
    MaxTime      \* bound on the clock

ASSUME QueueAssumption ==
    /\ \A j \in Jobs : /\ Header[j].priority \in 0 .. 255    \* uint8_t
                       /\ Header[j].origin \in Points
    /\ Capacity \in Nat
    /\ Holdbacks \subseteq Nat
    /\ MaxTime \in Nat

(* The constructor's assertion. *)
ASSUME SlotsAssumption == kMaxSlots \in Nat /\ Capacity <= kMaxSlots

VARIABLES
    slots,     \* slots_
    fire_buf,  \* what is left to send of fire_buf_, by the slot it came from
    pc,        \* where the forwarding thread is in processTick
    tickNow,   \* the clock as processTick read it
    now,       \* steady_clock
    fate       \* what became of each enqueue call (a history)

vars == <<slots, fire_buf, pc, tickNow, now, fate>>

Slots == 0 .. Capacity - 1

Relay == [job : Jobs, fire_time : 0 .. MaxTime]
Free == [job |-> "free"]

Fates == {"new", "held", "refused", "evicted", "cancelled", "leaving", "sent"}

First(S) == CHOOSE i \in S : \A j \in S : i <= j

Active == {i \in Slots : slots[i] # Free}
Urgency(i) == Header[slots[i].job].priority    \* 0 is the most urgent

Settle(js, f) == [j \in Jobs |-> IF j \in js THEN f ELSE fate[j]]
JobsAt(S) == {slots[i].job : i \in S}

(* Mutant of Vacated: the slots stay active. *)
VacatedNone(S) == slots

Vacated(S) == [i \in Slots |-> IF i \in S THEN Free ELSE slots[i]]

(* Mutant of Worst: the most urgent of the relays. *)
WorstInverted == First({i \in Active : \A j \in Active : Urgency(i) <= Urgency(j)})

(* The slot evicted for a more urgent relay: the first that no other slot  *)
(* is less urgent than.                                                    *)
Worst == First({i \in Active : \A j \in Active : Urgency(j) <= Urgency(i)})

-----------------------------------------------------------------------------

Init ==
    /\ slots = [i \in Slots |-> Free]
    /\ fire_buf = <<>>
    /\ pc = "asleep"
    /\ tickNow = 0
    /\ now = 0
    /\ fate = [j \in Jobs |-> "new"]

(* enqueue: into the first free slot; else in place of the least urgent    *)
(* relay, when the new one is strictly more urgent; else refused.          *)
IntoFreeSlot(r) ==
    /\ Active # Slots
    /\ slots' = [slots EXCEPT ![First(Slots \ Active)] = r]
    /\ fate' = Settle({r.job}, "held")

(* Mutant of InPlaceOfWorst: evicts on equal urgency too. *)
InPlaceOfWorstOnTie(r) ==
    /\ Active = Slots /\ Slots # {}
    /\ Header[r.job].priority <= Urgency(Worst)
    /\ slots' = [slots EXCEPT ![Worst] = r]
    /\ fate' = [Settle({slots[Worst].job}, "evicted") EXCEPT ![r.job] = "held"]

InPlaceOfWorst(r) ==
    /\ Active = Slots /\ Slots # {}
    /\ Header[r.job].priority < Urgency(Worst)
    /\ slots' = [slots EXCEPT ![Worst] = r]
    /\ fate' = [Settle({slots[Worst].job}, "evicted") EXCEPT ![r.job] = "held"]

Refused(r) ==
    /\ Active = Slots
    /\ Slots # {} => Header[r.job].priority >= Urgency(Worst)
    /\ fate' = Settle({r.job}, "refused")
    /\ slots' = slots

(* Bound: no relay is due after MaxTime. *)
Enqueue(j, holdback) ==
    LET r == [job |-> j, fire_time |-> now + holdback]
    IN  /\ fate[j] = "new"
        /\ r.fire_time <= MaxTime
        /\ IntoFreeSlot(r) \/ InPlaceOfWorst(r) \/ Refused(r)
        /\ UNCHANGED <<fire_buf, pc, tickNow, now>>

(* onDuplicateHeard: me is the location read before the mutex is taken.    *)
Overtaken(id, me, tx) ==
    {i \in Active : /\ Header[slots[i].job].id = id
                    /\ IsBetween(Header[slots[i].job].origin, me, tx)}

OnDuplicateHeard(id, me, tx) ==
    /\ slots' = Vacated(Overtaken(id, me, tx))
    /\ fate' = Settle(JobsAt(Overtaken(id, me, tx)), "cancelled")
    /\ UNCHANGED <<fire_buf, pc, tickNow, now>>

ReadClock ==
    /\ pc = "asleep"
    /\ pc' = "ticking"
    /\ tickNow' = now
    /\ UNCHANGED <<slots, fire_buf, now, fate>>

(* Mutants of Due: one tick early; only at the very fire time. *)
DueEarly == {i \in Active : slots[i].fire_time <= tickNow + 1}
DueExactly == {i \in Active : slots[i].fire_time = tickNow}

Due == {i \in Active : slots[i].fire_time <= tickNow}

Scan ==
    /\ pc = "ticking"
    /\ pc' = "firing"
    /\ fire_buf' = [i \in Due |-> slots[i]]
    /\ slots' = Vacated(Due)
    /\ fate' = Settle(JobsAt(Due), "leaving")
    /\ UNCHANGED <<tickNow, now>>

(* fireEntry hands the frame to link_.send and ignores its result; the     *)
(* entries are sent in slot order.                                         *)
FireEntry ==
    /\ pc = "firing" /\ DOMAIN fire_buf # {}
    /\ LET i == First(DOMAIN fire_buf)
       IN  /\ fire_buf' = [k \in DOMAIN fire_buf \ {i} |-> fire_buf[k]]
           /\ fate' = Settle({fire_buf[i].job}, "sent")
    /\ UNCHANGED <<slots, pc, tickNow, now>>

EndTick ==
    /\ pc = "firing" /\ DOMAIN fire_buf = {}
    /\ pc' = "asleep"
    /\ UNCHANGED <<slots, fire_buf, tickNow, now, fate>>

Tick ==
    /\ now < MaxTime
    /\ now' = now + 1
    /\ UNCHANGED <<slots, fire_buf, pc, tickNow, fate>>

RxThread ==
    \/ \E j \in Jobs, holdback \in Holdbacks : Enqueue(j, holdback)
    \/ \E j \in Jobs, me, tx \in Points : OnDuplicateHeard(Header[j].id, me, tx)

ProcessTick == ReadClock \/ Scan \/ FireEntry \/ EndTick

Next == RxThread \/ ProcessTick \/ Tick

Spec == Init /\ [][Next]_vars

(* The forwarding thread calls processTick again and again, and the clock  *)
(* advances; nothing obliges the RX thread to do anything.                 *)
FairSpec == Spec /\ WF_vars(ProcessTick) /\ WF_vars(Tick)

-----------------------------------------------------------------------------

Held == {j \in Jobs : fate[j] = "held"}
Firing == {fire_buf[i].job : i \in DOMAIN fire_buf}

TypeOK ==
    /\ slots \in [Slots -> Relay \cup {Free}]
    /\ DOMAIN fire_buf \subseteq Slots
    /\ \A i \in DOMAIN fire_buf : fire_buf[i] \in Relay
    /\ pc \in {"asleep", "ticking", "firing"}
    /\ tickNow \in 0 .. MaxTime
    /\ now \in 0 .. MaxTime
    /\ fate \in [Jobs -> Fates]

(* No relay is lost or doubled between the two threads: an accepted relay  *)
(* is in exactly one slot until it is sent, evicted or cancelled, or in    *)
(* exactly one place of the fire buffer (processTick clears the slot in    *)
(* the critical section that copies it, forwarding_queue.cpp:80-89).       *)
Ledger ==
    /\ \A i, k \in Active : slots[i].job = slots[k].job => i = k
    /\ \A i, k \in DOMAIN fire_buf : fire_buf[i].job = fire_buf[k].job => i = k
    /\ JobsAt(Active) = Held
    /\ Firing = {j \in Jobs : fate[j] = "leaving"}
    /\ pc # "firing" => Firing = {}

(* A relay leaves its slot only once its hold-back has run out: what is    *)
(* in the fire buffer was due when processTick read the clock, which is    *)
(* before it took the mutex.                                               *)
NeverEarly ==
    /\ tickNow <= now
    /\ \A i \in DOMAIN fire_buf : fire_buf[i].fire_time <= tickNow

(* A relay's fate is settled once: what was cancelled, evicted or refused  *)
(* is never sent and what was sent is never sent again, whatever the two   *)
(* threads do next; what is in the fire buffer can only be sent.           *)
FatesFinal ==
    [][\A j \in Jobs : fate'[j] # fate[j] =>
          \/ fate[j] = "new"  /\ fate'[j] \in {"held", "refused"}
          \/ fate[j] = "held" /\ fate'[j] \in {"evicted", "cancelled", "leaving"}
          \/ fate[j] = "leaving" /\ fate'[j] = "sent"]_vars

(* A relay is given up for lack of room only to relays that are all at     *)
(* least as urgent, and evicted only for a strictly more urgent one        *)
(* (forwarding_queue.cpp:43-54).                                           *)
UrgentKept ==
    [][\A j \in Jobs : fate'[j] # fate[j] /\ fate'[j] \in {"refused", "evicted"} =>
          /\ Cardinality(Held') = Capacity
          /\ \A k \in Held' : Header[k].priority <= Header[j].priority
          /\ fate'[j] = "evicted" =>
                \E k \in Held' \ Held : Header[k].priority < Header[j].priority]_vars

(* Every relay accepted is eventually sent, cancelled or evicted: the      *)
(* forwarding thread needs no help from the RX thread.                     *)
EveryRelaySettles ==
    \A j \in Jobs : fate[j] \in {"held", "leaving"}
                      ~> fate[j] \in {"sent", "cancelled", "evicted"}

(* The queue implements the hold-back pool. *)
Pool == INSTANCE HoldbackPool WITH
            pool <- {slots[i] : i \in Active},
            leaving <- {fire_buf[i] : i \in DOMAIN fire_buf}

ImplementsPool == Pool!PoolSpec
=============================================================================
