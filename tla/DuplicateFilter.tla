-------------------------- MODULE DuplicateFilter --------------------------
(***************************************************************************)
(* DuplicateFilter (duplicate_filter.cpp): an array of Capacity entries,   *)
(* each stamped with the value of a uint32_t tick when it was last         *)
(* presented.  Both public operations run under the filter's mutex, so     *)
(* each call is one step whichever thread makes it.                        *)
(***************************************************************************)
EXTENDS Naturals, FiniteSets

CONSTANTS
    Ids,        \* message ids (uint32_t)
    Capacity,   \* number of entries
    TickMod     \* 2^(width of tick_): 2^32 in the code

ASSUME FilterAssumption ==
    /\ Ids \subseteq Nat
    /\ Capacity \in Nat \ {0}
    /\ TickMod \in Nat \ {0, 1}

VARIABLES
    entries,    \* entries_
    tick,       \* tick_
    last        \* the last call and its answer

vars == <<entries, tick, last>>

Slots == 0 .. Capacity - 1
Ticks == 0 .. TickMod - 1
Entry == [id : Ids \cup {0}, timestamp : Ticks, used : BOOLEAN]

NoCall == [op |-> "none"]
Calls == [op : {"isDuplicate"}, id : Ids, dup : BOOLEAN]
           \cup [op : {"markSeen"}, id : Ids]

(* The loops over the entries stop at the first match. *)
First(S) == CHOOSE i \in S : \A j \in S : i <= j

Used == {i \in Slots : entries[i].used}
Hits(id) == {i \in Used : entries[i].id = id}

(* findOldest: the running minimum starts at UINT32_MAX and is beaten only *)
(* by a strictly smaller tick; slot 0 when no entry beats it.              *)
FindOldest ==
    LET candidates == {i \in Used : entries[i].timestamp < TickMod - 1}
        oldest == {i \in candidates : \A j \in candidates :
                      entries[i].timestamp <= entries[j].timestamp}
    IN  IF candidates = {} THEN 0 ELSE First(oldest)

(* The entry a call writes: the one that holds id, else the first free     *)
(* one, else the oldest.                                                   *)
Place(id) ==
    IF Hits(id) # {} THEN First(Hits(id))
    ELSE IF Used # Slots THEN First(Slots \ Used)
    ELSE FindOldest

NextTick == (tick + 1) % TickMod    \* ++tick_

(* Mutants of Present: the entry is stamped before the tick advances       *)
(* (tick_++ for ++tick_); a hit is not refreshed, so the cache is a FIFO.  *)
PresentPostIncrement(id) ==
    /\ tick' = IF Hits(id) = {} THEN NextTick ELSE tick
    /\ entries' = [entries EXCEPT ![Place(id)] =
                     [id |-> id, timestamp |-> tick, used |-> TRUE]]

PresentWithoutRefresh(id) ==
    /\ tick' = NextTick
    /\ entries' = IF Hits(id) # {} THEN entries
                  ELSE [entries EXCEPT ![Place(id)] =
                     [id |-> id, timestamp |-> NextTick, used |-> TRUE]]

(* What isDuplicate and markSeen both do to the array. *)
Present(id) ==
    /\ tick' = NextTick
    /\ entries' = [entries EXCEPT ![Place(id)] =
                     [id |-> id, timestamp |-> NextTick, used |-> TRUE]]

Size == Cardinality(Used)    \* size()

-----------------------------------------------------------------------------

Init ==
    /\ entries = [i \in Slots |-> [id |-> 0, timestamp |-> 0, used |-> FALSE]]
    /\ tick = 0
    /\ last = NoCall

IsDuplicate(id) ==
    /\ Present(id)
    /\ last' = [op |-> "isDuplicate", id |-> id, dup |-> Hits(id) # {}]

MarkSeen(id) ==
    /\ Present(id)
    /\ last' = [op |-> "markSeen", id |-> id]

Next == \E id \in Ids : IsDuplicate(id) \/ MarkSeen(id)

Spec == Init /\ [][Next]_vars

(* The behaviours in which tick_ has not come back to zero. *)
BeforeWrap == tick' # 0
NextBeforeWrap == Next /\ BeforeWrap
SpecBeforeWrap == Init /\ [][NextBeforeWrap]_vars

-----------------------------------------------------------------------------

TypeOK ==
    /\ entries \in [Slots -> Entry]
    /\ tick \in Ticks
    /\ last \in Calls \cup {NoCall}

(* No id sits in two entries: were it to, one copy would age and the entry *)
(* refreshed by the next hit would depend on the slot order.  Both         *)
(* operations (duplicate_filter.cpp:18-67) search before they insert.      *)
UniqueIds ==
    \A i, j \in Used : entries[i].id = entries[j].id => i = j

(* Until tick_ wraps, no two entries carry the same tick and none is ahead *)
(* of tick_: findOldest (duplicate_filter.cpp:79-90) has one answer, the   *)
(* entry presented longest ago.                                            *)
TicksDistinct ==
    /\ \A i, j \in Used : entries[i].timestamp = entries[j].timestamp => i = j
    /\ \A i \in Used : entries[i].timestamp \in 1 .. tick

(* Until tick_ wraps the array implements the least-recently-used cache.   *)
Recency == [ids   |-> {entries[i].id : i \in Used},
            older |-> {<<entries[p[1]].id, entries[p[2]].id>> :
                         p \in {q \in Used \X Used :
                           entries[q[1]].timestamp < entries[q[2]].timestamp}}]

Lru == INSTANCE LruCache WITH cache <- Recency

ImplementsLru == Lru!Spec

=============================================================================
