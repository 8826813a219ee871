------------------------------ MODULE LruCache ------------------------------
(***************************************************************************)
(* What the duplicate filter promises, without slots or ticks: a bounded   *)
(* set of message ids ordered by how recently each was presented.          *)
(*                                                                         *)
(* cache.ids    the ids remembered                                         *)
(* cache.older  the pairs <<a, b>> of remembered ids with a presented      *)
(*              before b                                                   *)
(* last         the last call and its answer                               *)
(***************************************************************************)
EXTENDS Naturals, FiniteSets

CONSTANTS
    Ids,       \* message ids (uint32_t)
    Capacity   \* NetworkConfig::duplicate_cache_size

VARIABLES cache, last

vars == <<cache, last>>

NoCall == [op |-> "none"]
Calls == [op : {"isDuplicate"}, id : Ids, dup : BOOLEAN]
           \cup [op : {"markSeen"}, id : Ids]

Empty == [ids |-> {}, older |-> {}]

Remembers(c, id) == id \in c.ids

Oldest(c) == CHOOSE v \in c.ids : \A w \in c.ids \ {v} : <<v, w>> \in c.older

(* The ids kept when id is presented: all the others, less the oldest when *)
(* id is new and there is no room.                                         *)
Kept(c, id) ==
    IF Remembers(c, id) \/ Cardinality(c.ids) < Capacity
    THEN c.ids \ {id}
    ELSE c.ids \ {Oldest(c)}

(* Presenting id makes it the most recent. *)
Touch(c, id) ==
    LET kept == Kept(c, id)
    IN  [ids   |-> kept \cup {id},
         older |-> (c.older \cap (kept \X kept)) \cup (kept \X {id})]

-----------------------------------------------------------------------------

Init ==
    /\ cache = Empty
    /\ last = NoCall

IsDuplicate(id) ==
    /\ cache' = Touch(cache, id)
    /\ last' = [op |-> "isDuplicate", id |-> id, dup |-> Remembers(cache, id)]

MarkSeen(id) ==
    /\ cache' = Touch(cache, id)
    /\ last' = [op |-> "markSeen", id |-> id]

Next == \E id \in Ids : IsDuplicate(id) \/ MarkSeen(id)

Spec == Init /\ [][Next]_vars

-----------------------------------------------------------------------------

TypeOK ==
    /\ cache.ids \in SUBSET Ids
    /\ cache.older \in SUBSET (cache.ids \X cache.ids)
    /\ last \in Calls \cup {NoCall}

=============================================================================
