---------------------------- MODULE FilterWindow ----------------------------
(***************************************************************************)
(* DuplicateFilter with a history of the presentations, to say which ids   *)
(* it still recognises without speaking of slots, ticks or evictions.      *)
(***************************************************************************)
EXTENDS DuplicateFilter

VARIABLE since   \* for each id presented, the other ids presented since

windowVars == <<vars, since>>

Presented == DOMAIN since

WindowInit == Init /\ since = <<>>

Presenting(id) ==
    since' = [x \in Presented \cup {id} |->
                IF x = id THEN {} ELSE since[x] \cup {id}]

WindowNext ==
    /\ \E id \in Ids : (IsDuplicate(id) \/ MarkSeen(id)) /\ Presenting(id)
    /\ BeforeWrap

WindowSpec == WindowInit /\ [][WindowNext]_windowVars

(* An id is recognised exactly as long as fewer than Capacity other ids    *)
(* were presented after it (isDuplicate and markSeen refresh alike,        *)
(* duplicate_filter.cpp:18-67): no id is forgotten early, which would      *)
(* deliver and relay a message twice, and none late, which would keep the  *)
(* cache from holding as many distinct ids as it has entries.              *)
RecognisedInWindow ==
    \A id \in Ids :
        Hits(id) # {} <=> id \in Presented /\ Cardinality(since[id]) < Capacity

=============================================================================
