----------------------- MODULE DuplicateFilterProofs -----------------------
(***************************************************************************)
(* Proofs about DuplicateFilter and FilterWindow, for any ids, capacity    *)
(* and tick width.                                                         *)
(***************************************************************************)
EXTENDS FilterWindow, FiniteSetTheorems, WellFoundedInduction, TLAPS

USE FilterAssumption

(* A non-empty set of naturals has a least element, so First is defined.   *)
LEMMA FirstIsLeast ==
    ASSUME NEW S, S \subseteq Nat, S # {}
    PROVE  First(S) \in S /\ \A j \in S : First(S) <= j
<1> DEFINE R == OpToRel(<, Nat)
<1>1. \E i \in S : \A j \in S : <<j, i>> \notin R
  BY NatLessThanWellFounded, WFMin
<1>2. PICK i \in S : \A j \in S : <<j, i>> \notin R
  BY <1>1
<1>3. ASSUME NEW j \in S, j < i PROVE FALSE
  <2>1. <<j, i>> \in OpToRel(<, Nat)
    BY <1>3 DEF OpToRel
  <2> QED BY <1>2, <2>1
<1>4. \A j \in S : i <= j
  BY <1>3
<1> QED BY <1>4 DEF First

(* findOldest always answers with a slot of the array. *)
LEMMA FindOldestIsSlot ==
    ASSUME TypeOK
    PROVE  FindOldest \in Slots
<1> DEFINE candidates == {i \in Used : entries[i].timestamp < TickMod - 1}
           stamps == {entries[i].timestamp : i \in candidates}
           oldest == {i \in candidates : \A j \in candidates :
                        entries[i].timestamp <= entries[j].timestamp}
<1>1. CASE candidates = {}
  <2>1. FindOldest = 0
    BY <1>1 DEF FindOldest
  <2> QED BY <2>1 DEF Slots
<1>2. CASE candidates # {}
  <2>1. \A i \in Slots : entries[i].timestamp \in Nat
    BY DEF TypeOK, Entry, Ticks
  <2>2. stamps \subseteq Nat /\ stamps # {}
    BY <1>2, <2>1 DEF Used
  <2>3. First(stamps) \in stamps /\ \A t \in stamps : First(stamps) <= t
    BY <2>2, FirstIsLeast
  <2>4. PICK i \in candidates : entries[i].timestamp = First(stamps)
    BY <2>3
  <2>5. i \in oldest
    BY <2>3, <2>4
  <2>6. oldest \subseteq Nat /\ oldest # {}
    BY <2>5 DEF Used, Slots
  <2>7. First(oldest) \in oldest
    BY <2>6, FirstIsLeast
  <2>8. FindOldest = First(oldest)
    BY <1>2 DEF FindOldest
  <2> QED BY <2>7, <2>8 DEF Used
<1> QED BY <1>1, <1>2

(* The entry a call writes is one of the array; it holds id if any does.   *)
LEMMA PlaceIsSlot ==
    ASSUME TypeOK, NEW id \in Ids
    PROVE  Place(id) \in Slots /\ (Hits(id) # {} => Place(id) \in Hits(id))
<1>1. CASE Hits(id) # {}
  <2>1. Hits(id) \subseteq Nat /\ Hits(id) \subseteq Slots
    BY DEF Hits, Used, Slots
  <2>2. First(Hits(id)) \in Hits(id)
    BY <1>1, <2>1, FirstIsLeast
  <2> QED BY <1>1, <2>1, <2>2 DEF Place
<1>2. CASE Hits(id) = {} /\ Used # Slots
  <2>1. Slots \ Used \subseteq Nat /\ Slots \ Used # {}
    BY <1>2 DEF Used, Slots
  <2>2. First(Slots \ Used) \in Slots \ Used
    BY <2>1, FirstIsLeast
  <2> QED BY <1>2, <2>2 DEF Place
<1>3. CASE Hits(id) = {} /\ Used = Slots
  BY <1>3, FindOldestIsSlot DEF Place
<1> QED BY <1>1, <1>2, <1>3

(* Both operations write one entry: id, with the advanced tick.            *)
LEMMA PresentWrites ==
    ASSUME TypeOK, NEW id \in Ids, Present(id)
    PROVE  /\ tick' \in Ticks
           /\ entries' \in [Slots -> Entry]
           /\ Place(id) \in Slots
           /\ entries'[Place(id)] = [id |-> id, timestamp |-> tick', used |-> TRUE]
           /\ \A i \in Slots \ {Place(id)} : entries'[i] = entries[i]
<1>1. NextTick \in Ticks
  BY DEF NextTick, Ticks, TypeOK
<1>2. [id |-> id, timestamp |-> NextTick, used |-> TRUE] \in Entry
  BY <1>1 DEF Entry
<1>3. Place(id) \in Slots
  BY PlaceIsSlot
<1> QED BY <1>1, <1>2, <1>3 DEF Present, TypeOK

(* Before the wrap the tick advances by one, below UINT32_MAX when it is   *)
(* the running minimum's start.                                            *)
LEMMA TickAdvances ==
    ASSUME TypeOK, tick' = NextTick, BeforeWrap
    PROVE  tick \in Nat /\ tick' = tick + 1 /\ tick < TickMod - 1
<1>1. tick \in 0 .. TickMod - 1 /\ tick' = (tick + 1) % TickMod
  BY DEF NextTick, TypeOK, Ticks
<1>2. CASE tick = TickMod - 1
  BY <1>1, <1>2 DEF BeforeWrap
<1>3. CASE tick < TickMod - 1
  BY <1>1, <1>3
<1> QED BY <1>1, <1>2, <1>3

(* TypeOK: the array, the tick and the answers keep their types, across    *)
(* any number of wraps of the tick.                                        *)
THEOREM TypeCorrect == Spec => []TypeOK
<1>1. Init => TypeOK
  BY DEF Init, TypeOK, Entry, Ticks, Calls
<1>2. TypeOK /\ [Next]_vars => TypeOK'
  <2> SUFFICES ASSUME TypeOK, [Next]_vars PROVE TypeOK'
    OBVIOUS
  <2>1. ASSUME NEW id \in Ids, IsDuplicate(id) PROVE TypeOK'
    <3>1. last' \in Calls
      BY <2>1 DEF IsDuplicate, Calls
    <3> QED BY <2>1, <3>1, PresentWrites DEF IsDuplicate, TypeOK
  <2>2. ASSUME NEW id \in Ids, MarkSeen(id) PROVE TypeOK'
    <3>1. last' \in Calls
      BY <2>2 DEF MarkSeen, Calls
    <3> QED BY <2>2, <3>1, PresentWrites DEF MarkSeen, TypeOK
  <2>3. CASE UNCHANGED vars
    BY <2>3 DEF vars, TypeOK
  <2> QED BY <2>1, <2>2, <2>3 DEF Next
<1> QED BY <1>1, <1>2, PTL DEF Spec

(* UniqueIds: isDuplicate and markSeen search before they insert, so an id *)
(* never sits in two entries, even after the tick has wrapped.             *)
THEOREM IdsUnique == Spec => []UniqueIds
<1>1. Init => UniqueIds
  BY DEF Init, UniqueIds, Used
<1>2. TypeOK /\ UniqueIds /\ [Next]_vars => UniqueIds'
  <2> SUFFICES ASSUME TypeOK, UniqueIds, [Next]_vars PROVE UniqueIds'
    OBVIOUS
  <2>1. ASSUME NEW id \in Ids, Present(id) PROVE UniqueIds'
    <3> DEFINE p == Place(id)
    <3>0. /\ entries'[p] = [id |-> id, timestamp |-> tick', used |-> TRUE]
          /\ \A i \in Slots \ {p} : entries'[i] = entries[i]
      BY <2>1, PresentWrites
    <3>1. /\ entries'[p].id = id
          /\ \A i \in Slots \ {p} : entries'[i] = entries[i]
      BY <3>0
    <3>2. \A i \in Used \ {p} : entries[i].id # id
      BY PlaceIsSlot DEF UniqueIds, Hits
    <3>3. Used' \ {p} \subseteq Used \ {p}
      BY <3>1 DEF Used
    <3>4. \A i \in Used' \ {p} : entries'[i].id = entries[i].id /\ i \in Used
      BY <3>1, <3>3 DEF Used
    <3>5. \A i \in Used' \ {p} : entries'[i].id # entries'[p].id
      BY <3>1, <3>2, <3>4
    <3>6. \A i, j \in Used' \ {p} : entries'[i].id = entries'[j].id => i = j
      BY <3>4 DEF UniqueIds
    <3> QED BY <3>5, <3>6 DEF UniqueIds
  <2>2. CASE UNCHANGED vars
    BY <2>2 DEF vars, UniqueIds, Used
  <2> QED BY <2>1, <2>2 DEF Next, IsDuplicate, MarkSeen
<1> QED BY <1>1, <1>2, TypeCorrect, PTL DEF Spec

(* TicksDistinct: until the tick wraps the entries carry distinct ticks,   *)
(* none ahead of tick_, so that findOldest has one answer.                 *)
THEOREM TicksStayDistinct == SpecBeforeWrap => [](TypeOK /\ TicksDistinct)
<1>1. Init => TypeOK /\ TicksDistinct
  BY DEF Init, TypeOK, TicksDistinct, Used, Entry, Ticks, Calls
<1>2. TypeOK /\ TicksDistinct /\ [NextBeforeWrap]_vars => (TypeOK /\ TicksDistinct)'
  <2> SUFFICES ASSUME TypeOK, TicksDistinct, [NextBeforeWrap]_vars
               PROVE  TypeOK' /\ TicksDistinct'
    OBVIOUS
  <2>1. ASSUME NEW id \in Ids, Present(id), BeforeWrap
        PROVE  TicksDistinct'
    <3> DEFINE p == Place(id)
    <3>0. /\ entries'[p] = [id |-> id, timestamp |-> tick', used |-> TRUE]
          /\ \A i \in Slots \ {p} : entries'[i] = entries[i]
      BY <2>1, PresentWrites
    <3>1. tick' = tick + 1 /\ tick \in Nat
      BY <2>1, TickAdvances DEF Present
    <3>2. /\ entries'[p].timestamp = tick + 1
          /\ \A i \in Slots \ {p} : entries'[i] = entries[i]
      BY <3>0, <3>1
    <3>3. \A i \in Used' \ {p} : /\ i \in Used
                                 /\ entries'[i].timestamp = entries[i].timestamp
      BY <3>2 DEF Used
    <3>4. \A i \in Used' \ {p} : entries'[i].timestamp \in 1 .. tick
      BY <3>3 DEF TicksDistinct
    <3>5. \A i \in Used' : entries'[i].timestamp \in 1 .. tick'
      BY <3>1, <3>2, <3>4
    <3>6. \A i, j \in Used' \ {p} :
             entries'[i].timestamp = entries'[j].timestamp => i = j
      BY <3>3 DEF TicksDistinct
    <3>7. \A i \in Used' \ {p} : entries'[i].timestamp # entries'[p].timestamp
      BY <3>1, <3>2, <3>4
    <3> QED BY <3>5, <3>6, <3>7 DEF TicksDistinct
  <2>2. ASSUME NEW id \in Ids, IsDuplicate(id), BeforeWrap
        PROVE  TypeOK' /\ TicksDistinct'
    <3>1. last' \in Calls
      BY <2>2 DEF IsDuplicate, Calls
    <3> QED BY <2>1, <2>2, <3>1, PresentWrites DEF IsDuplicate, TypeOK
  <2>3. ASSUME NEW id \in Ids, MarkSeen(id), BeforeWrap
        PROVE  TypeOK' /\ TicksDistinct'
    <3>1. last' \in Calls
      BY <2>3 DEF MarkSeen, Calls
    <3> QED BY <2>1, <2>3, <3>1, PresentWrites DEF MarkSeen, TypeOK
  <2>4. CASE UNCHANGED vars
    BY <2>4 DEF vars, TypeOK, TicksDistinct, Used
  <2> QED BY <2>2, <2>3, <2>4 DEF NextBeforeWrap, Next
<1> QED BY <1>1, <1>2, PTL DEF SpecBeforeWrap

-----------------------------------------------------------------------------

(* Before the wrap findOldest answers with the entry presented longest     *)
(* ago: no entry's tick is UINT32_MAX, and no two are the same.            *)
LEMMA OldestIsLeast ==
    ASSUME TypeOK, TicksDistinct, Used # {}, tick < TickMod - 1
    PROVE  /\ FindOldest \in Used
           /\ \A j \in Used \ {FindOldest} :
                entries[FindOldest].timestamp < entries[j].timestamp
<1> DEFINE candidates == {i \in Used : entries[i].timestamp < TickMod - 1}
           stamps == {entries[i].timestamp : i \in candidates}
           oldest == {i \in candidates : \A j \in candidates :
                        entries[i].timestamp <= entries[j].timestamp}
<1>1. \A i \in Used : entries[i].timestamp \in 1 .. tick /\ tick \in Nat
  BY DEF TicksDistinct, TypeOK, Ticks
<1>2. candidates = Used
  BY <1>1
<1>3. stamps \subseteq Nat /\ stamps # {}
  BY <1>1, <1>2
<1>4. First(stamps) \in stamps /\ \A t \in stamps : First(stamps) <= t
  BY <1>3, FirstIsLeast
<1>5. PICK i \in candidates : entries[i].timestamp = First(stamps)
  BY <1>4
<1>6. i \in oldest
  BY <1>4, <1>5
<1>7. oldest \subseteq Nat /\ oldest # {}
  BY <1>6 DEF Used, Slots
<1>8. First(oldest) \in oldest
  BY <1>7, FirstIsLeast
<1>9. FindOldest = First(oldest)
  BY <1>2 DEF FindOldest
<1>10. FindOldest \in Used /\ \A j \in Used : entries[FindOldest].timestamp <= entries[j].timestamp
  BY <1>2, <1>8, <1>9
<1>11. \A j \in Used \ {FindOldest} : entries[FindOldest].timestamp # entries[j].timestamp
  BY <1>10 DEF TicksDistinct
<1> QED BY <1>1, <1>10, <1>11

(* The three ways a presentation goes: the id's entry is refreshed, a free *)
(* one is taken, or the least recently presented one gives way.            *)
LEMMA PresentCases ==
    ASSUME TypeOK, TicksDistinct, NEW id \in Ids, Present(id), BeforeWrap
    PROVE  LET p == Place(id)
           IN  /\ p \in Slots
               /\ Used' = Used \cup {p}
               /\ entries'[p].id = id /\ entries'[p].timestamp = tick + 1
               /\ \A i \in Slots \ {p} : entries'[i] = entries[i]
               /\ \A i \in Used : entries[i].timestamp \in 1 .. tick
               /\ tick \in Nat
               /\ \/ p \in Used /\ entries[p].id = id
                  \/ /\ \A i \in Used : entries[i].id # id
                     /\ p \notin Used
                  \/ /\ \A i \in Used : entries[i].id # id
                     /\ p \in Used /\ Used = Slots
                     /\ \A j \in Used \ {p} : entries[p].timestamp < entries[j].timestamp
<1> DEFINE p == Place(id)
<1>1. /\ p \in Slots /\ (Hits(id) # {} => p \in Hits(id))
      /\ entries'[p] = [id |-> id, timestamp |-> tick', used |-> TRUE]
      /\ \A i \in Slots \ {p} : entries'[i] = entries[i]
  BY PlaceIsSlot, PresentWrites
<1>2. tick \in Nat /\ tick' = tick + 1 /\ tick < TickMod - 1
  BY TickAdvances DEF Present
<1>3. Used' = Used \cup {p} /\ entries'[p].id = id /\ entries'[p].timestamp = tick + 1
  BY <1>1, <1>2 DEF Used
<1>4. \A i \in Used : entries[i].timestamp \in 1 .. tick
  BY DEF TicksDistinct
<1>5. CASE Hits(id) # {}
  BY <1>1, <1>2, <1>3, <1>4, <1>5 DEF Hits
<1>6. CASE Hits(id) = {} /\ Used # Slots
  <2>1. Slots \ Used \subseteq Nat /\ Slots \ Used # {}
    BY <1>6 DEF Used, Slots
  <2>2. p \notin Used
    BY <1>6, <2>1, FirstIsLeast DEF Place
  <2> QED BY <1>1, <1>2, <1>3, <1>4, <1>6, <2>2 DEF Hits
<1>7. CASE Hits(id) = {} /\ Used = Slots
  <2>1. p = FindOldest
    BY <1>7 DEF Place
  <2>2. Used # {}
    BY <1>1, <1>7
  <2> QED BY <1>1, <1>2, <1>3, <1>4, <1>7, <2>1, <2>2, OldestIsLeast DEF Hits
<1> QED BY <1>5, <1>6, <1>7

(* As many ids are remembered as there are used entries.                   *)
LEMMA IdsAreCounted ==
    ASSUME TypeOK, UniqueIds
    PROVE  /\ IsFiniteSet(Recency.ids) /\ Cardinality(Recency.ids) \in Nat
           /\ Used = Slots => Cardinality(Recency.ids) = Capacity
           /\ Used # Slots => Cardinality(Recency.ids) < Capacity
<1> DEFINE f == [i \in Used |-> entries[i].id]
<1>1. Recency.ids = {entries[i].id : i \in Used}
  BY DEF Recency
<1>2. f \in Bijection(Used, Recency.ids)
  <2>1. f \in [Used -> Recency.ids] /\ \A v \in Recency.ids : \E i \in Used : f[i] = v
    BY <1>1
  <2>2. \A i, j \in Used : f[i] = f[j] => i = j
    BY DEF UniqueIds
  <2> HIDE DEF f
  <2> QED BY <2>1, <2>2 DEF Bijection, Injection, Surjection, IsInjective
<1>3. IsFiniteSet(Slots) /\ Cardinality(Slots) = Capacity
  BY FS_Interval DEF Slots
<1>4. IsFiniteSet(Used) /\ Cardinality(Used) <= Capacity
      /\ (Cardinality(Used) = Capacity => Used = Slots)
  <2>1. Used \subseteq Slots
    BY DEF Used
  <2> QED BY <1>3, <2>1, FS_Subset
<1>5. IsFiniteSet(Recency.ids) /\ Cardinality(Recency.ids) = Cardinality(Used)
  BY <1>2, <1>4, FS_Bijection DEF ExistsBijection
<1>6. Cardinality(Used) \in Nat
  BY <1>4, FS_CardinalityType
<1> QED BY <1>3, <1>4, <1>5, <1>6

LEMMA SameCardinality == \A S : Lru!Cardinality(S) = Cardinality(S)
BY DEF Lru!Cardinality, Cardinality

(* The pairs that Recency orders. *)
Older ==
    \A v, w : <<v, w>> \in Recency.older <=>
        \E i, j \in Used : /\ v = entries[i].id /\ w = entries[j].id
                           /\ entries[i].timestamp < entries[j].timestamp

LEMMA OlderHolds == Older
<1> SUFFICES ASSUME NEW v, NEW w
             PROVE  <<v, w>> \in Recency.older <=>
                      \E i, j \in Used : /\ v = entries[i].id /\ w = entries[j].id
                                         /\ entries[i].timestamp < entries[j].timestamp
  BY DEF Older
<1> DEFINE earlier == {q \in Used \X Used : entries[q[1]].timestamp < entries[q[2]].timestamp}
           pair(q) == <<entries[q[1]].id, entries[q[2]].id>>
<1>1. Recency.older = {pair(q) : q \in earlier}
  BY DEF Recency
<1>2. ASSUME <<v, w>> \in Recency.older
      PROVE  \E i, j \in Used : /\ v = entries[i].id /\ w = entries[j].id
                                /\ entries[i].timestamp < entries[j].timestamp
  <2>1. PICK q \in earlier : <<v, w>> = pair(q)
    BY <1>1, <1>2, Zenon
  <2>2. q[1] \in Used /\ q[2] \in Used /\ entries[q[1]].timestamp < entries[q[2]].timestamp
    BY <2>1
  <2>3. v = entries[q[1]].id /\ w = entries[q[2]].id
    BY <2>1
  <2> QED BY <2>2, <2>3
<1>3. ASSUME NEW i \in Used, NEW j \in Used, v = entries[i].id, w = entries[j].id,
             entries[i].timestamp < entries[j].timestamp
      PROVE  <<v, w>> \in Recency.older
  <2>1. <<i, j>> \in earlier /\ pair(<<i, j>>) = <<v, w>>
    BY <1>3
  <2> HIDE DEF earlier, pair
  <2> QED BY <1>1, <2>1, Zenon
<1> QED BY <1>2, <1>3

(* A presentation is a touch of the least-recently-used cache.             *)
LEMMA PresentTouches ==
    ASSUME TypeOK, UniqueIds, TicksDistinct, NEW id \in Ids, Present(id), BeforeWrap
    PROVE  Recency' = Lru!Touch(Recency, id)
<1> DEFINE p == Place(id)
           others == {entries[i].id : i \in Used \ {p}}
           ts(i) == entries[i].timestamp
<1>0. /\ p \in Slots /\ Used' = Used \cup {p}
      /\ entries'[p].id = id /\ entries'[p].timestamp = tick + 1
      /\ \A i \in Slots \ {p} : entries'[i] = entries[i]
      /\ \A i \in Used : ts(i) \in 1 .. tick
      /\ tick \in Nat
  BY PresentCases
<1>1. \/ p \in Used /\ entries[p].id = id
      \/ (\A i \in Used : entries[i].id # id) /\ p \notin Used
      \/ /\ \A i \in Used : entries[i].id # id
         /\ p \in Used /\ Used = Slots
         /\ \A j \in Used \ {p} : ts(p) < ts(j)
  BY PresentCases
<1>2. Used \subseteq Slots
  BY DEF Used
<1> HIDE DEF p
<1>3. \A i \in Used \ {p} : entries'[i] = entries[i] /\ entries[i].id # id
  BY <1>0, <1>1, <1>2 DEF UniqueIds
<1>4. Recency.ids = {entries[i].id : i \in Used}
  BY DEF Recency
<1>5. Recency'.ids = others \cup {id}
  <2>1. Recency'.ids = {entries'[i].id : i \in Used'}
    BY DEF Recency
  <2> QED BY <1>0, <1>3, <2>1
<1>6. Lru!Kept(Recency, id) = others
  <2>0. Lru!Remembers(Recency, id) <=> \E i \in Used : entries[i].id = id
    BY <1>4 DEF Lru!Remembers
  <2>1. CASE p \in Used /\ entries[p].id = id
    <3>1. Lru!Remembers(Recency, id)
      BY <2>0, <2>1
    <3>2. Recency.ids \ {id} = others
      BY <1>3, <1>4, <2>1
    <3> QED BY <3>1, <3>2 DEF Lru!Kept
  <2>2. CASE (\A i \in Used : entries[i].id # id) /\ p \notin Used
    <3>1. Cardinality(Recency.ids) < Capacity
      BY <1>0, <2>2, IdsAreCounted
    <3>2. Recency.ids \ {id} = others
      BY <1>4, <2>2
    <3> QED BY <3>1, <3>2, SameCardinality DEF Lru!Kept
  <2>3. CASE /\ \A i \in Used : entries[i].id # id
             /\ p \in Used /\ Used = Slots
             /\ \A j \in Used \ {p} : ts(p) < ts(j)
    <3>1. ~Lru!Remembers(Recency, id)
      BY <2>0, <2>3
    <3>2. ~(Cardinality(Recency.ids) < Capacity)
      BY <2>3, IdsAreCounted
    <3>3. \A v, w : <<v, w>> \in Recency.older <=>
             \E i, j \in Used : v = entries[i].id /\ w = entries[j].id /\ ts(i) < ts(j)
      BY OlderHolds DEF Older
    <3> DEFINE eldest == entries[p].id
    <3>4. eldest \in Recency.ids
          /\ \A w \in Recency.ids \ {eldest} : <<eldest, w>> \in Recency.older
      BY <1>4, <2>3, <3>3
    <3>5. \A v \in Recency.ids :
             (\A w \in Recency.ids \ {v} : <<v, w>> \in Recency.older) => v = eldest
      <4> SUFFICES ASSUME NEW i \in Used, entries[i].id # eldest,
                          <<entries[i].id, eldest>> \in Recency.older
                   PROVE  FALSE
        BY <1>4, <3>4
      <4>1. PICK k \in Used, l \in Used :
              entries[i].id = entries[k].id /\ eldest = entries[l].id /\ ts(k) < ts(l)
        BY <3>3
      <4>2. l = p /\ k # p
        BY <2>3, <4>1 DEF UniqueIds
      <4>3. ts(p) < ts(k) /\ ts(p) \in Nat /\ ts(k) \in Nat
        BY <1>0, <2>3, <4>2
      <4> QED BY <4>1, <4>2, <4>3
    <3>6. Lru!Oldest(Recency) = eldest
      BY <3>4, <3>5 DEF Lru!Oldest
    <3>7. Recency.ids \ {eldest} = others
      BY <1>4, <2>3 DEF UniqueIds
    <3> QED BY <3>1, <3>2, <3>6, <3>7, SameCardinality DEF Lru!Kept
  <2> QED BY <1>1, <2>1, <2>2, <2>3
<1>7. Recency'.older = (Recency.older \cap (others \X others)) \cup (others \X {id})
  <2>1. \A v, w : <<v, w>> \in Recency.older <=>
           \E i, j \in Used : v = entries[i].id /\ w = entries[j].id /\ ts(i) < ts(j)
    BY OlderHolds DEF Older
  <2>2. Recency'.older = {<<entries'[q[1]].id, entries'[q[2]].id>> :
             q \in {r \in Used' \X Used' : entries'[r[1]].timestamp < entries'[r[2]].timestamp}}
    BY DEF Recency
  <2>3. \A v, w : <<v, w>> \in Recency'.older <=>
           \E i, j \in Used' : /\ v = entries'[i].id /\ w = entries'[j].id
                               /\ entries'[i].timestamp < entries'[j].timestamp
    <3>1. Older'
      BY OlderHolds, PTL
    <3> QED BY <3>1 DEF Older
  <2>4. \A i, j \in Used' : entries'[i].timestamp < entries'[j].timestamp <=>
            \/ i \in Used \ {p} /\ j \in Used \ {p} /\ ts(i) < ts(j)
            \/ i \in Used \ {p} /\ j = p
    <3> TAKE i, j \in Used'
    <3>1. CASE i = p /\ j = p
      BY <1>0, <3>1
    <3>2. CASE i = p /\ j # p
      BY <1>0, <1>3, <3>2
    <3>3. CASE i # p /\ j = p
      BY <1>0, <1>3, <3>3
    <3>4. CASE i # p /\ j # p
      BY <1>0, <1>3, <3>4
    <3> QED BY <3>1, <3>2, <3>3, <3>4
  <2>5. ASSUME NEW v, NEW w
        PROVE  <<v, w>> \in Recency'.older <=>
                  \/ \E i, j \in Used \ {p} : v = entries[i].id /\ w = entries[j].id /\ ts(i) < ts(j)
                  \/ \E i \in Used \ {p} : v = entries[i].id /\ w = id
    <3>1. ASSUME <<v, w>> \in Recency'.older
          PROVE  \/ \E i, j \in Used \ {p} : v = entries[i].id /\ w = entries[j].id /\ ts(i) < ts(j)
                 \/ \E i \in Used \ {p} : v = entries[i].id /\ w = id
      <4>1. PICK i \in Used', j \in Used' :
               /\ v = entries'[i].id /\ w = entries'[j].id
               /\ entries'[i].timestamp < entries'[j].timestamp
        BY <2>3, <3>1
      <4> QED BY <1>0, <1>3, <2>4, <4>1
    <3>2. ASSUME NEW i \in Used \ {p}, NEW j \in Used \ {p},
                 v = entries[i].id, w = entries[j].id, ts(i) < ts(j)
          PROVE  <<v, w>> \in Recency'.older
      <4>1. i \in Used' /\ j \in Used' /\ entries'[i] = entries[i] /\ entries'[j] = entries[j]
        BY <1>0, <1>3
      <4> QED BY <2>3, <3>2, <4>1
    <3>3. ASSUME NEW i \in Used \ {p}, v = entries[i].id, w = id
          PROVE  <<v, w>> \in Recency'.older
      <4>1. i \in Used' /\ p \in Used' /\ entries'[i] = entries[i] /\ entries'[p].id = id
        BY <1>0, <1>3
      <4>2. entries'[i].timestamp < entries'[p].timestamp
        BY <2>4, <4>1
      <4> QED BY <2>3, <3>3, <4>1, <4>2
    <3> QED BY <3>1, <3>2, <3>3
  <2>6. ASSUME NEW v, NEW w
        PROVE  <<v, w>> \in Recency'.older <=>
                  \/ v \in others /\ w \in others /\ <<v, w>> \in Recency.older
                  \/ v \in others /\ w = id
    <3>1. v \in others /\ w \in others /\ <<v, w>> \in Recency.older <=>
            \E i, j \in Used \ {p} : v = entries[i].id /\ w = entries[j].id /\ ts(i) < ts(j)
      BY <2>1 DEF UniqueIds
    <3>2. v \in others <=> \E i \in Used \ {p} : v = entries[i].id
      OBVIOUS
    <3> QED BY <2>5, <3>1, <3>2
  <2>7. Recency'.older \subseteq Recency'.ids \X Recency'.ids
    BY <1>5, <2>2, <2>6
  <2>8. \A q : q \in Recency'.older => q = <<q[1], q[2]>>
    BY <2>2
  <2> QED BY <2>6, <2>8
<1> QED BY <1>5, <1>6, <1>7 DEF Lru!Touch, Recency

(* ImplementsLru: until its tick wraps the array, whose entries are found  *)
(* and evicted by tick, is a least-recently-used cache: each call answers  *)
(* and remembers as the cache does.                                        *)
THEOREM FilterIsLru == SpecBeforeWrap => ImplementsLru
<1>1. Init => Lru!Init
  <2> SUFFICES ASSUME Init PROVE Recency = Lru!Empty /\ last = Lru!NoCall
    BY DEF Lru!Init
  <2>1. Used = {}
    BY DEF Init, Used
  <2> QED BY <2>1 DEF Init, Recency, Lru!Empty, Lru!NoCall, NoCall
<1>2. TypeOK /\ UniqueIds /\ TicksDistinct /\ [NextBeforeWrap]_vars => [Lru!Next]_(Lru!vars)
  <2> SUFFICES ASSUME TypeOK, UniqueIds, TicksDistinct, [NextBeforeWrap]_vars
               PROVE  [Lru!Next]_(Lru!vars)
    OBVIOUS
  <2>1. ASSUME NEW id \in Ids, IsDuplicate(id), BeforeWrap
        PROVE  Lru!IsDuplicate(id)
    <3>1. Recency' = Lru!Touch(Recency, id)
      BY <2>1, PresentTouches DEF IsDuplicate
    <3>2. Hits(id) # {} <=> Lru!Remembers(Recency, id)
      BY DEF Hits, Recency, Lru!Remembers
    <3>3. (Hits(id) # {}) = Lru!Remembers(Recency, id)
      BY <3>2 DEF Lru!Remembers
    <3>4. last' = [op |-> "isDuplicate", id |-> id, dup |-> Lru!Remembers(Recency, id)]
      BY <2>1, <3>3, Zenon DEF IsDuplicate
    <3> QED BY <3>1, <3>4 DEF Lru!IsDuplicate
  <2>2. ASSUME NEW id \in Ids, MarkSeen(id), BeforeWrap
        PROVE  Lru!MarkSeen(id)
    BY <2>2, PresentTouches DEF MarkSeen, Lru!MarkSeen
  <2>3. CASE UNCHANGED vars
    BY <2>3 DEF vars, Lru!vars, Recency, Used
  <2> QED BY <2>1, <2>2, <2>3 DEF NextBeforeWrap, Next, Lru!Next
<1>3. [NextBeforeWrap]_vars => [Next]_vars
  BY DEF NextBeforeWrap
<1> QED BY <1>1, <1>2, <1>3, IdsUnique, TicksStayDistinct, PTL
        DEF SpecBeforeWrap, Spec, ImplementsLru, Lru!Spec

-----------------------------------------------------------------------------

(* What was presented after an id that is remembered are the ids of later  *)
(* ticks; after one that was forgotten, at least all that are remembered.  *)
Newer(i) == {entries[j].id : j \in {k \in Used : entries[i].timestamp < entries[k].timestamp}}

Window ==
    /\ Presented \subseteq Ids
    /\ \A x \in Presented : IsFiniteSet(since[x])
    /\ \A i \in Used : entries[i].id \in Presented /\ since[entries[i].id] = Newer(i)
    /\ \A x \in Presented \ Recency.ids : Used = Slots /\ Recency.ids \subseteq since[x]

LEMMA PresentingKeepsWindow ==
    ASSUME TypeOK, UniqueIds, TicksDistinct, Window,
           NEW id \in Ids, Present(id), BeforeWrap, Presenting(id)
    PROVE  Window'
<1> DEFINE ts(i) == entries[i].timestamp
<1>p. PICK p : p = Place(id)
  OBVIOUS
<1>0. /\ p \in Slots /\ Used' = Used \cup {p}
      /\ entries'[p].id = id /\ entries'[p].timestamp = tick + 1
      /\ \A i \in Slots \ {p} : entries'[i] = entries[i]
      /\ \A i \in Used : ts(i) \in 1 .. tick
      /\ tick \in Nat
  BY <1>p, PresentCases
<1>1. \/ p \in Used /\ entries[p].id = id
      \/ (\A i \in Used : entries[i].id # id) /\ p \notin Used
      \/ /\ \A i \in Used : entries[i].id # id
         /\ p \in Used /\ Used = Slots
         /\ \A j \in Used \ {p} : ts(p) < ts(j)
  BY <1>p, PresentCases
<1>2. Used \subseteq Slots
  BY DEF Used
<1>3. \A i \in Used \ {p} : entries'[i] = entries[i] /\ entries[i].id # id
  BY <1>0, <1>1, <1>2 DEF UniqueIds
<1>4. Recency.ids = {entries[i].id : i \in Used}
  BY DEF Recency
<1>5. Recency'.ids = {entries[i].id : i \in Used \ {p}} \cup {id}
  <2>1. Recency'.ids = {entries'[i].id : i \in Used'}
    BY DEF Recency
  <2> QED BY <1>0, <1>3, <2>1
<1>6. /\ DOMAIN since' = Presented \cup {id}
      /\ since'[id] = {}
      /\ \A x \in Presented \ {id} : since'[x] = since[x] \cup {id}
  BY DEF Presenting, Presented
<1>7. Presented' \subseteq Ids /\ Presented' = Presented \cup {id}
  BY <1>6 DEF Presented, Window
<1>8. \A x \in Presented' : IsFiniteSet(since'[x])
  <2>1. IsFiniteSet({})
    BY FS_EmptySet
  <2>2. \A x \in Presented \ {id} : IsFiniteSet(since[x] \cup {id})
    BY FS_AddElement DEF Window
  <2> QED BY <1>6, <1>7, <2>1, <2>2
<1>9. since'[id] = Newer(p)'
  <2>1. \A k \in Used' : ~(entries'[p].timestamp < entries'[k].timestamp)
    <3> TAKE k \in Used'
    <3>1. CASE k = p
      BY <1>0, <3>1
    <3>2. CASE k # p
      BY <1>0, <1>3, <3>2
    <3> QED BY <3>1, <3>2
  <2>2. Newer(p)' = {}
    BY <2>1 DEF Newer
  <2> QED BY <1>6, <2>2
<1>10. ASSUME NEW i \in Used \ {p}
       PROVE  entries[i].id \in Presented /\ since'[entries[i].id] = Newer(i)'
  <2>1. entries[i].id \in Presented \ {id} /\ since[entries[i].id] = Newer(i)
    BY <1>3 DEF Window
  <2>2. \A k \in Used' : entries'[i].timestamp < entries'[k].timestamp <=>
           k = p \/ (k \in Used \ {p} /\ ts(i) < ts(k))
    <3> TAKE k \in Used'
    <3>1. CASE k = p
      BY <1>0, <1>3, <3>1
    <3>2. CASE k # p
      BY <1>0, <1>3, <3>2
    <3> QED BY <3>1, <3>2
  <2>3. Newer(i)' = {entries[j].id : j \in {k \in Used \ {p} : ts(i) < ts(k)}} \cup {id}
    BY <1>0, <1>3, <2>2 DEF Newer
  <2>4. \A k \in Used : ts(i) < ts(k) => k # p \/ entries[k].id = id
    BY <1>0, <1>1
  <2>5. Newer(i) \cup {id} = {entries[j].id : j \in {k \in Used \ {p} : ts(i) < ts(k)}} \cup {id}
    BY <2>4 DEF Newer
  <2> QED BY <1>6, <2>1, <2>3, <2>5
<1>11. \A i \in Used' : entries'[i].id \in Presented' /\ since'[entries'[i].id] = Newer(i)'
  BY <1>0, <1>3, <1>7, <1>9, <1>10
<1>12. ASSUME NEW x \in Presented', x \notin Recency'.ids
       PROVE  Used' = Slots /\ Recency'.ids \subseteq since'[x]
  <2>1. x # id /\ x \in Presented /\ since'[x] = since[x] \cup {id}
    BY <1>5, <1>6, <1>7, <1>12
  <2>2. CASE x \notin Recency.ids
    <3>1. Used = Slots /\ Recency.ids \subseteq since[x]
      BY <2>1, <2>2 DEF Window
    <3> QED BY <1>0, <1>4, <1>5, <2>1, <3>1
  <2>3. CASE x \in Recency.ids
    <3>1. p \in Used /\ entries[p].id = x
      BY <1>4, <1>5, <1>12, <2>3
    <3>2. Used = Slots /\ \A j \in Used \ {p} : ts(p) < ts(j)
      BY <1>1, <2>1, <3>1
    <3>3. since[x] = Newer(p)
      BY <3>1 DEF Window
    <3>4. {entries[j].id : j \in Used \ {p}} \subseteq Newer(p)
      BY <3>2 DEF Newer
    <3> QED BY <1>0, <1>5, <2>1, <3>2, <3>3, <3>4
  <2> QED BY <2>2, <2>3
<1> QED BY <1>7, <1>8, <1>11, <1>12 DEF Window

(* RecognisedInWindow: the filter knows an id as long as fewer than        *)
(* Capacity others were presented since, and no longer.                    *)
THEOREM WindowIsKept == WindowSpec => []RecognisedInWindow
<1>1. WindowInit => Window
  <2> SUFFICES ASSUME WindowInit PROVE Window
    OBVIOUS
  <2>1. Used = {} /\ since = <<>>
    BY DEF WindowInit, Init, Used
  <2>2. Presented = {}
    BY <2>1 DEF Presented
  <2> QED BY <2>1, <2>2 DEF Window
<1>2. TypeOK /\ UniqueIds /\ TicksDistinct /\ Window /\ [WindowNext]_windowVars => Window'
  <2> SUFFICES ASSUME TypeOK, UniqueIds, TicksDistinct, Window, [WindowNext]_windowVars
               PROVE  Window'
    OBVIOUS
  <2>1. ASSUME NEW id \in Ids, IsDuplicate(id) \/ MarkSeen(id), Presenting(id), BeforeWrap
        PROVE  Window'
    BY <2>1, PresentingKeepsWindow DEF IsDuplicate, MarkSeen
  <2>2. CASE UNCHANGED windowVars
    <3>1. entries' = entries /\ since' = since
      BY <2>2 DEF windowVars, vars
    <3>2. Used' = Used
      BY <3>1 DEF Used
    <3>3. Recency' = Recency /\ Presented' = Presented /\ \A i : Newer(i)' = Newer(i)
      BY <3>1, <3>2 DEF Recency, Presented, Newer
    <3> QED BY <3>1, <3>2, <3>3 DEF Window
  <2> QED BY <2>1, <2>2 DEF WindowNext
<1>3. TypeOK /\ UniqueIds /\ TicksDistinct /\ Window => RecognisedInWindow
  <2> SUFFICES ASSUME TypeOK, UniqueIds, TicksDistinct, Window, NEW id \in Ids
               PROVE  Hits(id) # {} <=> id \in Presented /\ Cardinality(since[id]) < Capacity
    BY DEF RecognisedInWindow
  <2>1. Hits(id) # {} <=> id \in Recency.ids
    BY DEF Hits, Recency
  <2>2. /\ IsFiniteSet(Recency.ids)
        /\ Cardinality(Recency.ids) \in Nat /\ Cardinality(Recency.ids) <= Capacity
        /\ Used = Slots => Cardinality(Recency.ids) = Capacity
    BY IdsAreCounted
  <2>3. CASE id \in Recency.ids
    <3>1. PICK i \in Used : entries[i].id = id
      BY <2>3 DEF Recency
    <3>2. id \in Presented /\ since[id] = Newer(i)
      BY <3>1 DEF Window
    <3>3. Newer(i) \subseteq Recency.ids \ {id}
      <4>1. \A k \in Used : entries[i].timestamp < entries[k].timestamp => entries[k].id # id
        <5>1. \A k \in Used : entries[k].timestamp \in Nat
          BY DEF Used, TypeOK, Entry, Ticks
        <5> QED BY <3>1, <5>1 DEF UniqueIds
      <4> QED BY <4>1 DEF Newer, Recency
    <3>4. /\ IsFiniteSet(Recency.ids \ {id})
          /\ Cardinality(Recency.ids \ {id}) = Cardinality(Recency.ids) - 1
      BY <2>2, <2>3, FS_RemoveElement
    <3>5. IsFiniteSet(since[id]) /\ Cardinality(since[id]) <= Cardinality(Recency.ids \ {id})
      BY <3>2, <3>3, <3>4, FS_Subset
    <3>6. Cardinality(since[id]) \in Nat
      BY <3>5, FS_CardinalityType
    <3> QED BY <2>1, <2>2, <2>3, <3>2, <3>4, <3>5, <3>6
  <2>4. CASE id \notin Recency.ids
    <3> SUFFICES ASSUME id \in Presented PROVE ~(Cardinality(since[id]) < Capacity)
      BY <2>1, <2>4
    <3>1. IsFiniteSet(since[id]) /\ Used = Slots /\ Recency.ids \subseteq since[id]
      BY <2>4 DEF Window
    <3>2. Capacity <= Cardinality(since[id])
      BY <2>2, <3>1, FS_Subset
    <3>3. Cardinality(since[id]) \in Nat
      BY <3>1, FS_CardinalityType
    <3> QED BY <3>2, <3>3
  <2> QED BY <2>3, <2>4
<1>4. WindowSpec => SpecBeforeWrap
  <2>1. WindowInit => Init
    BY DEF WindowInit
  <2>2. [WindowNext]_windowVars => [NextBeforeWrap]_vars
    BY DEF WindowNext, NextBeforeWrap, Next, windowVars
  <2> QED BY <2>1, <2>2, PTL DEF WindowSpec, SpecBeforeWrap
<1>5. [NextBeforeWrap]_vars => [Next]_vars
  BY DEF NextBeforeWrap
<1> QED BY <1>1, <1>2, <1>3, <1>4, <1>5, IdsUnique, TicksStayDistinct, PTL
        DEF WindowSpec, SpecBeforeWrap, Spec
=============================================================================
