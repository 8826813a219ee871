-------------------------- MODULE EventQueueProofs --------------------------
(***************************************************************************)
(* Proofs about SimulationEventQueue, for queues of any length: a push     *)
(* loses no event, adds no other, and keeps the queue in order.            *)
(***************************************************************************)
EXTENDS SimulationEventQueue, FiniteSetTheorems, TLAPS

(* Events of a queue have times and priorities.                            *)
Timed(queue) ==
    \A i \in 1 .. Len(queue) : queue[i].time \in Nat /\ queue[i].priority \in Nat

(* No event stands before one that precedes it.                            *)
Ordered(queue) ==
    \A i, k \in 1 .. Len(queue) : i < k => ~Precedes(queue[k], queue[i])

Members(queue) == {queue[i] : i \in 1 .. Len(queue)}

(* The same events, in another order.                                      *)
Rearranged(queue, events) ==
    \E place \in Bijection(1 .. Len(queue), 1 .. Len(events)) :
        \A r \in 1 .. Len(queue) : queue[r] = events[place[r]]

(* An event that does not precede one, which does not precede another,     *)
(* does not precede the other.                                             *)
LEMMA NotBefore ==
    ASSUME NEW d, NEW e, NEW f, ~Precedes(d, e), ~Precedes(e, f),
           d.time \in Nat, d.priority \in Nat, e.time \in Nat, e.priority \in Nat,
           f.time \in Nat, f.priority \in Nat
    PROVE  ~Precedes(d, f)
BY DEF Precedes

LEMMA NotBack ==
    ASSUME NEW d, NEW e, Precedes(d, e),
           d.time \in Nat, d.priority \in Nat, e.time \in Nat, e.priority \in Nat
    PROVE  ~Precedes(e, d)
BY DEF Precedes

LEMMA StillBefore ==
    ASSUME NEW d, NEW e, NEW f,
           \/ Precedes(d, e) /\ ~Precedes(f, e)
           \/ ~Precedes(e, d) /\ Precedes(e, f),
           d.time \in Nat, d.priority \in Nat, e.time \in Nat, e.priority \in Nat,
           f.time \in Nat, f.priority \in Nat
    PROVE  Precedes(d, f)
BY DEF Precedes

LEMMA UpToIsFinite ==
    ASSUME NEW n \in Nat
    PROVE  IsFiniteSet(1 .. n) /\ Cardinality(1 .. n) = n
BY FS_Interval

LEMMA Joined ==
    ASSUME NEW E, NEW s \in Seq(E), NEW t \in Seq(E)
    PROVE  /\ s \o t \in Seq(E) /\ Len(s \o t) = Len(s) + Len(t)
           /\ \A i \in 1 .. Len(s) : (s \o t)[i] = s[i]
           /\ \A i \in 1 .. Len(t) : (s \o t)[Len(s) + i] = t[i]
OBVIOUS

LEMMA JoinedOne ==
    ASSUME NEW E, NEW s \in Seq(E), NEW e \in E
    PROVE  /\ s \o <<e>> \in Seq(E) /\ Len(s \o <<e>>) = Len(s) + 1
           /\ \A i \in 1 .. Len(s) : (s \o <<e>>)[i] = s[i]
           /\ (s \o <<e>>)[Len(s) + 1] = e
OBVIOUS

(* A push puts the event somewhere between those queued; in an ordered     *)
(* queue, behind those that it does not precede.                           *)
LEMMA PushedBetween ==
    ASSUME NEW E, NEW queue \in Seq(E), NEW e \in E
    PROVE  \E p \in 0 .. Len(queue) :
              /\ Len(Pushed(queue, e)) = Len(queue) + 1
              /\ Pushed(queue, e) \in Seq(E)
              /\ \A i \in 1 .. p : Pushed(queue, e)[i] = queue[i]
              /\ Pushed(queue, e)[p + 1] = e
              /\ \A i \in p + 1 .. Len(queue) : Pushed(queue, e)[i + 1] = queue[i]
              /\ p = Cardinality({i \in DOMAIN queue : ~Precedes(e, queue[i])})
<1> DEFINE before == {i \in DOMAIN queue : ~Precedes(e, queue[i])}
           p == Cardinality(before)
<1>1. p \in 0 .. Len(queue)
  <2>1. IsFiniteSet(1 .. Len(queue)) /\ Cardinality(1 .. Len(queue)) = Len(queue)
    BY UpToIsFinite
  <2>2. before \in SUBSET (1 .. Len(queue))
    OBVIOUS
  <2>3. IsFiniteSet(before) /\ p <= Len(queue)
    BY <2>1, <2>2, FS_Subset
  <2> QED BY <2>3, FS_CardinalityType
<1>2. Pushed(queue, e) = SubSeq(queue, 1, p) \o <<e>> \o SubSeq(queue, p + 1, Len(queue))
  BY DEF Pushed
<1> HIDE DEF p
<1>3. /\ SubSeq(queue, 1, p) \in Seq(E) /\ Len(SubSeq(queue, 1, p)) = p
      /\ \A i \in 1 .. p : SubSeq(queue, 1, p)[i] = queue[i]
      /\ SubSeq(queue, p + 1, Len(queue)) \in Seq(E)
      /\ Len(SubSeq(queue, p + 1, Len(queue))) = Len(queue) - p
      /\ \A i \in 1 .. Len(queue) - p : SubSeq(queue, p + 1, Len(queue))[i] = queue[p + i]
  BY <1>1
<1> DEFINE a == SubSeq(queue, 1, p)
           c == SubSeq(queue, p + 1, Len(queue))
<1> HIDE DEF a, c
<1>4. /\ a \in Seq(E) /\ Len(a) = p /\ c \in Seq(E) /\ Len(c) = Len(queue) - p
      /\ Pushed(queue, e) = a \o <<e>> \o c
      /\ \A i \in 1 .. p : a[i] = queue[i]
      /\ \A i \in 1 .. Len(queue) - p : c[i] = queue[p + i]
  BY <1>2, <1>3 DEF a, c
<1> DEFINE b == a \o <<e>>
<1>5. /\ b \in Seq(E) /\ Len(b) = p + 1 /\ b[p + 1] = e
      /\ \A i \in 1 .. p : b[i] = queue[i]
  <2>1. /\ b \in Seq(E) /\ Len(b) = Len(a) + 1 /\ b[Len(a) + 1] = e
        /\ \A i \in 1 .. Len(a) : b[i] = a[i]
    BY <1>4, JoinedOne
  <2> HIDE DEF b
  <2> QED BY <1>4, <2>1
<1> HIDE DEF b
<1>6. /\ Pushed(queue, e) \in Seq(E) /\ Len(Pushed(queue, e)) = Len(b) + Len(c)
      /\ \A i \in 1 .. Len(b) : Pushed(queue, e)[i] = b[i]
      /\ \A i \in 1 .. Len(c) : Pushed(queue, e)[Len(b) + i] = c[i]
  <2>1. Pushed(queue, e) = b \o c
    BY <1>4 DEF b
  <2>2. b \in Seq(E) /\ c \in Seq(E)
    BY <1>4, <1>5
  <2>3. /\ b \o c \in Seq(E) /\ Len(b \o c) = Len(b) + Len(c)
        /\ \A i \in 1 .. Len(b) : (b \o c)[i] = b[i]
        /\ \A i \in 1 .. Len(c) : (b \o c)[Len(b) + i] = c[i]
    BY <2>2, Joined
  <2> QED BY <2>1, <2>3
<1>7. /\ Len(Pushed(queue, e)) = Len(queue) + 1
      /\ \A i \in 1 .. p : Pushed(queue, e)[i] = queue[i]
      /\ Pushed(queue, e)[p + 1] = e
  <2>1. Len(b) + Len(c) = Len(queue) + 1 /\ p + 1 \in 1 .. Len(b)
        /\ \A i \in 1 .. p : i \in 1 .. Len(b)
    BY <1>1, <1>4, <1>5
  <2> QED BY <1>5, <1>6, <2>1
<1>8. ASSUME NEW i \in p + 1 .. Len(queue) PROVE Pushed(queue, e)[i + 1] = queue[i]
  <2>1. i - p \in 1 .. Len(queue) - p /\ p + (i - p) = i /\ (p + 1) + (i - p) = i + 1
    BY <1>1, <1>8
  <2>2. Pushed(queue, e)[(p + 1) + (i - p)] = c[i - p]
    BY <1>4, <1>5, <1>6, <2>1
  <2>3. c[i - p] = queue[p + (i - p)]
    BY <1>4, <2>1
  <2> QED BY <2>1, <2>2, <2>3
<1> QED BY <1>1, <1>6, <1>7, <1>8 DEF p

LEMMA PushedRearranges ==
    ASSUME NEW E, NEW queue \in Seq(E), NEW e \in E
    PROVE  /\ Pushed(queue, e) \in Seq(E)
           /\ Rearranged(Pushed(queue, e), Append(queue, e))
<1> DEFINE n == Len(queue)
           after == Pushed(queue, e)
<1>0. PICK p \in 0 .. Len(queue) :
         /\ Len(Pushed(queue, e)) = Len(queue) + 1
         /\ Pushed(queue, e) \in Seq(E)
         /\ \A i \in 1 .. p : Pushed(queue, e)[i] = queue[i]
         /\ Pushed(queue, e)[p + 1] = e
         /\ \A i \in p + 1 .. Len(queue) : Pushed(queue, e)[i + 1] = queue[i]
         /\ p = Cardinality({i \in DOMAIN queue : ~Precedes(e, queue[i])})
  BY PushedBetween
<1>1. /\ p \in 0 .. n /\ n \in Nat
      /\ Len(after) = n + 1 /\ after \in Seq(E)
      /\ \A i \in 1 .. p : after[i] = queue[i]
      /\ after[p + 1] = e
      /\ \A i \in p + 1 .. n : after[i + 1] = queue[i]
  BY <1>0
<1> DEFINE place == [r \in 1 .. n + 1 |-> IF r <= p THEN r ELSE IF r = p + 1 THEN n + 1 ELSE r - 1]
<1> HIDE DEF after
<1>2. place \in Bijection(1 .. n + 1, 1 .. n + 1)
  <2>1. place \in [1 .. n + 1 -> 1 .. n + 1]
    OBVIOUS
  <2>2. \A r, s \in 1 .. n + 1 : place[r] = place[s] => r = s
    OBVIOUS
  <2>3. ASSUME NEW t \in 1 .. n + 1 PROVE \E r \in 1 .. n + 1 : place[r] = t
    <3>1. CASE t <= p
      BY <3>1
    <3>2. CASE t = n + 1
      <4>1. p + 1 \in 1 .. n + 1 /\ place[p + 1] = t
        BY <3>2
      <4> QED BY <4>1
    <3>3. CASE t > p /\ t # n + 1
      <4>1. t + 1 \in 1 .. n + 1 /\ place[t + 1] = t
        BY <3>3
      <4> QED BY <4>1
    <3> QED BY <3>1, <3>2, <3>3
  <2> QED BY <2>1, <2>2, <2>3 DEF Bijection, Injection, Surjection, IsInjective
<1>3. ASSUME NEW r \in 1 .. n + 1 PROVE after[r] = Append(queue, e)[place[r]]
  <2>1. CASE r <= p
    BY <1>1, <2>1
  <2>2. CASE r = p + 1
    BY <1>1, <2>2
  <2>3. CASE r > p + 1
    <3>1. r - 1 \in p + 1 .. n /\ after[(r - 1) + 1] = queue[r - 1]
      BY <1>1, <2>3
    <3> QED BY <2>3, <3>1
  <2> QED BY <2>1, <2>2, <2>3
<1>4. Len(Append(queue, e)) = n + 1
  OBVIOUS
<1> HIDE DEF place
<1> QED BY <1>1, <1>2, <1>3, <1>4 DEF Rearranged, after

(* A push keeps the queue in order.                                        *)
(* An event put into an ordered queue, behind those that it does not       *)
(* precede and before those that it precedes, keeps the order.             *)
Inserted(queue, after, e, n, p) ==
    /\ e.time \in Nat /\ e.priority \in Nat
    /\ \A i \in 1 .. n : queue[i].time \in Nat /\ queue[i].priority \in Nat
    /\ \A i, k \in 1 .. n : i < k => ~Precedes(queue[k], queue[i])
    /\ \A i \in 1 .. p : after[i] = queue[i] /\ ~Precedes(e, queue[i])
    /\ after[p + 1] = e
    /\ \A i \in p + 1 .. n : after[i + 1] = queue[i] /\ Precedes(e, queue[i])

LEMMA InsertedInOrder ==
    ASSUME NEW queue, NEW after, NEW e, NEW n \in Nat, NEW p \in 0 .. n,
           Inserted(queue, after, e, n, p)
    PROVE  \A i, k \in 1 .. n + 1 : i < k => ~Precedes(after[k], after[i])
<1> USE DEF Inserted
<1> SUFFICES ASSUME NEW i \in 1 .. n + 1, NEW k \in 1 .. n + 1, i < k
             PROVE  ~Precedes(after[k], after[i])
  OBVIOUS
<1>1. CASE k <= p
  <2>1. after[i] = queue[i] /\ after[k] = queue[k] /\ i \in 1 .. n /\ k \in 1 .. n
    BY <1>1
  <2> QED BY <2>1
<1>2. CASE k = p + 1
  BY <1>2
<1>3. CASE k > p + 1
  <2>1. PICK g \in p + 1 .. n : k = g + 1
    BY <1>3
  <2>2. g \in 1 .. n /\ after[k] = queue[g] /\ Precedes(e, queue[g])
    BY <2>1
  <2>3. CASE i <= p
    BY <2>1, <2>2, <2>3
  <2>4. CASE i = p + 1
    BY <2>2, <2>4, NotBack
  <2>5. CASE i > p + 1
    <3>1. PICK h \in p + 1 .. n : i = h + 1
      BY <2>5
    <3>2. h \in 1 .. n /\ h < g /\ after[i] = queue[h]
      BY <2>1, <3>1
    <3> QED BY <2>2, <3>2
  <2> QED BY <2>3, <2>4, <2>5
<1> QED BY <1>1, <1>2, <1>3

LEMMA PushedIsOrdered ==
    ASSUME NEW E, NEW queue \in Seq(E), NEW e \in E, Ordered(queue), Timed(queue),
           e.time \in Nat, e.priority \in Nat
    PROVE  Ordered(Pushed(queue, e))
<1> DEFINE n == Len(queue)
           after == Pushed(queue, e)
           before == {i \in DOMAIN queue : ~Precedes(e, queue[i])}
<1>0. PICK p \in 0 .. Len(queue) :
         /\ Len(Pushed(queue, e)) = Len(queue) + 1
         /\ Pushed(queue, e) \in Seq(E)
         /\ \A i \in 1 .. p : Pushed(queue, e)[i] = queue[i]
         /\ Pushed(queue, e)[p + 1] = e
         /\ \A i \in p + 1 .. Len(queue) : Pushed(queue, e)[i + 1] = queue[i]
         /\ p = Cardinality({i \in DOMAIN queue : ~Precedes(e, queue[i])})
  BY PushedBetween
<1>1. /\ p \in 0 .. n /\ n \in Nat
      /\ Len(after) = n + 1 /\ after \in Seq(E)
      /\ \A i \in 1 .. p : after[i] = queue[i]
      /\ after[p + 1] = e
      /\ \A i \in p + 1 .. n : after[i + 1] = queue[i]
      /\ p = Cardinality(before)
  BY <1>0
<1> HIDE DEF after
<1>2. ASSUME NEW i \in 1 .. n, NEW k \in 1 .. n, i < k, k \in before PROVE i \in before
  <2>1. ~Precedes(queue[k], queue[i]) /\ ~Precedes(e, queue[k])
    BY <1>2 DEF Ordered
  <2>2. /\ queue[k].time \in Nat /\ queue[k].priority \in Nat
        /\ queue[i].time \in Nat /\ queue[i].priority \in Nat
    BY DEF Timed
  <2>3. ~Precedes(e, queue[i])
    BY <2>1, <2>2, NotBefore
  <2> QED BY <2>3
<1>3. \A i \in 1 .. n : i \in before <=> i <= p
  <2>0. IsFiniteSet(1 .. n)
    BY UpToIsFinite
  <2>1. ASSUME NEW i \in 1 .. n, i \in before, ~(i <= p) PROVE FALSE
    <3>1. 1 .. i \in SUBSET before
      BY <1>2, <2>1
    <3>2. IsFiniteSet(before)
      BY <2>0, FS_Subset
    <3>3. Cardinality(1 .. i) = i
      BY UpToIsFinite
    <3>4. i <= Cardinality(before)
      BY <3>1, <3>2, <3>3, FS_Subset
    <3> QED BY <1>1, <2>1, <3>4
  <2>2. ASSUME NEW i \in 1 .. n, i \notin before, i <= p PROVE FALSE
    <3>1. before \in SUBSET (1 .. i - 1)
      BY <1>2, <2>2
    <3>2. IsFiniteSet(1 .. i - 1) /\ Cardinality(1 .. i - 1) = i - 1
      BY i - 1 \in Nat, UpToIsFinite
    <3>3. Cardinality(before) <= i - 1
      BY <3>1, <3>2, FS_Subset
    <3> QED BY <1>1, <2>2, <3>3
  <2> QED BY <2>1, <2>2
<1>4. \A i \in 1 .. n : ~Precedes(e, queue[i]) <=> i <= p
  BY <1>3
<1>5. Inserted(queue, after, e, n, p)
  <2>1. /\ \A i, k \in 1 .. n : i < k => ~Precedes(queue[k], queue[i])
        /\ \A i \in 1 .. n : queue[i].time \in Nat /\ queue[i].priority \in Nat
    BY DEF Ordered, Timed
  <2>2. \A i \in 1 .. p : after[i] = queue[i] /\ ~Precedes(e, queue[i])
    <3> HIDE DEF before, n
    <3> QED BY <1>1, <1>4
  <2>3. \A i \in p + 1 .. n : after[i + 1] = queue[i] /\ Precedes(e, queue[i])
    <3> HIDE DEF before, n
    <3> QED BY <1>1, <1>4
  <2> QED BY <1>1, <2>1, <2>2, <2>3 DEF Inserted
<1>6. \A i, k \in 1 .. n + 1 : i < k => ~Precedes(after[k], after[i])
  BY <1>1, <1>5, InsertedInOrder
<1> QED BY <1>1, <1>6 DEF Ordered, after

-----------------------------------------------------------------------------
(* Several pushes at once: each event gets a rank of its own.              *)

LEMMA EarlierIsAnOrder ==
    ASSUME NEW s, Timed(s), NEW i \in 1 .. Len(s), NEW k \in 1 .. Len(s), Len(s) \in Nat
    PROVE  /\ ~Earlier(s, i, i)
           /\ i # k => Earlier(s, i, k) \/ Earlier(s, k, i)
           /\ ~(Earlier(s, i, k) /\ Earlier(s, k, i))
           /\ \A j \in 1 .. Len(s) : Earlier(s, i, k) /\ Earlier(s, k, j) => Earlier(s, i, j)
<1> DEFINE Times(j) == s[j].time \in Nat /\ s[j].priority \in Nat
<1>1. \A j \in 1 .. Len(s) : Times(j)
  BY DEF Timed
<1>2. ~Earlier(s, i, i)
  BY <1>1 DEF Earlier, Precedes
<1>3. i # k => Earlier(s, i, k) \/ Earlier(s, k, i)
  BY DEF Earlier
<1>4. ~(Earlier(s, i, k) /\ Earlier(s, k, i))
  BY <1>1 DEF Earlier, Precedes
<1>5. ASSUME NEW j \in 1 .. Len(s), Earlier(s, i, k), Earlier(s, k, j) PROVE Earlier(s, i, j)
  <2>1. Times(i) /\ Times(j) /\ Times(k)
    BY <1>1
  <2>2. \/ Precedes(s[i], s[k])
        \/ ~Precedes(s[k], s[i]) /\ i < k
    BY <1>5 DEF Earlier
  <2>3. \/ Precedes(s[k], s[j])
        \/ ~Precedes(s[j], s[k]) /\ k < j
    BY <1>5 DEF Earlier
  <2>4. CASE Precedes(s[i], s[k]) \/ Precedes(s[k], s[j])
    <3>1. Precedes(s[k], s[j]) => ~Precedes(s[j], s[k])
      BY <2>1, NotBack
    <3>2. Precedes(s[i], s[k]) => ~Precedes(s[k], s[i])
      BY <2>1, NotBack
    <3>3. Precedes(s[i], s[j])
      BY <2>1, <2>2, <2>3, <2>4, <3>1, <3>2, StillBefore
    <3> QED BY <3>3 DEF Earlier
  <2>5. CASE ~Precedes(s[i], s[k]) /\ ~Precedes(s[k], s[j])
    <3>1. ~Precedes(s[j], s[i])
      BY <2>1, <2>2, <2>3, <2>5, NotBefore
    <3>2. i < j
      BY <2>2, <2>3, <2>5
    <3> QED BY <3>1, <3>2 DEF Earlier
  <2> QED BY <2>4, <2>5
<1> QED BY <1>2, <1>3, <1>4, <1>5

LEMMA RanksDiffer ==
    ASSUME NEW s, Timed(s), Len(s) \in Nat, DOMAIN s = 1 .. Len(s)
    PROVE  /\ \A i \in 1 .. Len(s) : Rank(s, i) \in 1 .. Len(s)
           /\ \A i, k \in 1 .. Len(s) : Earlier(s, i, k) => Rank(s, i) < Rank(s, k)
<1> DEFINE n == Len(s)
           upTo == [i \in 1 .. n |-> {k \in 1 .. n : k = i \/ Earlier(s, k, i)}]
<1>0. \A i \in 1 .. n : Rank(s, i) = Cardinality(upTo[i])
  BY DEF Rank
<1>1. IsFiniteSet(1 .. n) /\ Cardinality(1 .. n) = n
  BY UpToIsFinite
<1>2. ASSUME NEW i \in 1 .. n PROVE IsFiniteSet(upTo[i]) /\ Cardinality(upTo[i]) \in 1 .. n
  <2>1. upTo[i] \in SUBSET (1 .. n) /\ i \in upTo[i]
    OBVIOUS
  <2>2. IsFiniteSet(upTo[i]) /\ Cardinality(upTo[i]) <= n
    BY <1>1, <2>1, FS_Subset
  <2>3. Cardinality(upTo[i]) \in Nat /\ Cardinality(upTo[i]) # 0
    BY <2>1, <2>2, FS_CardinalityType, FS_EmptySet
  <2> QED BY <2>2, <2>3
<1>3. ASSUME NEW i \in 1 .. n, NEW k \in 1 .. n, Earlier(s, i, k)
      PROVE  Cardinality(upTo[i]) < Cardinality(upTo[k])
  <2>1. upTo[i] \in SUBSET upTo[k]
    BY <1>3, EarlierIsAnOrder
  <2>2. k \in upTo[k] /\ k \notin upTo[i]
    BY <1>3, EarlierIsAnOrder
  <2>3. Cardinality(upTo[i]) <= Cardinality(upTo[k])
        /\ Cardinality(upTo[i]) # Cardinality(upTo[k])
    BY <1>2, <2>1, <2>2, FS_Subset
  <2> HIDE DEF upTo
  <2>4. Cardinality(upTo[i]) \in Int /\ Cardinality(upTo[k]) \in Int
    BY <1>2
  <2> QED BY <2>3, <2>4
<1> QED BY <1>0, <1>2, <1>3

LEMMA RanksAreTaken ==
    ASSUME NEW s, Timed(s), Len(s) \in Nat, DOMAIN s = 1 .. Len(s)
    PROVE  \A r \in 1 .. Len(s) : \E i \in 1 .. Len(s) : Rank(s, i) = r
<1> DEFINE n == Len(s)
           rank == [i \in 1 .. n |-> Rank(s, i)]
<1>1. rank \in [1 .. n -> 1 .. n]
  BY RanksDiffer
<1>2. ASSUME NEW i \in 1 .. n, NEW k \in 1 .. n, i # k PROVE rank[i] # rank[k]
  <2>1. Rank(s, i) \in Int /\ Rank(s, k) \in Int
    BY RanksDiffer
  <2>2. Rank(s, i) < Rank(s, k) \/ Rank(s, k) < Rank(s, i)
    BY <1>2, RanksDiffer, EarlierIsAnOrder
  <2> QED BY <2>1, <2>2
<1> HIDE DEF rank
<1>3. rank \in Injection(1 .. n, 1 .. n)
  BY <1>1, <1>2 DEF Injection, IsInjective
<1>4. IsFiniteSet(1 .. n)
  BY UpToIsFinite
<1>5. rank \in Surjection(1 .. n, 1 .. n)
  BY <1>3, <1>4, FS_Injection
<1> QED BY <1>5 DEF Surjection, rank

LEMMA PushedAllRearranges ==
    ASSUME NEW E, NEW queue \in Seq(E), NEW events \in Seq(E), Timed(queue \o events)
    PROVE  /\ PushedAll(queue, events) \in Seq(E)
           /\ Rearranged(PushedAll(queue, events), queue \o events)
           /\ Ordered(PushedAll(queue, events))
<1>s. PICK s : s = queue \o events
  OBVIOUS
<1> DEFINE n == Len(s)
           place == [r \in 1 .. n |-> Place(s, r)]
           after == PushedAll(queue, events)
<1>0. s \in Seq(E) /\ n \in Nat /\ DOMAIN s = 1 .. n /\ Timed(s)
  BY <1>s, Joined
<1>3. after = [r \in 1 .. n |-> s[place[r]]]
  <2>1. after = [r \in DOMAIN s |-> s[Place(s, r)]]
    BY <1>s DEF PushedAll
  <2> QED BY <1>0, <2>1
<1>4. \A r \in 1 .. n : place[r] \in 1 .. n /\ Rank(s, place[r]) = r
  BY <1>0, RanksAreTaken DEF Place
<1>5. \A i \in 1 .. n : Rank(s, i) \in 1 .. n
  BY <1>0, RanksDiffer
<1>6. \A i, k \in 1 .. n : i # k => Rank(s, i) # Rank(s, k)
  <2> TAKE i, k \in 1 .. n
  <2>1. i # k => Rank(s, i) < Rank(s, k) \/ Rank(s, k) < Rank(s, i)
    BY <1>0, RanksDiffer, EarlierIsAnOrder
  <2> QED BY <1>5, <2>1
<1>7. place \in [1 .. n -> 1 .. n]
  BY <1>4
<1> HIDE DEF place, after
<1>8. place \in Bijection(1 .. n, 1 .. n)
  <2>1. \A r, t \in 1 .. n : place[r] = place[t] => r = t
    BY <1>4
  <2>2. ASSUME NEW i \in 1 .. n PROVE \E r \in 1 .. n : place[r] = i
    <3>1. Rank(s, i) \in 1 .. n /\ Rank(s, place[Rank(s, i)]) = Rank(s, i)
      BY <1>4, <1>5
    <3> QED BY <1>4, <1>6, <3>1
  <2> QED BY <1>7, <2>1, <2>2 DEF Bijection, Injection, Surjection, IsInjective
<1>9. after \in Seq(E) /\ Len(after) = n
  BY <1>0, <1>3, <1>4
<1>10. Rearranged(after, s)
  BY <1>3, <1>8, <1>9 DEF Rearranged
<1>11. ASSUME NEW i \in 1 .. n, NEW k \in 1 .. n, i < k, Precedes(after[k], after[i])
       PROVE  FALSE
  <2>1. Earlier(s, place[k], place[i])
    BY <1>3, <1>4, <1>11 DEF Earlier
  <2>2. Rank(s, place[k]) < Rank(s, place[i])
    BY <1>0, <1>4, <2>1, RanksDiffer
  <2> QED BY <1>4, <1>11, <2>2
<1>12. Ordered(after)
  BY <1>9, <1>11 DEF Ordered
<1> QED BY <1>s, <1>9, <1>10, <1>12 DEF after

-----------------------------------------------------------------------------
(* What is in a queue.                                                     *)

LEMMA RearrangedMembers ==
    ASSUME NEW queue, NEW events, Rearranged(queue, events)
    PROVE  Members(queue) = Members(events)
<1>1. PICK place \in Bijection(1 .. Len(queue), 1 .. Len(events)) :
         \A r \in 1 .. Len(queue) : queue[r] = events[place[r]]
  BY DEF Rearranged
<1>2. /\ \A r \in 1 .. Len(queue) : place[r] \in 1 .. Len(events)
      /\ \A i \in 1 .. Len(events) : \E r \in 1 .. Len(queue) : place[r] = i
  BY <1>1 DEF Bijection, Injection, Surjection
<1>3. \A r \in 1 .. Len(queue) : queue[r] \in Members(events)
  BY <1>1, <1>2 DEF Members
<1>4. ASSUME NEW i \in 1 .. Len(events) PROVE events[i] \in Members(queue)
  <2>1. PICK r \in 1 .. Len(queue) : place[r] = i
    BY <1>2
  <2> QED BY <1>1, <2>1 DEF Members
<1> QED BY <1>3, <1>4 DEF Members

LEMMA JoinedMembers ==
    ASSUME NEW E, NEW s \in Seq(E), NEW t \in Seq(E)
    PROVE  Members(s \o t) = Members(s) \cup Members(t)
<1>1. /\ Len(s \o t) = Len(s) + Len(t)
      /\ \A i \in 1 .. Len(s) : (s \o t)[i] = s[i]
      /\ \A i \in 1 .. Len(t) : (s \o t)[Len(s) + i] = t[i]
  BY Joined
<1>2. Len(s) \in Nat /\ Len(t) \in Nat
  OBVIOUS
<1>3. ASSUME NEW i \in 1 .. Len(s \o t) PROVE (s \o t)[i] \in Members(s) \cup Members(t)
  <2>1. CASE i <= Len(s)
    BY <1>1, <1>2, <2>1 DEF Members
  <2>2. CASE i > Len(s)
    <3>1. i - Len(s) \in 1 .. Len(t) /\ Len(s) + (i - Len(s)) = i
      BY <1>1, <1>2, <2>2
    <3> QED BY <1>1, <3>1 DEF Members
  <2> QED BY <1>1, <1>2, <2>1, <2>2
<1>4. ASSUME NEW i \in 1 .. Len(s) PROVE s[i] \in Members(s \o t)
  BY <1>1, <1>2 DEF Members
<1>5. ASSUME NEW i \in 1 .. Len(t) PROVE t[i] \in Members(s \o t)
  <2>1. Len(s) + i \in 1 .. Len(s \o t)
    BY <1>1, <1>2
  <2> QED BY <1>1, <2>1 DEF Members
<1> QED BY <1>3, <1>4, <1>5 DEF Members

LEMMA PushedMembers ==
    ASSUME NEW E, NEW queue \in Seq(E), NEW e \in E
    PROVE  Members(Pushed(queue, e)) = Members(queue) \cup {e}
<1>1. Members(Pushed(queue, e)) = Members(Append(queue, e))
  BY PushedRearranges, RearrangedMembers
<1>2. Members(Append(queue, e)) = Members(queue) \cup {e}
  <2>1. /\ Len(queue) \in Nat /\ Len(Append(queue, e)) = Len(queue) + 1
        /\ \A i \in 1 .. Len(queue) : Append(queue, e)[i] = queue[i]
        /\ Append(queue, e)[Len(queue) + 1] = e
    OBVIOUS
  <2>2. \A i \in 1 .. Len(queue) + 1 : i \in 1 .. Len(queue) \/ i = Len(queue) + 1
    BY <2>1
  <2> QED BY <2>1, <2>2 DEF Members
<1> QED BY <1>1, <1>2

LEMMA PushedAllMembers ==
    ASSUME NEW E, NEW queue \in Seq(E), NEW events \in Seq(E), Timed(queue \o events)
    PROVE  Members(PushedAll(queue, events)) = Members(queue) \cup Members(events)
BY PushedAllRearranges, RearrangedMembers, JoinedMembers

(* popDue takes the first event, which no other precedes.                  *)
LEMMA PoppedMembers ==
    ASSUME NEW E, NEW queue \in Seq(E), queue # <<>>
    PROVE  /\ Head(queue) \in E /\ Tail(queue) \in Seq(E)
           /\ Len(queue) \in Nat \ {0} /\ Len(Tail(queue)) = Len(queue) - 1
           /\ Head(queue) = queue[1]
           /\ \A i \in 1 .. Len(Tail(queue)) : Tail(queue)[i] = queue[i + 1]
           /\ Members(queue) = {Head(queue)} \cup Members(Tail(queue))
           /\ Ordered(queue) => /\ Ordered(Tail(queue))
                                /\ \A d \in Members(Tail(queue)) : ~Precedes(d, Head(queue))
<1>1. /\ Head(queue) \in E /\ Tail(queue) \in Seq(E) /\ Head(queue) = queue[1]
      /\ Len(queue) \in Nat \ {0} /\ Len(Tail(queue)) = Len(queue) - 1
      /\ \A i \in 1 .. Len(Tail(queue)) : Tail(queue)[i] = queue[i + 1]
  OBVIOUS
<1>2. Members(queue) = {Head(queue)} \cup Members(Tail(queue))
  <2>1. ASSUME NEW i \in 1 .. Len(queue)
        PROVE  i = 1 \/ (i - 1 \in 1 .. Len(Tail(queue)) /\ Tail(queue)[i - 1] = queue[i])
    BY <1>1
  <2>2. \A i \in 1 .. Len(Tail(queue)) : i + 1 \in 1 .. Len(queue)
    BY <1>1
  <2>3. Members(queue) \subseteq {Head(queue)} \cup Members(Tail(queue))
    <3> SUFFICES ASSUME NEW i \in 1 .. Len(queue)
                 PROVE  queue[i] \in {Head(queue)} \cup Members(Tail(queue))
      BY DEF Members
    <3> QED BY <1>1, <2>1 DEF Members
  <2>4. {Head(queue)} \cup Members(Tail(queue)) \subseteq Members(queue)
    BY <1>1, <2>2 DEF Members
  <2> QED BY <2>3, <2>4
<1>3. ASSUME Ordered(queue), NEW i \in 1 .. Len(Tail(queue)), NEW k \in 1 .. Len(Tail(queue)), i < k
      PROVE  ~Precedes(Tail(queue)[k], Tail(queue)[i])
  <2>1. i + 1 \in 1 .. Len(queue) /\ k + 1 \in 1 .. Len(queue) /\ i + 1 < k + 1
    BY <1>1, <1>3
  <2> QED BY <1>1, <1>3, <2>1 DEF Ordered
<1>4. ASSUME Ordered(queue), NEW i \in 1 .. Len(Tail(queue))
      PROVE  ~Precedes(Tail(queue)[i], Head(queue))
  <2>1. i + 1 \in 1 .. Len(queue) /\ 1 \in 1 .. Len(queue) /\ 1 < i + 1
    BY <1>1
  <2> QED BY <1>1, <1>4, <2>1 DEF Ordered
<1> QED BY <1>1, <1>2, <1>3, <1>4 DEF Ordered, Members
=============================================================================
