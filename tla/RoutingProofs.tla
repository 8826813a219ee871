--------------------------- MODULE RoutingProofs ---------------------------
(***************************************************************************)
(* Proofs about Holdback, for every distance, signal and priority byte,    *)
(* and about RoutingEngine and RoutingHistory, for any headers, places,    *)
(* signals and clock: what a verdict does to a message, and how long it    *)
(* makes a relay wait.                                                     *)
(***************************************************************************)
EXTENDS RoutingHistory, WellFoundedInduction, TLAPS

-----------------------------------------------------------------------------
(* computeHoldback.                                                        *)

One == 1260000    \* the scale of Combined

(* Combined lies between 0 and One, falls with the distance and rises with *)
(* the signal.                                                             *)
LEMMA CombinedIsMonotone ==
    ASSUME NEW d1 \in Int, NEW d2 \in Int, d1 <= d2,
           NEW r1 \in Int, NEW r2 \in Int, r2 <= r1,
           NEW s1 \in Int, NEW s2 \in Int, s2 <= s1
    PROVE  /\ Combined(d1, r1, s1) \in Nat /\ Combined(d1, r1, s1) <= One
           /\ Combined(d2, r2, s2) \in Nat
           /\ Combined(d2, r2, s2) <= Combined(d1, r1, s1)
<1>1. /\ Clamp(d1, 0, 2000) \in 0 .. 2000 /\ Clamp(d2, 0, 2000) \in 0 .. 2000
      /\ Clamp(d1, 0, 2000) <= Clamp(d2, 0, 2000)
  BY SMT DEF Clamp
<1>2. /\ Clamp(r1, -120, -30) \in -120 .. -30 /\ Clamp(r2, -120, -30) \in -120 .. -30
      /\ Clamp(r2, -120, -30) <= Clamp(r1, -120, -30)
  BY SMT DEF Clamp
<1>3. /\ Clamp(s1, -20, 15) \in -20 .. 15 /\ Clamp(s2, -20, 15) \in -20 .. 15
      /\ Clamp(s2, -20, 15) <= Clamp(s1, -20, 15)
  BY SMT DEF Clamp
<1> DEFINE far1 == Clamp(d1, 0, 2000)       far2 == Clamp(d2, 0, 2000)
           rssi1 == Clamp(r1, -120, -30)    rssi2 == Clamp(r2, -120, -30)
           snr1 == Clamp(s1, -20, 15)       snr2 == Clamp(s2, -20, 15)
<1>4. /\ Combined(d1, r1, s1) = 441 * (2000 - far1) + 5400 * (snr1 + 20) + 2100 * (rssi1 + 120)
      /\ Combined(d2, r2, s2) = 441 * (2000 - far2) + 5400 * (snr2 + 20) + 2100 * (rssi2 + 120)
  BY DEF Combined, RadioRange
<1>5. /\ far1 \in 0 .. 2000 /\ far2 \in 0 .. 2000 /\ far1 <= far2
      /\ rssi1 \in -120 .. -30 /\ rssi2 \in -120 .. -30 /\ rssi2 <= rssi1
      /\ snr1 \in -20 .. 15 /\ snr2 \in -20 .. 15 /\ snr2 <= snr1
  BY <1>1, <1>2, <1>3
<1> HIDE DEF far1, far2, rssi1, rssi2, snr1, snr2
<1> QED BY <1>4, <1>5, SMT DEF One

(* The division that scales the hold-back keeps the order.                 *)
LEMMA DivisionIsMonotone ==
    ASSUME NEW a \in Nat, NEW b \in Nat, a <= b
    PROVE  /\ a \div 11200 \in Nat /\ b \div 11200 \in Nat
           /\ a \div 11200 <= b \div 11200
OBVIOUS

(* Multiplying by the quarters of a priority keeps the order in both.      *)
LEMMA ScalingIsMonotone ==
    ASSUME NEW a \in Nat, NEW b \in Nat, a <= b,
           NEW p \in {1, 2, 4, 6}, NEW q \in {1, 2, 4, 6}, p <= q
    PROVE  a * p \in Nat /\ b * q \in Nat /\ a * p <= b * q
<1>1. a * 1 = a /\ a * 2 = a + a /\ a * 4 = a + a + a + a
      /\ a * 6 = a + a + a + a + a + a
  OBVIOUS
<1>2. b * 1 = b /\ b * 2 = b + b /\ b * 4 = b + b + b + b
      /\ b * 6 = b + b + b + b + b + b
  OBVIOUS
<1>3. CASE q = 1
  BY <1>1, <1>2, <1>3, SMT
<1>4. CASE q = 2
  BY <1>1, <1>2, <1>4, SMT
<1>5. CASE q = 4
  BY <1>1, <1>2, <1>5, SMT
<1>6. CASE q = 6
  BY <1>1, <1>2, <1>6, SMT
<1> QED BY <1>3, <1>4, <1>5, <1>6

(* The multiplier of a priority is one of four and grows with the byte.    *)
LEMMA QuartersAre ==
    ASSUME NEW p \in Nat
    PROVE  /\ Quarters[Clamp(p, 0, 3)] \in {1, 2, 4, 6}
           /\ \A q \in Nat : q <= p => Quarters[Clamp(q, 0, 3)] <= Quarters[Clamp(p, 0, 3)]
BY SMT DEF Quarters, Clamp, Priorities

(* FarFirst: a copy that came from no nearer, no stronger and no less      *)
(* urgent never waits longer (routing_engine.cpp:102-134).                 *)
THEOREM FartherNeverWaitsLonger ==
    ASSUME NEW p1 \in Bytes, NEW p2 \in Bytes, p2 <= p1,
           NEW d1 \in Int, NEW d2 \in Int, d1 <= d2,
           NEW r1 \in Int, NEW r2 \in Int, r2 <= r1,
           NEW s1 \in Int, NEW s2 \in Int, s2 <= s1
    PROVE  ComputeHoldback(p2, d2, r2, s2) <= ComputeHoldback(p1, d1, r1, s1)
<1> DEFINE c1 == Combined(d1, r1, s1)  c2 == Combined(d2, r2, s2)
           q1 == Quarters[Clamp(p1, 0, 3)]  q2 == Quarters[Clamp(p2, 0, 3)]
<1>1. c1 \in Nat /\ c2 \in Nat /\ c2 <= c1
  BY CombinedIsMonotone, Zenon
<1>2. q1 \in {1, 2, 4, 6} /\ q2 \in {1, 2, 4, 6} /\ q2 <= q1
  BY QuartersAre, SMT DEF Bytes
<1> HIDE DEF c1, c2, q1, q2
<1>3. /\ (140000 + c1) * q1 \in Nat /\ (140000 + c2) * q2 \in Nat
      /\ (140000 + c2) * q2 <= (140000 + c1) * q1
  <2>1. 140000 + c1 \in Nat /\ 140000 + c2 \in Nat /\ 140000 + c2 <= 140000 + c1
    BY <1>1, SMT
  <2> QED BY <1>2, <2>1, ScalingIsMonotone, SMT
<1>4. ((140000 + c2) * q2) \div 11200 <= ((140000 + c1) * q1) \div 11200
  BY <1>3, DivisionIsMonotone, SMT
<1> QED BY <1>4, SMT DEF ComputeHoldback, MinMs, c1, c2, q1, q2

(* A division by the scale loses less than one unit.                       *)
LEMMA Truncation ==
    ASSUME NEW a \in Nat
    PROVE  /\ a \div 11200 \in Nat
           /\ 11200 * (a \div 11200) <= a
           /\ a < 11200 * (a \div 11200) + 11200
BY SMT

(* WithinMultipliedBounds: every hold-back lies between MinMs and MaxMs    *)
(* times the multiplier of its priority, so it is never negative when it   *)
(* is cast to uint32_t (routing_engine.cpp:102-134).                       *)
THEOREM HoldbackIsBounded ==
    ASSUME NEW p \in Bytes, NEW d \in Int, NEW r \in Int, NEW s \in Int
    PROVE  LET q == Quarters[Clamp(p, 0, 3)]
               t == ComputeHoldback(p, d, r, s)
           IN  /\ t \in Nat
               /\ 4 * t <= MaxMs * q
               /\ 4 * (t + 1) > MinMs * q
<1> DEFINE c == Combined(d, r, s)
           q == Quarters[Clamp(p, 0, 3)]
           t == ComputeHoldback(p, d, r, s)
<1>1. d <= d /\ r <= r /\ s <= s
  OBVIOUS
<1>2. c \in Nat /\ c <= One
  BY <1>1, CombinedIsMonotone, Zenon
<1>3. q \in {1, 2, 4, 6}
  BY QuartersAre, SMT DEF Bytes
<1>4. t = ((140000 + c) * q) \div 11200
  BY SMT DEF ComputeHoldback, MinMs
<1> HIDE DEF c, q, t
<1> DEFINE a == (140000 + c) * q
<1>5. a \in Nat /\ a <= 1400000 * q /\ 140000 * q <= a
  <2>1. CASE q = 1
    BY <1>2, <2>1, SMT DEF One
  <2>2. CASE q = 2
    BY <1>2, <2>2, SMT DEF One
  <2>3. CASE q = 4
    BY <1>2, <2>3, SMT DEF One
  <2>4. CASE q = 6
    BY <1>2, <2>4, SMT DEF One
  <2> QED BY <1>3, <2>1, <2>2, <2>3, <2>4, SMT
<1> HIDE DEF a
<1>6. t \in Nat /\ 11200 * t <= a /\ a < 11200 * t + 11200
  <2>1. t = a \div 11200
    BY <1>4 DEF a
  <2> QED BY <1>5, <2>1, Truncation, SMT
<1>7. t \in Nat /\ 4 * t <= 500 * q /\ 4 * (t + 1) > 50 * q
  BY <1>3, <1>5, <1>6, SMT
<1> QED BY <1>7, SMT DEF MaxMs, MinMs, q, t

-----------------------------------------------------------------------------
(* The engine.                                                             *)

USE GeoAssumption, RoutingAssumption

(* A non-empty set of naturals has a least element.                        *)
LEMMA LeastNatural ==
    ASSUME NEW S, S \subseteq Nat, S # {}
    PROVE  \E m \in S : \A k \in S : m <= k
<1>1. \E m \in S : \A k \in S : <<k, m>> \notin OpToRel(<, Nat)
  BY NatLessThanWellFounded, WFMin
<1>2. PICK m \in S : \A k \in S : <<k, m>> \notin OpToRel(<, Nat)
  BY <1>1
<1>3. ASSUME NEW k \in S, k < m PROVE FALSE
  <2>1. <<k, m>> \in OpToRel(<, Nat)
    BY <1>3 DEF OpToRel
  <2> QED BY <1>2, <2>1
<1>4. \A k \in S : m <= k
  BY <1>3
<1> QED BY <1>4

(* A square exceeds every sum of squares of numbers that add up to less    *)
(* than its root.                                                          *)
LEMMA SquareOfSum ==
    ASSUME NEW x \in Nat, NEW y \in Nat
    PROVE  x * x + y * y < (x + y + 1) * (x + y + 1)
<1>1. x * y \in Nat /\ x * x \in Nat /\ y * y \in Nat
  BY SMT
<1>2. (x + y + 1) * (x + y + 1) = x * x + y * y + 2 * (x * y) + 2 * x + 2 * y + 1
  BY SMT
<1> QED BY <1>1, <1>2, SMT

(* Metres is defined: the distance rounded down exists between any two     *)
(* points, and is a natural number.                                        *)
LEMMA MetresIsNatural ==
    ASSUME NEW a \in Points, NEW b \in Points
    PROVE  Metres[a][b] \in Nat
<1> DEFINE x == Abs(East(a, b))  y == Abs(North(a, b))  n == Dist2(a, b)
           Floor(d) == d * d <= n /\ n < (d + 1) * (d + 1)
<1>1. East(a, b) \in Int /\ North(a, b) \in Int
  BY DEF East, North
<1>2. x \in Nat /\ y \in Nat /\ n = x * x + y * y
  <2>1. \A e \in Int : Abs(e) \in Nat /\ Abs(e) * Abs(e) = e * e
    BY SMT DEF Abs
  <2> QED BY <1>1, <2>1 DEF Dist2
<1>3. Metres[a][b] = CHOOSE d \in 0 .. x + y : Floor(d)
  BY DEF Metres
<1> HIDE DEF x, y, n
<1>4. n \in Nat /\ n < (x + y + 1) * (x + y + 1) /\ x + y + 1 \in Nat
  BY <1>2, SquareOfSum, SMT
<1> DEFINE T == {k \in Nat : n < k * k}
<1>5. x + y + 1 \in T
  BY <1>4
<1>6. PICK m \in T : \A k \in T : m <= k
  <2>1. T \subseteq Nat /\ T # {}
    BY <1>5
  <2> HIDE DEF T
  <2> QED BY <2>1, LeastNatural
<1>7. m \in Nat /\ n < m * m /\ m <= x + y + 1 /\ m # 0
  BY <1>4, <1>5, <1>6, SMT
<1>8. m - 1 \in Nat /\ m - 1 <= x + y /\ m - 1 \notin T
  BY <1>2, <1>6, <1>7, SMT
<1>9. (m - 1) * (m - 1) \in Nat /\ (m - 1) * (m - 1) <= n
  <2>1. (m - 1) * (m - 1) \in Nat
    BY <1>8, SMT
  <2> QED BY <1>4, <1>8, <2>1
<1>10. m - 1 \in 0 .. x + y /\ Floor(m - 1)
  BY <1>2, <1>7, <1>8, <1>9, SMT
<1>11. \E d \in 0 .. x + y : Floor(d)
  BY <1>10
<1>12. Metres[a][b] \in 0 .. x + y
  BY <1>3, <1>11
<1> QED BY <1>2, <1>12

-----------------------------------------------------------------------------

(* The hold-back of the last verdict is that of the last reception.        *)
HoldbackIsHeard ==
    /\ heard \subseteq Receptions
    /\ \A r \in heard : "holdback" \in DOMAIN result =>
           result.holdback = ComputeHoldback(r.priority, r.dist, r.rssi, r.snr)

LEMMA ReceptionsAreTyped ==
    ASSUME NEW r \in Receptions
    PROVE  r.priority \in Bytes /\ r.dist \in Int /\ r.rssi \in Int /\ r.snr \in Int
<1>1. PICK h \in Headers, me \in Places, signal \in Signals : r = Reception(h, me, signal)
  BY DEF Receptions
<1>2. /\ r.priority = h.priority /\ r.dist = Metres[h.tx][me]
      /\ r.rssi = signal.rssi /\ r.snr = signal.snr
  BY <1>1 DEF Reception
<1>3. h.tx \in Points /\ me \in Points
  OBVIOUS
<1>4. Metres[h.tx][me] \in Nat
  BY <1>3, MetresIsNatural
<1> QED BY <1>2, <1>4

(* Only a frame that is to be relayed is given a hold-back.                *)
LEMMA HoldbackOfVerdict ==
    ASSUME NEW h, NEW me, NEW signal, Evaluate(h, me, signal),
           "holdback" \in DOMAIN result'
    PROVE  result'.holdback = HoldbackOf(h, me, signal)
<1>1. ASSUME NEW v, Answer(h, v) PROVE FALSE
  BY <1>1 DEF Answer
<1> QED BY <1>1 DEF Evaluate, DropExpired, DropDuplicate, DeliverOnly, DeliverAndForward

LEMMA HoldbackFollowsReception == HistorySpec => []HoldbackIsHeard
<1>1. HistoryInit => HoldbackIsHeard
  BY DEF HistoryInit, HoldbackIsHeard
<1>2. HoldbackIsHeard /\ [HistoryNext]_historyVars => HoldbackIsHeard'
  <2> SUFFICES ASSUME HoldbackIsHeard, [HistoryNext]_historyVars PROVE HoldbackIsHeard'
    OBVIOUS
  <2>1. ASSUME NEW h \in Headers, NEW me \in Places, NEW signal \in Signals,
               Evaluate(h, me, signal), heard' = {Reception(h, me, signal)}
        PROVE  HoldbackIsHeard'
    <3> DEFINE r == Reception(h, me, signal)
    <3>1. r \in Receptions
      BY DEF Receptions
    <3>2. HoldbackOf(h, me, signal) = ComputeHoldback(r.priority, r.dist, r.rssi, r.snr)
      BY DEF HoldbackOf, Reception
    <3> QED BY <2>1, <3>1, <3>2, HoldbackOfVerdict DEF HoldbackIsHeard
  <2>2. CASE heard' = heard /\ result' = result
    BY <2>2 DEF HoldbackIsHeard
  <2> QED BY <2>1, <2>2 DEF HistoryNext, AdvanceClock, historyVars
<1> QED BY <1>1, <1>2, PTL DEF HistorySpec

(* FarFirst: no node that hears a copy from no nearer, no stronger and no  *)
(* less urgent waits longer than this node did.                            *)
THEOREM FarthestRelaysFirst == HistorySpec => []FarFirst
<1>1. HoldbackIsHeard => FarFirst
  <2> SUFFICES ASSUME HoldbackIsHeard, NEW r \in heard, NEW s \in Receptions,
                      "holdback" \in DOMAIN result,
                      s.dist >= r.dist, s.rssi <= r.rssi, s.snr <= r.snr,
                      s.priority <= r.priority
               PROVE  ComputeHoldback(s.priority, s.dist, s.rssi, s.snr) <= result.holdback
    BY DEF FarFirst
  <2>1. r \in Receptions
        /\ result.holdback = ComputeHoldback(r.priority, r.dist, r.rssi, r.snr)
    BY DEF HoldbackIsHeard
  <2>2. r.priority \in Bytes /\ r.dist \in Int /\ r.rssi \in Int /\ r.snr \in Int
    BY <2>1, ReceptionsAreTyped
  <2>3. s.priority \in Bytes /\ s.dist \in Int /\ s.rssi \in Int /\ s.snr \in Int
    BY ReceptionsAreTyped
  <2>4. r.dist <= s.dist
    BY <2>2, <2>3
  <2> QED BY <2>1, <2>2, <2>3, <2>4, FartherNeverWaitsLonger
<1> QED BY <1>1, HoldbackFollowsReception, PTL

(* WithinMultipliedBounds: every wait lies between MinMs and MaxMs times   *)
(* the multiplier of its priority.                                         *)
THEOREM WaitsAreBounded == HistorySpec => []WithinMultipliedBounds
<1>1. HoldbackIsHeard => WithinMultipliedBounds
  <2> SUFFICES ASSUME HoldbackIsHeard, NEW r \in heard, "holdback" \in DOMAIN result
               PROVE  /\ 4 * result.holdback <= MaxMs * Quarters[Clamp(r.priority, 0, 3)]
                      /\ 4 * (result.holdback + 1) > MinMs * Quarters[Clamp(r.priority, 0, 3)]
    BY DEF WithinMultipliedBounds
  <2>1. r \in Receptions
        /\ result.holdback = ComputeHoldback(r.priority, r.dist, r.rssi, r.snr)
    BY DEF HoldbackIsHeard
  <2>2. r.priority \in Bytes /\ r.dist \in Int /\ r.rssi \in Int /\ r.snr \in Int
    BY <2>1, ReceptionsAreTyped
  <2> QED BY <2>1, <2>2, HoldbackIsBounded
<1> QED BY <1>1, HoldbackFollowsReception, PTL

-----------------------------------------------------------------------------

(* Every copy of a message carries the timestamp and the lifetime it was   *)
(* sent with: a relay rewrites only hops and the transmitter's position    *)
(* (forwarding_queue.cpp:124-136).                                         *)
CopiesAgree ==
    \A h, g \in Headers : h.id = g.id => h.timestamp = g.timestamp /\ h.lifetime = g.lifetime

(* No expiry time is beyond the width of the seconds.                      *)
SecondsFit == \A h \in Headers : h.timestamp + h.lifetime < Word

HistoryTypes ==
    /\ clock \in 0 .. Word - 1
    /\ delivered \in [Ids -> Nat]
    /\ expired \subseteq Ids

LEMMA HistoryIsTyped == HistorySpec => []HistoryTypes
<1>1. HistoryInit => HistoryTypes
  BY DEF HistoryInit, Init, HistoryTypes
<1>2. HistoryTypes /\ [HistoryNext]_historyVars => HistoryTypes'
  <2> SUFFICES ASSUME HistoryTypes, [HistoryNext]_historyVars PROVE HistoryTypes'
    OBVIOUS
  <2>1. ASSUME NEW h \in Headers, NEW me, NEW signal, Evaluate(h, me, signal), Judge(h)
        PROVE  HistoryTypes'
    <3>1. clock' = clock
      BY <2>1 DEF Evaluate, DropExpired, DropDuplicate, DeliverOnly, DeliverAndForward
    <3> QED BY <2>1, <3>1 DEF Judge, HistoryTypes
  <2>2. CASE AdvanceClock /\ UNCHANGED <<delivered, expired, lost, heard>>
    BY <2>2 DEF AdvanceClock, HistoryTypes
  <2>3. CASE UNCHANGED historyVars
    BY <2>3 DEF historyVars, HistoryTypes
  <2> QED BY <2>1, <2>2, <2>3 DEF HistoryNext
<1> QED BY <1>1, <1>2, PTL DEF HistorySpec

LEMMA SmallRemainder ==
    ASSUME NEW a \in Nat, NEW w \in Nat \ {0}, a < w
    PROVE  a % w = a
BY SMT

(* A message too old is expired to the engine, whatever the overflow; one  *)
(* the engine finds expired is too old, unless its expiry overflows.       *)
LEMMA OlderIsExpired ==
    ASSUME NEW h \in Headers, HistoryTypes
    PROVE  /\ Older(h) => Expired(h)
           /\ SecondsFit => (Expired(h) => Older(h))
<1>1. /\ h.timestamp \in Nat /\ h.lifetime \in Nat /\ h.timestamp + h.lifetime \in Nat
      /\ clock \in Nat /\ clock < Word /\ Word \in Nat \ {0}
  BY DEF HistoryTypes
<1>2. Older(h) => h.timestamp + h.lifetime < clock
  BY <1>1 DEF Older
<1>3. h.timestamp + h.lifetime < Word
        => (h.timestamp + h.lifetime) % Word = h.timestamp + h.lifetime
  BY <1>1, SmallRemainder
<1>4. Older(h) => Expired(h)
  <2>1. Older(h) => h.timestamp + h.lifetime < Word
    BY <1>1, <1>2
  <2> QED BY <1>2, <1>3, <2>1 DEF Older, TimeKnown, Expired
<1>5. SecondsFit /\ Expired(h) => h.timestamp + h.lifetime < clock
  BY <1>3 DEF SecondsFit, Expired
<1>6. h.timestamp + h.lifetime < clock => clock - h.timestamp > h.lifetime
  BY <1>1
<1> QED BY <1>4, <1>5, <1>6 DEF Older, TimeKnown, Expired

(* What a call of evaluate does to the filter and to the message.          *)
LEMMA VerdictDoes ==
    ASSUME NEW h, NEW me, NEW signal, Evaluate(h, me, signal)
    PROVE  /\ clock' = clock
           /\ Expired(h) => result'.verdict = "DROP" /\ cache' = cache
           /\ ~Expired(h) =>
                /\ cache' = Dup!Touch(cache, h.id)
                /\ result'.verdict = "DROP" <=> h.id \in cache.ids
BY DEF Evaluate, DropExpired, DropDuplicate, DeliverOnly, DeliverAndForward, Answer, Filter,
       Dup!Remembers

LEMMA TouchAddsOne ==
    ASSUME NEW c, NEW id
    PROVE  Dup!Touch(c, id).ids \subseteq c.ids \cup {id}
BY DEF Dup!Touch, Dup!Kept

(* FreshNeverLost: while expiry times fit their width, no message is       *)
(* dropped within its lifetime unless a copy was delivered before.  What   *)
(* the filter remembers was delivered.                                     *)
RememberedWasDelivered == \A i \in cache.ids : i \in Ids /\ delivered[i] > 0

THEOREM FreshAreNeverLost == SecondsFit => (HistorySpec => []FreshNeverLost)
<1> SUFFICES ASSUME SecondsFit PROVE HistorySpec => []FreshNeverLost
  OBVIOUS
<1> DEFINE Inv == RememberedWasDelivered /\ FreshNeverLost
<1>1. HistoryInit => Inv
  BY DEF HistoryInit, Init, Dup!Empty, RememberedWasDelivered, FreshNeverLost
<1>2. HistoryTypes /\ Inv /\ [HistoryNext]_historyVars => Inv'
  <2> SUFFICES ASSUME HistoryTypes, Inv, [HistoryNext]_historyVars PROVE Inv'
    OBVIOUS
  <2>1. ASSUME NEW h \in Headers, NEW me, NEW signal, Evaluate(h, me, signal), Judge(h)
        PROVE  Inv'
    <3>1. /\ delivered' = [delivered EXCEPT ![h.id] =
                             IF result'.verdict = "DROP" THEN @ ELSE @ + 1]
          /\ lost' = IF result'.verdict = "DROP" /\ ~Older(h) /\ delivered[h.id] = 0
                     THEN lost \cup {h.id} ELSE lost
      BY <2>1 DEF Judge
    <3>2. h.id \in Ids /\ delivered \in [Ids -> Nat]
      BY DEF HistoryTypes
    <3>3. \A i \in Ids : delivered'[i] \in Nat /\ delivered'[i] >= delivered[i]
      BY <3>1, <3>2
    <3>4. CASE Expired(h)
      <4>1. Older(h) /\ cache' = cache
        BY <2>1, <3>4, OlderIsExpired, VerdictDoes
      <4> QED BY <3>1, <3>2, <3>3, <4>1 DEF RememberedWasDelivered, FreshNeverLost
    <3>5. CASE ~Expired(h)
      <4>1. cache'.ids \subseteq cache.ids \cup {h.id}
        BY <2>1, <3>5, VerdictDoes, TouchAddsOne
      <4>2. result'.verdict = "DROP" <=> h.id \in cache.ids
        BY <2>1, <3>5, VerdictDoes
      <4>3. delivered'[h.id] > 0
        BY <3>1, <3>2, <4>2 DEF RememberedWasDelivered
      <4>4. lost' = lost
        BY <3>1, <4>2 DEF RememberedWasDelivered
      <4> QED BY <3>2, <3>3, <4>1, <4>3, <4>4 DEF RememberedWasDelivered, FreshNeverLost
    <3> QED BY <3>4, <3>5
  <2>2. CASE cache' = cache /\ delivered' = delivered /\ lost' = lost
    BY <2>2 DEF RememberedWasDelivered, FreshNeverLost
  <2> QED BY <2>1, <2>2 DEF HistoryNext, AdvanceClock, historyVars
<1> QED BY <1>1, <1>2, HistoryIsTyped, PTL DEF HistorySpec

(* NoResurrection: once a copy was dropped for its age, every later copy   *)
(* is as old, so none is delivered, although no mark was left.             *)
ExpiredAreOld == \A h \in Headers : h.id \in expired => Older(h)

THEOREM TheExpiredStayDropped == CopiesAgree => (HistorySpec => NoResurrection)
<1> SUFFICES ASSUME CopiesAgree PROVE HistorySpec => NoResurrection
  OBVIOUS
<1>1. HistoryInit => ExpiredAreOld
  BY DEF HistoryInit, ExpiredAreOld
<1>2. HistoryTypes /\ ExpiredAreOld /\ [HistoryNext]_historyVars => ExpiredAreOld'
  <2> SUFFICES ASSUME HistoryTypes, ExpiredAreOld, [HistoryNext]_historyVars,
                      NEW g \in Headers, g.id \in expired'
               PROVE  Older(g)'
    BY DEF ExpiredAreOld
  <2>1. ASSUME NEW h \in Headers, NEW me, NEW signal, Evaluate(h, me, signal), Judge(h)
        PROVE  Older(g)'
    <3>1. clock' = clock
      BY <2>1, VerdictDoes
    <3>2. Older(g)
      <4>1. CASE g.id \in expired
        BY <4>1 DEF ExpiredAreOld
      <4>2. CASE g.id \notin expired
        <5>1. g.id = h.id /\ Older(h)
          BY <2>1, <4>2 DEF Judge
        <5>2. g.timestamp = h.timestamp /\ g.lifetime = h.lifetime
          BY <5>1 DEF CopiesAgree
        <5> QED BY <5>1, <5>2 DEF Older, TimeKnown
      <4> QED BY <4>1, <4>2
    <3> QED BY <3>1, <3>2 DEF Older, TimeKnown
  <2>2. CASE AdvanceClock /\ UNCHANGED <<delivered, expired, lost, heard>>
    <3>1. Older(g)
      BY <2>2 DEF ExpiredAreOld
    <3>2. clock \in Nat /\ clock # 0 /\ clock' = clock + 1
      BY <2>2, <3>1 DEF AdvanceClock, Older, TimeKnown, HistoryTypes
    <3>3. g.timestamp \in Nat /\ g.lifetime \in Nat
      OBVIOUS
    <3> QED BY <3>1, <3>2, <3>3 DEF Older, TimeKnown
  <2>3. CASE UNCHANGED historyVars
    BY <2>3 DEF historyVars, ExpiredAreOld, Older, TimeKnown
  <2> QED BY <2>1, <2>2, <2>3 DEF HistoryNext
<1>3. HistoryTypes /\ ExpiredAreOld /\ [HistoryNext]_historyVars
        => [\A i \in expired : delivered'[i] = delivered[i]]_historyVars
  <2> SUFFICES ASSUME HistoryTypes, ExpiredAreOld, HistoryNext, NEW i \in expired
               PROVE  delivered'[i] = delivered[i]
    OBVIOUS
  <2>1. ASSUME NEW h \in Headers, NEW me, NEW signal, Evaluate(h, me, signal), Judge(h)
        PROVE  delivered'[i] = delivered[i]
    <3>1. delivered' = [delivered EXCEPT ![h.id] =
                          IF result'.verdict = "DROP" THEN @ ELSE @ + 1]
      BY <2>1 DEF Judge
    <3>2. CASE h.id = i
      <4>1. result'.verdict = "DROP"
        BY <2>1, <3>2, OlderIsExpired, VerdictDoes DEF ExpiredAreOld
      <4> QED BY <3>1, <4>1 DEF HistoryTypes
    <3>3. CASE h.id # i
      BY <3>1, <3>3 DEF HistoryTypes
    <3> QED BY <3>2, <3>3
  <2>2. CASE delivered' = delivered
    BY <2>2
  <2> QED BY <2>1, <2>2 DEF HistoryNext
<1> QED BY <1>1, <1>2, <1>3, HistoryIsTyped, PTL DEF HistorySpec, NoResurrection

-----------------------------------------------------------------------------

LEMMA TouchKeepsType ==
    ASSUME Dup!TypeOK, NEW id \in Ids, cache' = Dup!Touch(cache, id)
    PROVE  Dup!TypeOK'
<1>1. PICK kept : kept = Dup!Kept(cache, id)
  OBVIOUS
<1>2. kept \subseteq Ids
  BY <1>1 DEF Dup!TypeOK, Dup!Kept
<1>3. /\ cache'.ids = kept \cup {id}
      /\ cache'.older = (cache.older \cap (kept \X kept)) \cup (kept \X {id})
  BY <1>1 DEF Dup!Touch
<1> QED BY <1>2, <1>3 DEF Dup!TypeOK

LEMMA AnswerIsTyped ==
    ASSUME NEW h, h.id \in Ids, NEW v \in {"DROP", "DELIVER_ONLY"}, Answer(h, v), Dup!TypeOK',
           clock' \in 0 .. Word - 1
    PROVE  TypeOK'
<1>1. result'.verdict = v /\ result'.id = h.id /\ "holdback" \notin DOMAIN result'
  BY DEF Answer
<1> QED BY <1>1 DEF TypeOK, Verdicts

(* Whatever is received, and whenever, the filter remembers ids only, and  *)
(* orders only what it remembers; a hold-back is computed for the verdict  *)
(* to forward and for no other (routing_engine.cpp:46-99).                 *)
THEOREM TypeCorrect == HistorySpec => []TypeOK
<1>1. HistoryInit => TypeOK
  BY DEF HistoryInit, Init, TypeOK, NoResult, Dup!TypeOK, Dup!Empty, NoCall, Dup!NoCall
<1>2. TypeOK /\ [HistoryNext]_historyVars => TypeOK'
  <2> SUFFICES ASSUME TypeOK, [HistoryNext]_historyVars PROVE TypeOK'
    OBVIOUS
  <2>1. ASSUME NEW h \in Headers, NEW me, NEW signal, Evaluate(h, me, signal) PROVE TypeOK'
    <3>1. h.id \in Ids /\ clock' = clock /\ clock \in 0 .. Word - 1
      BY <2>1, VerdictDoes DEF TypeOK
    <3>2. Dup!TypeOK'
      <4>1. CASE cache' = cache
        BY <4>1 DEF TypeOK, Dup!TypeOK
      <4>2. CASE cache' = Dup!Touch(cache, h.id)
        BY <3>1, <4>2, TouchKeepsType DEF TypeOK
      <4> QED BY <2>1, <4>1, <4>2, VerdictDoes
    <3>3. CASE DropExpired(h) \/ DropDuplicate(h)
      BY <3>1, <3>2, <3>3, AnswerIsTyped DEF DropExpired, DropDuplicate
    <3>4. CASE DeliverOnly(h, me)
      BY <3>1, <3>2, <3>4, AnswerIsTyped DEF DeliverOnly
    <3>5. CASE DeliverAndForward(h, me, signal)
      <4>1. /\ result'.verdict = "DELIVER_AND_FORWARD" /\ result'.id = h.id
            /\ "holdback" \in DOMAIN result'
        BY <3>5 DEF DeliverAndForward
      <4> QED BY <3>1, <3>2, <4>1 DEF TypeOK, Verdicts
    <3> QED BY <2>1, <3>3, <3>4, <3>5 DEF Evaluate
  <2>2. CASE AdvanceClock
    BY <2>2 DEF AdvanceClock, TypeOK, Dup!TypeOK
  <2>3. CASE UNCHANGED historyVars
    BY <2>3 DEF historyVars, TypeOK, Dup!TypeOK
  <2> QED BY <2>1, <2>2, <2>3 DEF HistoryNext
<1> QED BY <1>1, <1>2, PTL DEF HistorySpec
=============================================================================
