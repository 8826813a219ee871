----------------------- MODULE ForwardingQueueProofs -----------------------
(***************************************************************************)
(* Proofs about ForwardingQueue, for any calls of enqueue, capacity,       *)
(* hold-backs and clock.                                                   *)
(***************************************************************************)
EXTENDS ForwardingQueue, FiniteSetTheorems, WellFoundedInduction, TLAPS

USE QueueAssumption

(* A non-empty set of naturals has a least element, so First is defined.   *)
LEMMA FirstIsLeast ==
    ASSUME NEW S, S \subseteq Nat, S # {}
    PROVE  First(S) \in S /\ \A j \in S : First(S) <= j
<1> DEFINE R == OpToRel(<, Nat)
<1>1. \E i \in S : \A j \in S : <<j, i>> \notin R
  BY NatLessThanWellFounded, WFMin
<1>2. PICK i \in S : \A j \in S : <<j, i>> \notin R
  BY <1>1
<1>3. ASSUME NEW j \in S, j < i PROVE FALSE
  <2>1. <<j, i>> \in OpToRel(<, Nat)
    BY <1>3 DEF OpToRel
  <2> QED BY <1>2, <2>1
<1>4. \A j \in S : i <= j
  BY <1>3
<1> QED BY <1>4 DEF First

(* A vacant slot cannot be taken for a relay. *)
LEMMA RelayIsNotFree ==
    ASSUME NEW r \in Relay
    PROVE  r # Free
<1>1. DOMAIN r = {"job", "fire_time"}
  BY DEF Relay
<1>2. DOMAIN Free = {"job"}
  BY DEF Free
<1> QED BY <1>1, <1>2

(* An active slot holds a relay, whose job was a call of enqueue. *)
LEMMA ActiveHoldsRelay ==
    ASSUME TypeOK, NEW i \in Active
    PROVE  /\ i \in Slots
           /\ slots[i] \in Relay
           /\ slots[i].job \in Jobs
BY DEF TypeOK, Active, Relay

(* Priorities are bytes, so among the active slots one is least urgent.    *)
LEMMA WorstIsActive ==
    ASSUME TypeOK, Active # {}
    PROVE  Worst \in Active /\ \A j \in Active : Urgency(j) <= Urgency(Worst)
<1> DEFINE slack == {255 - Urgency(i) : i \in Active}
           least == {i \in Active : \A j \in Active : Urgency(j) <= Urgency(i)}
<1>1. \A i \in Active : Urgency(i) \in 0 .. 255
  BY ActiveHoldsRelay DEF Urgency
<1>2. slack \subseteq Nat /\ slack # {}
  BY <1>1
<1>3. First(slack) \in slack /\ \A t \in slack : First(slack) <= t
  BY <1>2, FirstIsLeast
<1>4. PICK i \in Active : 255 - Urgency(i) = First(slack)
  BY <1>3
<1>5. ASSUME NEW j \in Active PROVE Urgency(j) <= Urgency(i)
  <2>1. 255 - Urgency(j) \in slack
    OBVIOUS
  <2>2. First(slack) <= 255 - Urgency(j)
    BY <1>3, <2>1
  <2>3. Urgency(i) \in 0 .. 255 /\ Urgency(j) \in 0 .. 255
    BY <1>1
  <2>4. First(slack) = 255 - Urgency(i)
    BY <1>4
  <2>5. 255 - Urgency(i) <= 255 - Urgency(j)
    BY <2>2, <2>4
  <2>6. PICK a \in 0 .. 255 : a = Urgency(i)
    BY <2>3
  <2>7. PICK b \in 0 .. 255 : b = Urgency(j)
    BY <2>3
  <2>8. 255 - a <= 255 - b
    BY <2>5, <2>6, <2>7, Zenon
  <2>9. b <= a
    BY <2>8
  <2> QED BY <2>6, <2>7, <2>9, Zenon
<1>6. i \in least
  BY <1>5
<1>7. least \subseteq Nat /\ least # {}
  BY <1>6 DEF Active, Slots
<1>8. First(least) \in least
  BY <1>7, FirstIsLeast
<1> QED BY <1>8 DEF Worst

(* enqueue writes at most one slot: a vacant one, or the victim's.         *)
LEMMA FreeSlotExists ==
    ASSUME Active # Slots
    PROVE  First(Slots \ Active) \in Slots \ Active
<1>1. Slots \ Active \subseteq Nat /\ Slots \ Active # {}
  BY DEF Active, Slots
<1> QED BY <1>1, FirstIsLeast

-----------------------------------------------------------------------------

(* TypeOK: the slots, the fire buffer and the clocks keep their types.     *)
THEOREM TypeCorrect == Spec => []TypeOK
<1>1. Init => TypeOK
  BY DEF Init, TypeOK, Fates
<1>2. TypeOK /\ [Next]_vars => TypeOK'
  <2> SUFFICES ASSUME TypeOK, [Next]_vars PROVE TypeOK'
    OBVIOUS
  <2>1. ASSUME NEW j \in Jobs, NEW holdback \in Holdbacks, Enqueue(j, holdback)
        PROVE  TypeOK'
    <3> DEFINE r == [job |-> j, fire_time |-> now + holdback]
    <3>1. r \in Relay /\ r.job = j
      BY <2>1 DEF Enqueue, Relay, TypeOK
    <3> HIDE DEF r
    <3>2. /\ IntoFreeSlot(r) \/ InPlaceOfWorst(r) \/ Refused(r)
          /\ UNCHANGED <<fire_buf, pc, tickNow, now>>
      BY <2>1 DEF Enqueue, r
    <3>3. CASE IntoFreeSlot(r)
      BY <3>1, <3>2, <3>3 DEF IntoFreeSlot, TypeOK, Settle, Fates
    <3>4. CASE InPlaceOfWorst(r)
      BY <3>1, <3>2, <3>4 DEF InPlaceOfWorst, TypeOK, Settle, Fates
    <3>5. CASE Refused(r)
      BY <3>1, <3>2, <3>5 DEF Refused, TypeOK, Settle, Fates
    <3> QED BY <3>2, <3>3, <3>4, <3>5
  <2>2. ASSUME NEW id, NEW me, NEW tx, OnDuplicateHeard(id, me, tx)
        PROVE  TypeOK'
    BY <2>2 DEF OnDuplicateHeard, Vacated, TypeOK, Settle, Fates
  <2>3. CASE ReadClock
    BY <2>3 DEF ReadClock, TypeOK
  <2>4. CASE Scan
    <3>1. \A i \in Due : i \in Slots /\ slots[i] \in Relay
      BY ActiveHoldsRelay DEF Due
    <3> QED BY <2>4, <3>1 DEF Scan, Vacated, TypeOK, Settle, Fates
  <2>5. CASE FireEntry
    BY <2>5 DEF FireEntry, TypeOK, Settle, Fates
  <2>6. CASE EndTick
    BY <2>6 DEF EndTick, TypeOK
  <2>7. CASE Tick
    BY <2>7 DEF Tick, TypeOK
  <2>8. CASE UNCHANGED vars
    BY <2>8 DEF vars, TypeOK
  <2> QED BY <2>1, <2>2, <2>3, <2>4, <2>5, <2>6, <2>7, <2>8
          DEF Next, RxThread, ProcessTick
<1> QED BY <1>1, <1>2, PTL DEF Spec

(* NeverEarly: what is in the fire buffer was due when processTick read    *)
(* the clock, whatever was queued since.                                   *)
THEOREM RelaysAreNeverEarly == Spec => []NeverEarly
<1>1. Init => NeverEarly
  BY DEF Init, NeverEarly
<1>2. TypeOK /\ NeverEarly /\ [Next]_vars => NeverEarly'
  <2> SUFFICES ASSUME TypeOK, NeverEarly, [Next]_vars PROVE NeverEarly'
    OBVIOUS
  <2>1. CASE RxThread
    BY <2>1 DEF RxThread, Enqueue, OnDuplicateHeard, NeverEarly
  <2>2. CASE ReadClock
    BY <2>2 DEF ReadClock, NeverEarly, TypeOK, Relay
  <2>3. CASE Scan
    BY <2>3 DEF Scan, Due, NeverEarly
  <2>4. CASE FireEntry
    BY <2>4 DEF FireEntry, NeverEarly
  <2>5. CASE EndTick
    BY <2>5 DEF EndTick, NeverEarly
  <2>6. CASE Tick
    BY <2>6 DEF Tick, NeverEarly, TypeOK
  <2>7. CASE UNCHANGED vars
    BY <2>7 DEF vars, NeverEarly
  <2> QED BY <2>1, <2>2, <2>3, <2>4, <2>5, <2>6, <2>7 DEF Next, ProcessTick
<1> QED BY <1>1, <1>2, TypeCorrect, PTL DEF Spec

-----------------------------------------------------------------------------

(* Steps that leave the fire buffer alone leave what Ledger says of it.    *)
LEMMA SameBuffer ==
    ASSUME Ledger, fire_buf' = fire_buf
    PROVE  /\ \A i, k \in DOMAIN fire_buf' : fire_buf'[i].job = fire_buf'[k].job => i = k
           /\ Firing' = Firing
<1>1. \A i, k \in DOMAIN fire_buf : fire_buf[i].job = fire_buf[k].job => i = k
  BY DEF Ledger
<1>2. \A i, k \in DOMAIN fire_buf' : fire_buf'[i].job = fire_buf'[k].job => i = k
  BY <1>1, Zenon
<1>3. Firing' = Firing
  BY DEF Firing
<1> QED BY <1>2, <1>3

(* Steps that leave the slots alone leave what Ledger says of them.        *)
LEMMA SameSlots ==
    ASSUME Ledger, slots' = slots, Held' = Held
    PROVE  /\ \A i, k \in Active' : slots'[i].job = slots'[k].job => i = k
           /\ JobsAt(Active)' = Held'
<1>1. Active' = Active /\ JobsAt(Active)' = JobsAt(Active)
  BY DEF Active, JobsAt
<1>2. \A i, k \in Active : slots[i].job = slots[k].job => i = k
  BY DEF Ledger
<1>3. \A i, k \in Active' : slots'[i].job = slots'[k].job => i = k
  BY <1>1, <1>2
<1> QED BY <1>1, <1>3 DEF Ledger

(* Emptying slots that held relays settles exactly their jobs.             *)
LEMMA VacatingSettles ==
    ASSUME TypeOK, Ledger, NEW S, S \subseteq Active,
           NEW f \in Fates \ {"held"},
           slots' = Vacated(S), fate' = Settle(JobsAt(S), f)
    PROVE  /\ JobsAt(S) \subseteq Held
           /\ Active' = Active \ S
           /\ \A i \in Active' : slots'[i] = slots[i]
           /\ \A i, k \in Active' : slots'[i].job = slots'[k].job => i = k
           /\ JobsAt(Active)' = Held'
<1>1. S \subseteq Slots /\ \A i \in Active : slots[i] \in Relay /\ slots[i].job \in Jobs
  BY ActiveHoldsRelay
<1>2. JobsAt(S) \subseteq JobsAt(Active) /\ JobsAt(Active) = Held
  BY DEF JobsAt, Ledger
<1>3. Active' = Active \ S /\ \A i \in Active' : slots'[i] = slots[i]
  BY <1>1 DEF Active, Vacated
<1>4. \A i, k \in Active' : slots'[i].job = slots'[k].job => i = k
  BY <1>3 DEF Ledger
<1>5. Held' = Held \ JobsAt(S)
  BY <1>2 DEF Held, Settle
<1>6. JobsAt(Active)' = {slots[i].job : i \in Active \ S}
  BY <1>3 DEF JobsAt
<1>7. {slots[i].job : i \in Active \ S} = JobsAt(Active) \ JobsAt(S)
  BY DEF JobsAt, Ledger
<1> QED BY <1>2, <1>3, <1>4, <1>5, <1>6, <1>7

(* Putting a new relay into a slot that is not another relay's.            *)
LEMMA FillingKeepsLedger ==
    ASSUME TypeOK, Ledger, NEW r \in Relay, NEW p \in Slots,
           fate[r.job] = "new",
           slots' = [slots EXCEPT ![p] = r],
           fate' \in [Jobs -> Fates], fate'[r.job] = "held",
           \A j \in Jobs \ {r.job} :
               fate'[j] = IF p \in Active /\ j = slots[p].job THEN "evicted" ELSE fate[j],
           fire_buf' = fire_buf, pc' = pc
    PROVE  Ledger'
<1>1. r # Free /\ r.job \in Jobs
  BY RelayIsNotFree DEF Relay
<1>2. \A i \in Active : slots[i] \in Relay /\ slots[i].job \in Jobs
  BY ActiveHoldsRelay
<1>3. /\ slots'[p] = r
      /\ \A i \in Slots \ {p} : slots'[i] = slots[i]
      /\ Active' = Active \cup {p}
  BY <1>1 DEF Active, TypeOK
<1>4. r.job \notin Held /\ Held = JobsAt(Active)
  BY DEF Held, Ledger
<1>5. \A i \in Active : slots[i].job # r.job
  BY <1>4 DEF JobsAt
<1>6. \A i, k \in Active' : slots'[i].job = slots'[k].job => i = k
  <2>1. \A i \in Active' \ {p} : i \in Active /\ i \in Slots \ {p}
    BY <1>3 DEF Active
  <2>2. \A i, k \in Active' \ {p} : slots'[i].job = slots'[k].job => i = k
    BY <1>3, <2>1 DEF Ledger
  <2>3. \A i \in Active' \ {p} : slots'[i].job # slots'[p].job
    BY <1>3, <1>5, <2>1
  <2> QED BY <2>2, <2>3
<1>7. JobsAt(Active)' = {slots[i].job : i \in Active \ {p}} \cup {r.job}
  BY <1>3 DEF JobsAt, Active
<1>8. Held' = {slots[i].job : i \in Active \ {p}} \cup {r.job}
  <2>1. CASE p \in Active
    <3>1. Held' = (Held \ {slots[p].job}) \cup {r.job}
      BY <1>1, <1>2, <1>5, <2>1 DEF Held
    <3>2. Held \ {slots[p].job} = {slots[i].job : i \in Active \ {p}}
      BY <1>4, <2>1 DEF JobsAt, Ledger
    <3> QED BY <3>1, <3>2
  <2>2. CASE p \notin Active
    <3>1. Held' = Held \cup {r.job}
      BY <1>1, <2>2 DEF Held
    <3>2. Active \ {p} = Active
      BY <2>2
    <3> QED BY <1>4, <3>1, <3>2 DEF JobsAt
  <2> QED BY <2>1, <2>2
<1>9. Firing' = {j \in Jobs : fate'[j] = "leaving"}
  <2>1. \A j \in Jobs : fate'[j] = "leaving" <=> fate[j] = "leaving"
    <3>1. p \in Active => slots[p].job \in Held
      BY <1>4 DEF JobsAt
    <3> QED BY <1>1, <3>1 DEF Held
  <2> QED BY <2>1 DEF Firing, Ledger
<1>10. /\ \A i, k \in DOMAIN fire_buf' : fire_buf'[i].job = fire_buf'[k].job => i = k
       /\ pc' # "firing" => Firing' = {}
  BY SameBuffer DEF Ledger
<1> QED BY <1>6, <1>7, <1>8, <1>9, <1>10 DEF Ledger

(* Ledger: an accepted relay is in exactly one slot, or in exactly one     *)
(* place of the fire buffer, until its fate is settled.                    *)
THEOREM RelaysAreNeitherLostNorDoubled == Spec => []Ledger
<1>1. Init => Ledger
  BY DEF Init, Ledger, Active, JobsAt, Held, Firing
<1>2. TypeOK /\ Ledger /\ [Next]_vars /\ TypeOK' => Ledger'
  <2> SUFFICES ASSUME TypeOK, Ledger, [Next]_vars, TypeOK' PROVE Ledger'
    OBVIOUS
  <2>1. ASSUME NEW j \in Jobs, NEW holdback \in Holdbacks, Enqueue(j, holdback)
        PROVE  Ledger'
    <3> DEFINE r == [job |-> j, fire_time |-> now + holdback]
    <3>1. r \in Relay /\ r.job = j /\ fate[r.job] = "new"
      BY <2>1 DEF Enqueue, Relay, TypeOK
    <3> HIDE DEF r
    <3>2. /\ IntoFreeSlot(r) \/ InPlaceOfWorst(r) \/ Refused(r)
          /\ UNCHANGED <<fire_buf, pc, tickNow, now>>
      BY <2>1 DEF Enqueue, r
    <3>3. CASE IntoFreeSlot(r)
      <4>1. First(Slots \ Active) \in Slots \ Active
        BY <3>3, FreeSlotExists DEF IntoFreeSlot
      <4>2. \A k \in Jobs : fate'[k] = IF k = r.job THEN "held" ELSE fate[k]
        BY <3>3 DEF IntoFreeSlot, Settle
      <4> QED BY <3>1, <3>2, <3>3, <4>1, <4>2, FillingKeepsLedger
              DEF IntoFreeSlot, TypeOK
    <3>4. CASE InPlaceOfWorst(r)
      <4>1. Worst \in Active /\ Worst \in Slots
        BY <3>4, WorstIsActive DEF InPlaceOfWorst
      <4>2. fate'[r.job] = "held"
        BY <3>1, <3>4 DEF InPlaceOfWorst, Settle
      <4>3. \A k \in Jobs \ {r.job} :
               fate'[k] = IF Worst \in Active /\ k = slots[Worst].job
                          THEN "evicted" ELSE fate[k]
        BY <3>1, <3>4, <4>1 DEF InPlaceOfWorst, Settle
      <4> QED BY <3>1, <3>2, <3>4, <4>1, <4>2, <4>3, FillingKeepsLedger
              DEF InPlaceOfWorst, TypeOK
    <3>5. CASE Refused(r)
      <4>1. \A k \in Jobs : fate'[k] = IF k = r.job THEN "refused" ELSE fate[k]
        BY <3>5 DEF Refused, Settle
      <4>2. Held' = Held /\ {k \in Jobs : fate'[k] = "leaving"} = {k \in Jobs : fate[k] = "leaving"}
        BY <3>1, <4>1 DEF Held
      <4>3. slots' = slots /\ fire_buf' = fire_buf /\ pc' = pc
        BY <3>2, <3>5 DEF Refused
      <4> QED BY <4>2, <4>3, SameSlots, SameBuffer DEF Ledger
    <3> QED BY <3>2, <3>3, <3>4, <3>5
  <2>2. ASSUME NEW id, NEW me, NEW tx, OnDuplicateHeard(id, me, tx)
        PROVE  Ledger'
    <3> DEFINE S == Overtaken(id, me, tx)
    <3>1. S \subseteq Active
      BY DEF Overtaken
    <3>2. /\ slots' = Vacated(S) /\ fate' = Settle(JobsAt(S), "cancelled")
          /\ fire_buf' = fire_buf /\ pc' = pc
      BY <2>2 DEF OnDuplicateHeard
    <3> HIDE DEF S
    <3>3. "cancelled" \in Fates \ {"held"}
      BY DEF Fates
    <3>4. /\ JobsAt(S) \subseteq Held
          /\ \A i, k \in Active' : slots'[i].job = slots'[k].job => i = k
          /\ JobsAt(Active)' = Held'
      BY <3>1, <3>2, <3>3, VacatingSettles
    <3>5. {k \in Jobs : fate'[k] = "leaving"} = {k \in Jobs : fate[k] = "leaving"}
      BY <3>2, <3>4 DEF Settle, Held
    <3> QED BY <3>2, <3>4, <3>5, SameBuffer DEF Ledger
  <2>3. CASE ReadClock
    <3>1. Firing = {}
      BY <2>3 DEF ReadClock, Ledger
    <3> QED BY <2>3, <3>1 DEF ReadClock, Ledger, Active, JobsAt, Held, Firing
  <2>4. CASE Scan
    <3>1. Due \subseteq Active
      BY DEF Due
    <3>2. /\ slots' = Vacated(Due) /\ fate' = Settle(JobsAt(Due), "leaving")
          /\ fire_buf' = [i \in Due |-> slots[i]] /\ pc' = "firing"
      BY <2>4 DEF Scan
    <3>3. {j \in Jobs : fate[j] = "leaving"} = {}
      BY <2>4 DEF Scan, Ledger
    <3>4. "leaving" \in Fates \ {"held"}
      BY DEF Fates
    <3>5. /\ JobsAt(Due) \subseteq Held
          /\ \A i, k \in Active' : slots'[i].job = slots'[k].job => i = k
          /\ JobsAt(Active)' = Held'
      BY <3>1, <3>2, <3>4, VacatingSettles
    <3>6. Firing' = JobsAt(Due)
      BY <3>2 DEF Firing, JobsAt
    <3>7. {j \in Jobs : fate'[j] = "leaving"} = JobsAt(Due)
      BY <3>2, <3>3, <3>5 DEF Settle, Held
    <3>8. \A i, k \in DOMAIN fire_buf' : fire_buf'[i].job = fire_buf'[k].job => i = k
      BY <3>1, <3>2 DEF Ledger
    <3> QED BY <3>2, <3>5, <3>6, <3>7, <3>8 DEF Ledger
  <2>5. CASE FireEntry
    <3> DEFINE i == First(DOMAIN fire_buf)
    <3>1. DOMAIN fire_buf \subseteq Nat /\ DOMAIN fire_buf # {}
      BY <2>5 DEF FireEntry, TypeOK, Slots
    <3>2. i \in DOMAIN fire_buf
      BY <3>1, FirstIsLeast
    <3>3. /\ fire_buf' = [k \in DOMAIN fire_buf \ {i} |-> fire_buf[k]]
          /\ fate' = Settle({fire_buf[i].job}, "sent")
          /\ slots' = slots /\ pc' = pc /\ pc = "firing"
      BY <2>5 DEF FireEntry
    <3> HIDE DEF i
    <3>4. fire_buf[i].job \in Firing /\ Firing = {j \in Jobs : fate[j] = "leaving"}
      BY <3>2 DEF Firing, Ledger
    <3>5. Held' = Held
      BY <3>3, <3>4 DEF Settle, Held
    <3>6. Firing' = Firing \ {fire_buf[i].job}
      BY <3>2, <3>3 DEF Firing, Ledger
    <3>7. {j \in Jobs : fate'[j] = "leaving"} = Firing \ {fire_buf[i].job}
      BY <3>3, <3>4 DEF Settle
    <3>8. \A k, l \in DOMAIN fire_buf' : fire_buf'[k].job = fire_buf'[l].job => k = l
      BY <3>3 DEF Ledger
    <3> QED BY <3>3, <3>5, <3>6, <3>7, <3>8, SameSlots DEF Ledger
  <2>6. CASE EndTick
    <3>1. Firing = {}
      BY <2>6 DEF EndTick, Firing
    <3> QED BY <2>6, <3>1 DEF EndTick, Ledger, Active, JobsAt, Held, Firing
  <2>7. CASE Tick \/ UNCHANGED vars
    <3>1. slots' = slots /\ fire_buf' = fire_buf /\ pc' = pc /\ fate' = fate
      BY <2>7 DEF Tick, vars
    <3>2. Held' = Held
      BY <3>1 DEF Held
    <3> QED BY <3>1, <3>2, SameSlots, SameBuffer DEF Ledger
  <2> QED BY <2>1, <2>2, <2>3, <2>4, <2>5, <2>6, <2>7
          DEF Next, RxThread, ProcessTick
<1> QED BY <1>1, <1>2, TypeCorrect, PTL DEF Spec

-----------------------------------------------------------------------------

(* FatesFinal: a relay's fate is settled once.                             *)
THEOREM FatesAreFinal == Spec => FatesFinal
<1> DEFINE Allowed(j) ==
             \/ fate[j] = "new"  /\ fate'[j] \in {"held", "refused"}
             \/ fate[j] = "held" /\ fate'[j] \in {"evicted", "cancelled", "leaving"}
             \/ fate[j] = "leaving" /\ fate'[j] = "sent"
<1>1. TypeOK /\ Ledger /\ [Next]_vars
        => [\A j \in Jobs : fate'[j] # fate[j] => Allowed(j)]_vars
  <2> SUFFICES ASSUME TypeOK, Ledger, Next, NEW k \in Jobs, fate'[k] # fate[k]
               PROVE  Allowed(k)
    OBVIOUS
  <2>0. JobsAt(Active) = Held
    BY DEF Ledger
  <2>1. ASSUME NEW j \in Jobs, NEW holdback \in Holdbacks, Enqueue(j, holdback)
        PROVE  Allowed(k)
    <3> DEFINE r == [job |-> j, fire_time |-> now + holdback]
    <3>1. r.job = j /\ fate[j] = "new"
      BY <2>1 DEF Enqueue
    <3> HIDE DEF r
    <3>2. IntoFreeSlot(r) \/ InPlaceOfWorst(r) \/ Refused(r)
      BY <2>1 DEF Enqueue, r
    <3>3. CASE IntoFreeSlot(r) \/ Refused(r)
      BY <3>1, <3>3 DEF IntoFreeSlot, Refused, Settle
    <3>4. CASE InPlaceOfWorst(r)
      <4>1. Worst \in Active
        BY <3>4, WorstIsActive DEF InPlaceOfWorst
      <4>2. fate[slots[Worst].job] = "held"
        BY <2>0, <4>1 DEF JobsAt, Held
      <4> QED BY <3>1, <3>4, <4>2 DEF InPlaceOfWorst, Settle
    <3> QED BY <3>2, <3>3, <3>4
  <2>2. ASSUME NEW id, NEW me, NEW tx, OnDuplicateHeard(id, me, tx)
        PROVE  Allowed(k)
    <3>1. JobsAt(Overtaken(id, me, tx)) \subseteq Held
      BY <2>0 DEF Overtaken, JobsAt
    <3> QED BY <2>2, <3>1 DEF OnDuplicateHeard, Settle, Held
  <2>3. CASE Scan
    <3>1. JobsAt(Due) \subseteq Held
      BY <2>0 DEF Due, JobsAt
    <3> QED BY <2>3, <3>1 DEF Scan, Settle, Held
  <2>4. CASE FireEntry
    <3>1. DOMAIN fire_buf \subseteq Nat /\ DOMAIN fire_buf # {}
      BY <2>4 DEF FireEntry, TypeOK, Slots
    <3>2. First(DOMAIN fire_buf) \in DOMAIN fire_buf
      BY <3>1, FirstIsLeast
    <3>3. fate[fire_buf[First(DOMAIN fire_buf)].job] = "leaving"
      BY <3>2 DEF Firing, Ledger
    <3> QED BY <2>4, <3>3 DEF FireEntry, Settle
  <2>5. CASE ReadClock \/ EndTick \/ Tick
    BY <2>5 DEF ReadClock, EndTick, Tick
  <2> QED BY <2>1, <2>2, <2>3, <2>4, <2>5 DEF Next, RxThread, ProcessTick
<1> QED BY <1>1, TypeCorrect, RelaysAreNeitherLostNorDoubled, PTL DEF Spec, FatesFinal

-----------------------------------------------------------------------------

(* The relays held back: Held names them, Pooled is what their slots hold. *)
Pooled == {slots[i] : i \in Active}

(* As many relays are held back as slots are active.                       *)
Counted(S) ==
    /\ Active = Slots => Cardinality(S) = Capacity
    /\ Active # Slots => Cardinality(S) \in Nat /\ Cardinality(S) < Capacity

LEMMA OnePerSlot ==
    ASSUME NEW f, NEW S, \A i, k \in Active : f[i] = f[k] => i = k,
           f \in [Active -> S], \A v \in S : \E i \in Active : f[i] = v
    PROVE  Counted(S)
<1>1. f \in Bijection(Active, S)
  BY DEF Bijection, Injection, Surjection, IsInjective
<1>2. IsFiniteSet(Slots) /\ Cardinality(Slots) = Capacity
  <2>1. Capacity \in Nat /\ 0 \in Int /\ Capacity - 1 \in Int
    OBVIOUS
  <2>2. /\ IsFiniteSet(0 .. Capacity - 1)
        /\ Cardinality(0 .. Capacity - 1)
             = IF 0 > Capacity - 1 THEN 0 ELSE (Capacity - 1) - 0 + 1
    BY <2>1, FS_Interval
  <2> QED BY <2>1, <2>2 DEF Slots
<1>3. IsFiniteSet(Active) /\ Cardinality(Active) <= Capacity
      /\ (Cardinality(Active) = Capacity => Active = Slots)
  <2>1. Active \subseteq Slots
    BY DEF Active
  <2> QED BY <1>2, <2>1, FS_Subset
<1>4. Cardinality(S) = Cardinality(Active)
  BY <1>1, <1>3, FS_Bijection DEF ExistsBijection
<1>5. Cardinality(Active) \in Nat
  BY <1>3, FS_CardinalityType
<1> QED BY <1>2, <1>3, <1>4, <1>5 DEF Counted

LEMMA RelaysAreCounted == TypeOK /\ Ledger => Counted(Held) /\ Counted(Pooled)
<1> SUFFICES ASSUME TypeOK, Ledger PROVE Counted(Held) /\ Counted(Pooled)
  OBVIOUS
<1>1. \A i, k \in Active : slots[i].job = slots[k].job => i = k
  BY DEF Ledger
<1>2. Counted(Held)
  <2> DEFINE f == [i \in Active |-> slots[i].job]
  <2>1. Held = {slots[i].job : i \in Active}
    BY DEF Ledger, JobsAt
  <2>2. f \in [Active -> Held] /\ \A v \in Held : \E i \in Active : f[i] = v
    BY <2>1
  <2>3. \A i, k \in Active : f[i] = f[k] => i = k
    BY <1>1
  <2> HIDE DEF f
  <2> QED BY <2>2, <2>3, OnePerSlot
<1>3. Counted(Pooled)
  <2> DEFINE f == [i \in Active |-> slots[i]]
  <2>1. f \in [Active -> Pooled] /\ \A v \in Pooled : \E i \in Active : f[i] = v
    BY DEF Pooled
  <2>2. \A i, k \in Active : f[i] = f[k] => i = k
    BY <1>1
  <2> HIDE DEF f
  <2> QED BY <2>1, <2>2, OnePerSlot
<1> QED BY <1>2, <1>3

(* UrgentKept: a relay is given up for lack of room only to relays at      *)
(* least as urgent, and evicted only for a strictly more urgent one.       *)
THEOREM UrgentAreKept == Spec => UrgentKept
<1> DEFINE Fair(j) ==
             /\ Cardinality(Held') = Capacity
             /\ \A k \in Held' : Header[k].priority <= Header[j].priority
             /\ fate'[j] = "evicted" =>
                  \E k \in Held' \ Held : Header[k].priority < Header[j].priority
           GivenUp(j) == fate'[j] # fate[j] /\ fate'[j] \in {"refused", "evicted"}
<1>1. TypeOK /\ Ledger /\ Counted(Held) /\ Counted(Held)' /\ [Next]_vars
        => [\A j \in Jobs : GivenUp(j) => Fair(j)]_vars
  <2> SUFFICES ASSUME TypeOK, Ledger, Counted(Held), Counted(Held)', Next,
                      NEW k \in Jobs, GivenUp(k)
               PROVE  Fair(k)
    OBVIOUS
  <2>0. \A j \in Jobs : fate[j] = "held" <=> \E i \in Active : slots[i].job = j
    BY DEF Ledger, JobsAt, Held
  <2>1. ASSUME NEW j \in Jobs, NEW holdback \in Holdbacks, Enqueue(j, holdback)
        PROVE  Fair(k)
    <3> DEFINE r == [job |-> j, fire_time |-> now + holdback]
    <3>0. fate[j] = "new"
      BY <2>1 DEF Enqueue
    <3>1. r \in Relay /\ r.job = j /\ fate[j] = "new"
      BY <2>1, <3>0 DEF Enqueue, Relay, TypeOK
    <3> HIDE DEF r
    <3>2. IntoFreeSlot(r) \/ InPlaceOfWorst(r) \/ Refused(r)
      BY <2>1 DEF Enqueue, r
    <3>3. CASE IntoFreeSlot(r)
      BY <3>1, <3>3 DEF IntoFreeSlot, Settle
    <3>4. CASE InPlaceOfWorst(r)
      <4>1. /\ Worst \in Active /\ Worst \in Slots
            /\ \A i \in Active : Urgency(i) <= Urgency(Worst)
            /\ Header[j].priority < Urgency(Worst)
        BY <3>1, <3>4, WorstIsActive DEF InPlaceOfWorst
      <4>2. /\ slots' = [slots EXCEPT ![Worst] = r]
            /\ \A l \in Jobs : fate'[l] = IF l = j THEN "held"
                                          ELSE IF l = slots[Worst].job THEN "evicted"
                                          ELSE fate[l]
        BY <3>1, <3>4 DEF InPlaceOfWorst, Settle
      <4>3. k = slots[Worst].job /\ k # j /\ fate'[k] = "evicted"
        BY <4>2
      <4>4. Active' = Slots
        BY <3>1, <3>4, <4>1, <4>2, RelayIsNotFree DEF InPlaceOfWorst, Active, TypeOK
      <4>5. Cardinality(Held') = Capacity
        BY <4>4 DEF Counted, Slots
      <4>6. Header[k].priority = Urgency(Worst)
        BY <4>3 DEF Urgency
      <4>7. j \in Held' \ Held /\ Header[j].priority < Header[k].priority
        BY <3>1, <4>1, <4>2, <4>6 DEF Held
      <4>8. ASSUME NEW l \in Held' PROVE Header[l].priority <= Header[k].priority
        <5>1. CASE l = j
          <6>1. Header[j].priority \in 0 .. 255 /\ Header[k].priority \in 0 .. 255
            OBVIOUS
          <6>2. PICK a \in 0 .. 255 : a = Header[j].priority
            BY <6>1
          <6>3. PICK b \in 0 .. 255 : b = Header[k].priority
            BY <6>1
          <6>4. a < b
            BY <4>7, <6>2, <6>3, Zenon
          <6>5. a <= b
            BY <6>4
          <6> QED BY <5>1, <6>2, <6>3, <6>5, Zenon
        <5>2. CASE l # j
          <6>1. l \in Jobs /\ fate[l] = "held"
            BY <4>2, <5>2 DEF Held
          <6>2. PICK i \in Active : slots[i].job = l
            BY <2>0, <6>1
          <6>3. Urgency(i) <= Urgency(Worst) /\ Urgency(i) = Header[l].priority
            BY <4>1, <6>2 DEF Urgency
          <6> QED BY <4>6, <6>3
        <5> QED BY <5>1, <5>2
      <4> QED BY <4>5, <4>7, <4>8
    <3>5. CASE Refused(r)
      <4>1. k = j /\ fate'[k] = "refused" /\ Active = Slots
        BY <3>1, <3>5 DEF Refused, Settle
      <4>2. Held' = Held
        BY <3>1, <3>5 DEF Refused, Settle, Held
      <4>3. Cardinality(Held') = Capacity
        BY <4>1, <4>2 DEF Counted
      <4>4. ASSUME NEW l \in Held' PROVE Header[l].priority <= Header[k].priority
        <5>1. PICK i \in Active : slots[i].job = l
          BY <2>0, <4>2 DEF Held
        <5>2. Urgency(i) <= Urgency(Worst) /\ Urgency(i) = Header[l].priority
          BY <5>1, WorstIsActive DEF Urgency
        <5>3. Urgency(Worst) \in 0 .. 255 /\ Header[l].priority \in 0 .. 255
          BY <5>1, WorstIsActive, ActiveHoldsRelay DEF Urgency
        <5>4. Header[k].priority >= Urgency(Worst) /\ Header[k].priority \in 0 .. 255
          BY <3>1, <3>5, <4>1, <5>1 DEF Refused
        <5>5. PICK a \in 0 .. 255 : a = Header[l].priority
          BY <5>3
        <5>6. PICK b \in 0 .. 255 : b = Urgency(Worst)
          BY <5>3
        <5>7. PICK c \in 0 .. 255 : c = Header[k].priority
          BY <5>4
        <5>8. a <= b
          BY <5>2, <5>5, <5>6, Zenon
        <5>9. c >= b
          BY <5>4, <5>6, <5>7, Zenon
        <5>10. a <= c
          BY <5>8, <5>9
        <5> QED BY <5>5, <5>7, <5>10, Zenon
      <4> QED BY <4>1, <4>3, <4>4
    <3> QED BY <3>2, <3>3, <3>4, <3>5
  <2>2. CASE \E j \in Jobs, me, tx \in Points : OnDuplicateHeard(Header[j].id, me, tx)
    BY <2>2 DEF OnDuplicateHeard, Settle
  <2>3. CASE ProcessTick \/ Tick
    BY <2>3 DEF ProcessTick, ReadClock, Scan, FireEntry, EndTick, Tick, Settle
  <2> QED BY <2>1, <2>2, <2>3 DEF Next, RxThread
<1>2. Spec => [](TypeOK /\ Ledger)
  BY TypeCorrect, RelaysAreNeitherLostNorDoubled, PTL
<1>3. TypeOK /\ Ledger => Counted(Held)
  BY RelaysAreCounted
<1> QED BY <1>1, <1>2, <1>3, PTL DEF Spec, UrgentKept

-----------------------------------------------------------------------------

(* The pool measures and compares as the queue does.                       *)
LEMMA SameMeasures ==
    /\ \A S : Pool!Cardinality(S) = Cardinality(S)
    /\ \A o, me, tx : Pool!IsBetween(o, me, tx) <=> IsBetween(o, me, tx)
<1>1. \A S : Pool!Cardinality(S) = Cardinality(S)
  BY DEF Pool!Cardinality, Cardinality
<1>2. \A o, me, tx : Pool!IsBetween(o, me, tx) <=> IsBetween(o, me, tx)
  BY DEF Pool!IsBetween, IsBetween, Pool!Dist2, Dist2, Pool!Dot, Dot,
         Pool!Cross, Cross, Pool!East, East, Pool!North, North
<1> QED BY <1>1, <1>2

(* enqueue is a request to the pool: taken while there is room, then only  *)
(* in place of one of the least urgent.                                    *)
LEMMA EnqueueIsRequest ==
    ASSUME TypeOK, Ledger, NEW j \in Jobs, NEW holdback \in Holdbacks, Enqueue(j, holdback)
    PROVE  Pool!PoolNext
<1>r. PICK r : r = [job |-> j, fire_time |-> now + holdback]
  OBVIOUS
<1>0. fate[j] = "new" /\ now <= now + holdback
  <2>1. fate[j] = "new"
    BY DEF Enqueue
  <2>2. now \in Nat /\ holdback \in Nat
    BY DEF TypeOK
  <2> QED BY <2>1, <2>2
<1>1. r \in Relay /\ r.job = j /\ r \in Pool!Relay /\ now <= r.fire_time
  <2>1. r.job = j /\ r.fire_time = now + holdback
    BY <1>r
  <2>2. now + holdback \in 0 .. MaxTime
    <3>1. now + holdback <= MaxTime
      BY DEF Enqueue
    <3>2. now \in Nat /\ holdback \in Nat
      BY DEF TypeOK
    <3> QED BY <3>1, <3>2
  <2> QED BY <1>0, <1>r, <2>1, <2>2 DEF Relay, Pool!Relay
<1>2. /\ IntoFreeSlot(r) \/ InPlaceOfWorst(r) \/ Refused(r)
      /\ UNCHANGED <<fire_buf, pc, tickNow, now>>
  BY <1>r DEF Enqueue
<1>3. /\ Active = Slots => ~(Cardinality(Pooled) < Capacity) /\ Cardinality(Pooled) >= Capacity
      /\ Active # Slots => Cardinality(Pooled) < Capacity
  BY RelaysAreCounted DEF Counted
<1>4. \A i \in Active : i \in Slots /\ slots[i] \in Relay
  BY ActiveHoldsRelay
<1>5. \A i, k \in Active : slots[i] = slots[k] => i = k
  BY DEF Ledger
<1>6. CASE IntoFreeSlot(r)
  <2> DEFINE i == First(Slots \ Active)
  <2>1. i \in Slots \ Active
    BY <1>6, FreeSlotExists DEF IntoFreeSlot
  <2>2. slots' = [slots EXCEPT ![i] = r] /\ fate' = Settle({r.job}, "held") /\ Active # Slots
    BY <1>6 DEF IntoFreeSlot
  <2> HIDE DEF i
  <2>3. Active' = Active \cup {i} /\ slots'[i] = r /\ \A k \in Active : slots'[k] = slots[k]
    BY <1>1, <2>1, <2>2, RelayIsNotFree DEF Active, TypeOK
  <2>4. Pooled' = Pooled \cup {r}
    BY <2>3 DEF Pooled
  <2>5. fate' = Pool!Settle({r}, "held")
    BY <2>2 DEF Settle, Pool!Settle
  <2>6. Pool!Accept(r)
    BY <1>3, <2>2, <2>4, <2>5, SameMeasures DEF Pool!Accept, Pooled
  <2>7. Pool!Request(r)
    BY <1>0, <1>1, <1>2, <2>6 DEF Pool!Request
  <2> QED BY <1>1, <2>7 DEF Pool!PoolNext
<1>7. CASE InPlaceOfWorst(r)
  <2>o. PICK old : old = slots[Worst]
    OBVIOUS
  <2>1. /\ Worst \in Active /\ \A i \in Active : Urgency(i) <= Urgency(Worst)
        /\ Active = Slots /\ Header[r.job].priority < Urgency(Worst)
    BY <1>7, WorstIsActive DEF InPlaceOfWorst
  <2>2. slots' = [slots EXCEPT ![Worst] = r]
        /\ fate' = [Settle({old.job}, "evicted") EXCEPT ![r.job] = "held"]
    BY <1>7, <2>o DEF InPlaceOfWorst
  <2>3. Active' = Active /\ slots'[Worst] = r
        /\ \A k \in Active \ {Worst} : slots'[k] = slots[k] /\ slots[k] # old
    BY <1>1, <1>5, <2>o, <2>1, <2>2, RelayIsNotFree DEF Active, TypeOK
  <2>4. Pooled' = (Pooled \ {old}) \cup {r}
    <3>1. Pooled' = {slots[i] : i \in Active \ {Worst}} \cup {r}
      BY <2>1, <2>3 DEF Pooled
    <3>2. Pooled \ {old} = {slots[i] : i \in Active \ {Worst}}
      BY <2>o, <2>1, <2>3 DEF Pooled
    <3> QED BY <3>1, <3>2
  <2>5. fate' = [Pool!Settle({old}, "evicted") EXCEPT ![r.job] = "held"]
    BY <2>2 DEF Settle, Pool!Settle
  <2>6. old \in Pool!LeastUrgent(Pooled) /\ Pool!Urgency(r) < Pool!Urgency(old)
    BY <2>o, <2>1 DEF Pool!LeastUrgent, Pooled, Urgency, Pool!Urgency
  <2>7. Pool!Replace(r, old)
    BY <1>3, <2>1, <2>4, <2>5, <2>6, SameMeasures DEF Pool!Replace, Pooled
  <2>8. Pool!Request(r)
    BY <1>0, <1>1, <1>2, <2>6, <2>7 DEF Pool!Request, Pooled
  <2> QED BY <1>1, <2>8 DEF Pool!PoolNext
<1>8. CASE Refused(r)
  <2>1. Active = Slots /\ slots' = slots /\ fate' = Settle({r.job}, "refused")
    BY <1>8 DEF Refused
  <2>2. Pooled' = Pooled
    BY <2>1 DEF Pooled, Active
  <2>3. fate' = Pool!Settle({r}, "refused")
    BY <2>1 DEF Settle, Pool!Settle
  <2>4. ASSUME NEW i \in Active PROVE Pool!Urgency(slots[i]) <= Pool!Urgency(r)
    <3>1. Urgency(i) <= Urgency(Worst) /\ Urgency(i) = Pool!Urgency(slots[i])
      BY WorstIsActive DEF Urgency, Pool!Urgency
    <3>2. Urgency(Worst) \in 0 .. 255 /\ Urgency(i) \in 0 .. 255
      BY WorstIsActive, ActiveHoldsRelay DEF Urgency
    <3>3. Pool!Urgency(r) >= Urgency(Worst) /\ Pool!Urgency(r) \in 0 .. 255
      BY <1>1, <1>8, <2>1 DEF Refused, Pool!Urgency
    <3>4. PICK a \in 0 .. 255 : a = Urgency(i)
      BY <3>2
    <3>5. PICK b \in 0 .. 255 : b = Urgency(Worst)
      BY <3>2
    <3>6. PICK c \in 0 .. 255 : c = Pool!Urgency(r)
      BY <3>3
    <3>7. a <= b
      BY <3>1, <3>4, <3>5, Zenon
    <3>8. c >= b
      BY <3>3, <3>5, <3>6, Zenon
    <3>9. a <= c
      BY <3>7, <3>8
    <3> QED BY <3>1, <3>4, <3>6, <3>9, Zenon
  <2>5. Pool!Refuse(r)
    BY <1>3, <2>1, <2>2, <2>3, <2>4, SameMeasures DEF Pool!Refuse, Pooled
  <2>6. Pool!Request(r)
    BY <1>0, <1>1, <1>2, <2>5 DEF Pool!Request
  <2> QED BY <1>1, <2>6 DEF Pool!PoolNext
<1> QED BY <1>2, <1>6, <1>7, <1>8

(* Emptying slots takes what they held out of the pool.                    *)
LEMMA VacatingEmpties ==
    ASSUME TypeOK, Ledger, NEW S, S \subseteq Active, slots' = Vacated(S),
           NEW f, fate' = Settle(JobsAt(S), f)
    PROVE  /\ Pooled' = Pooled \ {slots[i] : i \in S}
           /\ fate' = Pool!Settle({slots[i] : i \in S}, f)
<1>1. Active' = Active \ S /\ \A i \in Active' : slots'[i] = slots[i]
  BY DEF Active, Vacated
<1>2. \A i, k \in Active : slots[i] = slots[k] => i = k
  BY DEF Ledger
<1>3. Pooled' = {slots[i] : i \in Active \ S}
  BY <1>1 DEF Pooled
<1>4. Pooled' = Pooled \ {slots[i] : i \in S}
  BY <1>2, <1>3 DEF Pooled
<1>5. JobsAt(S) = {q.job : q \in {slots[i] : i \in S}}
  BY DEF JobsAt
<1> QED BY <1>4, <1>5 DEF Settle, Pool!Settle

(* ImplementsPool: slots, scans and the fire buffer are the hold-back      *)
(* pool; every step of either thread is a step of the pool or leaves it.   *)
THEOREM QueueIsPool == Spec => ImplementsPool
<1>1. Init => Pool!PoolInit
  BY DEF Init, Pool!PoolInit, Active
<1>2. TypeOK /\ Ledger /\ NeverEarly /\ [Next]_vars => [Pool!PoolNext]_(Pool!poolVars)
  <2> SUFFICES ASSUME TypeOK, Ledger, NeverEarly, [Next]_vars
               PROVE  [Pool!PoolNext]_(Pool!poolVars)
    OBVIOUS
  <2>1. ASSUME NEW j \in Jobs, NEW holdback \in Holdbacks, Enqueue(j, holdback)
        PROVE  Pool!PoolNext
    BY <2>1, EnqueueIsRequest
  <2>2. ASSUME NEW j \in Jobs, NEW me \in Points, NEW tx \in Points,
               OnDuplicateHeard(Header[j].id, me, tx)
        PROVE  Pool!PoolNext
    <3> DEFINE id == Header[j].id
               S == Overtaken(id, me, tx)
    <3>1. S \subseteq Active
      BY DEF Overtaken
    <3>2. slots' = Vacated(S) /\ fate' = Settle(JobsAt(S), "cancelled")
          /\ fire_buf' = fire_buf /\ now' = now
      BY <2>2 DEF OnDuplicateHeard
    <3>3. {slots[i] : i \in S} = Pool!Overtaken(id, me, tx)
      BY SameMeasures DEF Overtaken, Pool!Overtaken
    <3> HIDE DEF S, id
    <3>4. /\ Pooled' = Pooled \ {slots[i] : i \in S}
          /\ fate' = Pool!Settle({slots[i] : i \in S}, "cancelled")
      BY <3>1, <3>2, VacatingEmpties
    <3>5. Pool!Cancel(id, me, tx)
      BY <3>2, <3>3, <3>4 DEF Pool!Cancel, Pooled
    <3> QED BY <3>5 DEF Pool!PoolNext, id
  <2>3. CASE Scan
    <3>s. PICK S : S = {slots[i] : i \in Due}
      OBVIOUS
    <3>1. Due \subseteq Active
      BY DEF Due
    <3>2. /\ slots' = Vacated(Due) /\ fate' = Settle(JobsAt(Due), "leaving")
          /\ fire_buf' = [i \in Due |-> slots[i]] /\ now' = now
      BY <2>3 DEF Scan
    <3>3. Pooled' = Pooled \ S /\ fate' = Pool!Settle(S, "leaving")
      BY <3>s, <3>1, <3>2, VacatingEmpties
    <3>4. DOMAIN fire_buf = {}
      <4>1. pc # "firing" /\ Firing = {}
        BY <2>3 DEF Scan, Ledger
      <4> QED BY <4>1 DEF Firing
    <3>5. {fire_buf'[i] : i \in DOMAIN fire_buf'} = {fire_buf[i] : i \in DOMAIN fire_buf} \cup S
      BY <3>s, <3>2, <3>4
    <3>6. \A i \in Due : slots[i] \in Pooled /\ slots[i].fire_time <= now
      <4>1. \A i \in Due : slots[i].fire_time \in 0 .. MaxTime /\ slots[i].fire_time <= tickNow
        BY <3>1, ActiveHoldsRelay DEF Due, Relay
      <4>2. tickNow <= now /\ tickNow \in 0 .. MaxTime /\ now \in 0 .. MaxTime
        BY DEF NeverEarly, TypeOK
      <4>3. \A i \in Due : slots[i].fire_time <= now
        BY <4>1, <4>2
      <4> QED BY <3>1, <4>3 DEF Pooled
    <3>7. S \subseteq {r \in Pooled : r.fire_time <= now} /\ S \in SUBSET Pooled
      BY <3>s, <3>6
    <3>8. Pool!Leave(S)
      BY <3>2, <3>3, <3>5, <3>7 DEF Pool!Leave, Pooled
    <3>9. Pool!PoolNext
      BY <3>7, <3>8 DEF Pool!PoolNext, Pooled
    <3> QED BY <3>9
  <2>4. CASE FireEntry
    <3> DEFINE i == First(DOMAIN fire_buf)
    <3>1. DOMAIN fire_buf \subseteq Nat /\ DOMAIN fire_buf # {}
      BY <2>4 DEF FireEntry, TypeOK, Slots
    <3>2. i \in DOMAIN fire_buf
      BY <3>1, FirstIsLeast
    <3>3. /\ fire_buf' = [k \in DOMAIN fire_buf \ {i} |-> fire_buf[k]]
          /\ fate' = Settle({fire_buf[i].job}, "sent")
          /\ slots' = slots /\ now' = now
      BY <2>4 DEF FireEntry
    <3> HIDE DEF i
    <3>4. \A k, l \in DOMAIN fire_buf : fire_buf[k] = fire_buf[l] => k = l
      BY DEF Ledger
    <3>5. {fire_buf'[k] : k \in DOMAIN fire_buf'}
            = {fire_buf[k] : k \in DOMAIN fire_buf} \ {fire_buf[i]}
      BY <3>2, <3>3, <3>4
    <3>6. fate' = Pool!Settle({fire_buf[i]}, "sent") /\ Pooled' = Pooled
      BY <3>3 DEF Settle, Pool!Settle, Pooled, Active
    <3>r. PICK r : r = fire_buf[i]
      OBVIOUS
    <3>7. Pool!Transmit(r)
      BY <3>r, <3>3, <3>5, <3>6 DEF Pool!Transmit, Pooled
    <3>8. r \in {fire_buf[k] : k \in DOMAIN fire_buf}
      BY <3>r, <3>2
    <3>9. Pool!PoolNext
      BY <3>7, <3>8 DEF Pool!PoolNext
    <3> QED BY <3>9
  <2>5. CASE Tick
    BY <2>5 DEF Tick, Pool!PoolNext, Pool!Pass, Active
  <2>6. CASE ReadClock \/ EndTick \/ UNCHANGED vars
    BY <2>6 DEF ReadClock, EndTick, vars, Pool!poolVars, Active
  <2> QED BY <2>1, <2>2, <2>3, <2>4, <2>5, <2>6 DEF Next, RxThread, ProcessTick
<1> QED BY <1>1, <1>2, TypeCorrect, RelaysAreNeitherLostNorDoubled, RelaysAreNeverEarly, PTL
        DEF Spec, ImplementsPool, Pool!PoolSpec
=============================================================================
