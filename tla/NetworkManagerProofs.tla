------------------------ MODULE NetworkManagerProofs ------------------------
(***************************************************************************)
(* Proofs about NetworkManager, for any frames, headers, queue depths and  *)
(* number of senders.                                                      *)
(***************************************************************************)
EXTENDS NetworkManager, FiniteSetTheorems, WellFoundedInduction, TLAPS

(* What is assumed, a fact at a time.                                      *)
LEMMA NotAFrame == NoFrame \notin Frames
BY ManagerAssumption, SMT DEF ManagerAssumption

LEMMA PrioritiesAreBytes == \A f \in Frames : Header[f].priority \in 0 .. 255
BY ManagerAssumption, SMT DEF ManagerAssumption

LEMMA SizesAreNatural == QueueSize \in Nat /\ CacheSize \in Nat \ {0}
BY ManagerAssumption, SMT DEF ManagerAssumption

-----------------------------------------------------------------------------
(* The life of the threads.                                                *)

(* The threads are spawned once, and stop() has joined them before it      *)
(* returns.                                                                *)
OwnerOrder ==
    /\ main \in {"installing", "spawning"} => started
    /\ ~started \/ main \in {"installing", "spawning"} => rx = "unborn" /\ fwd = "unborn"
    /\ main \in {"joining", "stopped"} => rx \in {"unborn", "exited"}
    /\ main = "stopped" => fwd \in {"unborn", "exited"}

(* The RX thread has a frame exactly while it works on one.                *)
RxOrder ==
    /\ rxFate \in [Frames -> RxFates]
    /\ rx_queue \in Seq(Frames)
    /\ evt \in Frames \cup {NoFrame}
    /\ evt # NoFrame <=> rx \in {"got", "heard", "judged", "called"}

LEMMA OwnerKeepsOrder == Spec => []OwnerOrder
<1>1. Init => OwnerOrder
  BY DEF Init, OwnerOrder
<1>2. OwnerOrder /\ [Next]_vars => OwnerOrder'
  <2> SUFFICES ASSUME OwnerOrder, [Next]_vars PROVE OwnerOrder'
    OBVIOUS
  <2>1. CASE Owner
    BY <2>1 DEF Owner, StartExchange, StartInstall, StartSpawn, Destroy, StopSignal, Stop,
                StopNotify, StopJoinRx, StopJoinFwd, OwnerOrder, rxVars
  <2>2. CASE Radio
    BY <2>2 DEF Radio, Unheard, Arrive, ownerVars, OwnerOrder
  <2>3. CASE RxThread
    <3>1. rx \notin {"unborn", "exited"} /\ UNCHANGED <<main, started, fwd>>
      BY <2>3 DEF RxThread, RxLoop, RxCheck, RxBlock, RxTimeout, RxEmpty, RxTake, RxTruncated,
                  RxCancel, RxEvaluate, RxDrop, RxDeliver, RxForward, ownerVars
    <3> QED BY <3>1 DEF OwnerOrder
  <2>4. CASE FwdThread
    BY <2>4 DEF FwdThread, FwdTick, FwdExit, ownerVars, rxVars, OwnerOrder
  <2>5. CASE Send \/ SetAppRxCallback \/ UNCHANGED vars
    BY <2>5 DEF Send, SendNumber, SendMark, SendLink, SetAppRxCallback, vars, ownerVars,
                rxVars, OwnerOrder
  <2> QED BY <2>1, <2>2, <2>3, <2>4, <2>5 DEF Next
<1> QED BY <1>1, <1>2, PTL DEF Spec

(* QuietAfterStop: once stop() has returned nothing is delivered or        *)
(* relayed: both threads are gone.                                         *)
THEOREM StoppedIsQuiet == Spec => QuietAfterStop
<1>1. OwnerOrder /\ [Next]_vars
        => [main = "stopped" /\ main' = "stopped" =>
              UNCHANGED <<delivered, result, relayVars, evt>>]_vars
  <2> SUFFICES ASSUME OwnerOrder, Next, main = "stopped", main' = "stopped"
               PROVE  UNCHANGED <<delivered, result, relayVars, evt>>
    OBVIOUS
  <2>0. rx \in {"unborn", "exited"} /\ fwd \in {"unborn", "exited"}
    BY DEF OwnerOrder
  <2>1. CASE Owner
    BY <2>1 DEF Owner, StartExchange, StartInstall, StartSpawn, Destroy, StopSignal, Stop,
                StopNotify, StopJoinRx, StopJoinFwd, rxVars, routeVars, appVars
  <2>2. CASE Radio
    BY <2>2 DEF Radio, Unheard, Arrive, routeVars, appVars
  <2>3. CASE RxThread
    BY <2>0, <2>3 DEF RxThread, RxLoop, RxCheck, RxBlock, RxTimeout, RxEmpty, RxTake,
                RxTruncated, RxCancel, RxEvaluate, RxDrop, RxDeliver, RxForward
  <2>4. CASE FwdThread
    BY <2>0, <2>4 DEF FwdThread, FwdTick, FwdExit
  <2>5. CASE Send \/ SetAppRxCallback
    BY <2>5 DEF Send, SendNumber, SendMark, SendLink, SetAppRxCallback, rxVars, routeVars,
                appVars
  <2> QED BY <2>1, <2>2, <2>3, <2>4, <2>5 DEF Next
<1> QED BY <1>1, OwnerKeepsOrder, PTL DEF Spec, QuietAfterStop

-----------------------------------------------------------------------------
(* The way of a frame through the RX thread.                               *)

LEMMA RxKeepsOrder == Spec => []RxOrder
<1>1. Init => RxOrder
  BY DEF Init, RxOrder, RxFates
<1>2. OwnerOrder /\ RxOrder /\ [Next]_vars => RxOrder'
  <2> SUFFICES ASSUME OwnerOrder, RxOrder, [Next]_vars PROVE RxOrder'
    OBVIOUS
  <2>1. CASE Owner
    BY <2>1 DEF Owner, StartExchange, StartInstall, StartSpawn, Destroy, StopSignal, Stop,
                StopNotify, StopJoinRx, StopJoinFwd, OwnerOrder, RxOrder, rxVars
  <2>2. ASSUME NEW f \in Frames, Unheard(f) PROVE RxOrder'
    BY <2>2 DEF Unheard, RxOrder, RxFates
  <2>3. ASSUME NEW f \in Frames, Arrive(f) PROVE RxOrder'
    BY <2>3 DEF Arrive, RxOrder, RxFates
  <2>4. CASE RxLoop \/ RxCheck \/ RxBlock \/ RxTimeout \/ RxEmpty
    BY <2>4 DEF RxLoop, RxCheck, RxBlock, RxTimeout, RxEmpty, RxOrder
  <2>5. CASE RxTake
    <3>1. Head(rx_queue) \in Frames /\ Tail(rx_queue) \in Seq(Frames)
      BY <2>5 DEF RxTake, RxOrder
    <3> QED BY <2>5, <3>1, NotAFrame DEF RxTake, RxOrder, RxFates
  <2>6. CASE RxTruncated \/ RxDrop \/ RxForward
    BY <2>6, NotAFrame DEF RxTruncated, RxDrop, RxForward, RxDone, RxOrder, RxFates
  <2>7. CASE RxCancel \/ RxEvaluate \/ RxDeliver
    BY <2>7 DEF RxCancel, RxEvaluate, RxDeliver, RxOrder
  <2>8. CASE FwdThread
    BY <2>8 DEF FwdThread, FwdTick, FwdExit, rxVars, RxOrder
  <2>9. CASE Send \/ SetAppRxCallback \/ UNCHANGED vars
    BY <2>9 DEF Send, SendNumber, SendMark, SendLink, SetAppRxCallback, vars, rxVars, RxOrder
  <2> QED BY <2>1, <2>2, <2>3, <2>4, <2>5, <2>6, <2>7, <2>8, <2>9 DEF Next, Radio, RxThread
<1> QED BY <1>1, <1>2, OwnerKeepsOrder, PTL DEF Spec

(* FramesAccounted: a frame the handler took is in the queue once, or in   *)
(* the RX thread's hands, or done with.                                    *)
THEOREM FramesAreAccounted == Spec => []FramesAccounted
<1>1. Init => FramesAccounted
  BY DEF Init, FramesAccounted
<1>2. OwnerOrder /\ RxOrder /\ FramesAccounted /\ [Next]_vars => FramesAccounted'
  <2> SUFFICES ASSUME OwnerOrder, RxOrder, FramesAccounted, [Next]_vars
               PROVE  FramesAccounted'
    OBVIOUS
  <2>0. CASE rx_queue' = rx_queue /\ rxFate' = rxFate /\ evt' = evt
    BY <2>0 DEF FramesAccounted
  <2>1. CASE Owner
    BY <2>0, <2>1 DEF Owner, StartExchange, StartInstall, StartSpawn, Destroy, StopSignal, Stop,
                StopNotify, StopJoinRx, StopJoinFwd, rxVars
  <2>2. ASSUME NEW f \in Frames, Unheard(f) PROVE FramesAccounted'
    BY <2>2 DEF Unheard, MayArrive, RxOrder, FramesAccounted
  <2>3. ASSUME NEW f \in Frames, Arrive(f) PROVE FramesAccounted'
    <3>0. rxFate[f] = "away" /\ evt' = evt /\ rx_queue \in Seq(Frames)
      BY <2>3 DEF Arrive, MayArrive, RxOrder
    <3>1. CASE rxFate' = [rxFate EXCEPT ![f] = "overflow"] /\ rx_queue' = rx_queue
      BY <3>0, <3>1 DEF RxOrder, FramesAccounted
    <3>2. CASE rxFate' = [rxFate EXCEPT ![f] = "queued"] /\ rx_queue' = Append(rx_queue, f)
      <4>1. f \notin {rx_queue[i] : i \in 1 .. Len(rx_queue)}
        BY <3>0 DEF FramesAccounted
      <4>2. /\ Len(rx_queue') = Len(rx_queue) + 1 /\ Len(rx_queue) \in Nat
            /\ \A i \in 1 .. Len(rx_queue) : rx_queue'[i] = rx_queue[i]
            /\ rx_queue'[Len(rx_queue) + 1] = f
        BY <3>0, <3>2
      <4>3. {rx_queue'[i] : i \in 1 .. Len(rx_queue')}
              = {rx_queue[i] : i \in 1 .. Len(rx_queue)} \cup {f}
        BY <4>2
      <4>4. \A i, k \in 1 .. Len(rx_queue') : rx_queue'[i] = rx_queue'[k] => i = k
        BY <4>1, <4>2 DEF FramesAccounted
      <4>5. {g \in Frames : rxFate'[g] = "queued"} = {g \in Frames : rxFate[g] = "queued"} \cup {f}
        BY <3>2 DEF RxOrder
      <4>6. {g \in Frames : rxFate'[g] = "processing"} = {g \in Frames : rxFate[g] = "processing"}
        BY <3>0, <3>2 DEF RxOrder
      <4> QED BY <3>0, <4>3, <4>4, <4>5, <4>6 DEF FramesAccounted
    <3> QED BY <2>3, <3>1, <3>2 DEF Arrive
  <2>4. CASE RxLoop \/ RxCheck \/ RxBlock \/ RxTimeout \/ RxEmpty
    BY <2>0, <2>4 DEF RxLoop, RxCheck, RxBlock, RxTimeout, RxEmpty
  <2>5. CASE RxTake
    <3> DEFINE f == Head(rx_queue)
    <3>0. /\ rx_queue \in Seq(Frames) /\ rx_queue # <<>> /\ evt = NoFrame
          /\ evt' = f /\ rx_queue' = Tail(rx_queue)
          /\ rxFate' = [rxFate EXCEPT ![f] = "processing"]
      BY <2>5 DEF RxTake, RxOrder
    <3>1. /\ Len(rx_queue) \in Nat /\ Len(rx_queue) >= 1 /\ f = rx_queue[1] /\ f \in Frames
          /\ Len(rx_queue') = Len(rx_queue) - 1
          /\ \A i \in 1 .. Len(rx_queue') : rx_queue'[i] = rx_queue[i + 1]
      BY <3>0
    <3> HIDE DEF f
    <3>2. \A i, k \in 1 .. Len(rx_queue') : rx_queue'[i] = rx_queue'[k] => i = k
      BY <3>1 DEF FramesAccounted
    <3>3. {rx_queue'[i] : i \in 1 .. Len(rx_queue')}
            = {rx_queue[i] : i \in 1 .. Len(rx_queue)} \ {f}
      <4>1. ASSUME NEW i \in 1 .. Len(rx_queue')
            PROVE  /\ rx_queue'[i] # f
                   /\ \E j \in 1 .. Len(rx_queue) : rx_queue'[i] = rx_queue[j]
        <5>1. i + 1 \in 1 .. Len(rx_queue) /\ rx_queue'[i] = rx_queue[i + 1] /\ i + 1 # 1
          BY <3>1
        <5>2. rx_queue[i + 1] # rx_queue[1]
          BY <3>1, <5>1 DEF FramesAccounted
        <5> QED BY <3>1, <5>1, <5>2
      <4>2. ASSUME NEW i \in 1 .. Len(rx_queue), rx_queue[i] # f
            PROVE  \E j \in 1 .. Len(rx_queue') : rx_queue[i] = rx_queue'[j]
        <5>1. i # 1
          BY <3>1, <4>2
        <5>2. PICK j \in 1 .. Len(rx_queue) : j = i - 1 /\ i = j + 1
          BY <3>1, <5>1
        <5>3. j \in 1 .. Len(rx_queue')
          BY <3>1, <5>2
        <5> QED BY <3>1, <5>2, <5>3
      <4>3. ASSUME NEW g \in {rx_queue'[i] : i \in 1 .. Len(rx_queue')}
            PROVE  g \in {rx_queue[i] : i \in 1 .. Len(rx_queue)} \ {f}
        <5>1. PICK i \in 1 .. Len(rx_queue') : g = rx_queue'[i]
          OBVIOUS
        <5> QED BY <4>1, <5>1
      <4>4. ASSUME NEW g \in {rx_queue[i] : i \in 1 .. Len(rx_queue)} \ {f}
            PROVE  g \in {rx_queue'[i] : i \in 1 .. Len(rx_queue')}
        <5>1. PICK i \in 1 .. Len(rx_queue) : g = rx_queue[i] /\ rx_queue[i] # f
          OBVIOUS
        <5> QED BY <4>2, <5>1
      <4> QED BY <4>3, <4>4
    <3>4. {g \in Frames : rxFate'[g] = "queued"} = {g \in Frames : rxFate[g] = "queued"} \ {f}
      BY <3>0, <3>1 DEF RxOrder
    <3>5. {g \in Frames : rxFate'[g] = "processing"}
            = {g \in Frames : rxFate[g] = "processing"} \cup {f}
      BY <3>0, <3>1 DEF RxOrder
    <3>6. {g \in Frames : rxFate[g] = "processing"} = {}
      BY <3>0 DEF FramesAccounted
    <3>7. {f} = {evt'} \ {NoFrame}
      BY <3>0, <3>1, NotAFrame
    <3> QED BY <3>2, <3>3, <3>4, <3>5, <3>6, <3>7 DEF FramesAccounted
  <2>6. CASE RxTruncated \/ RxDrop \/ RxForward
    <3>1. /\ rx_queue' = rx_queue /\ evt' = NoFrame /\ evt \in Frames
          /\ rxFate' = [rxFate EXCEPT ![evt] = "done"]
      BY <2>6 DEF RxTruncated, RxDrop, RxForward, RxDone, RxOrder
    <3>2. rxFate[evt] = "processing"
      <4>1. evt \in {g \in Frames : rxFate[g] = "processing"}
        BY <3>1, NotAFrame DEF FramesAccounted
      <4> QED BY <4>1
    <3>3. {g \in Frames : rxFate'[g] = "queued"} = {g \in Frames : rxFate[g] = "queued"}
      BY <3>1, <3>2 DEF RxOrder
    <3>4. {g \in Frames : rxFate'[g] = "processing"}
            = {g \in Frames : rxFate[g] = "processing"} \ {evt}
      BY <3>1 DEF RxOrder
    <3> QED BY <3>1, <3>3, <3>4 DEF FramesAccounted
  <2>7. CASE RxCancel \/ RxEvaluate \/ RxDeliver
    BY <2>0, <2>7 DEF RxCancel, RxEvaluate, RxDeliver
  <2>8. CASE FwdThread
    BY <2>0, <2>8 DEF FwdThread, FwdTick, FwdExit, rxVars
  <2>9. CASE Send \/ SetAppRxCallback \/ UNCHANGED vars
    BY <2>0, <2>9 DEF Send, SendNumber, SendMark, SendLink, SetAppRxCallback, vars, rxVars
  <2> QED BY <2>1, <2>2, <2>3, <2>4, <2>5, <2>6, <2>7, <2>8, <2>9 DEF Next, Radio, RxThread
<1> QED BY <1>1, <1>2, OwnerKeepsOrder, RxKeepsOrder, PTL DEF Spec

-----------------------------------------------------------------------------
(* The forwarding queue, as the manager's threads use it.                  *)

LEMMA RelaysFirst ==
    ASSUME NEW S, S \subseteq Nat, S # {}
    PROVE  Relays!First(S) \in S /\ \A k \in S : Relays!First(S) <= k
<1>1. \E m \in S : \A k \in S : <<k, m>> \notin OpToRel(<, Nat)
  BY NatLessThanWellFounded, WFMin
<1>2. PICK m \in S : \A k \in S : <<k, m>> \notin OpToRel(<, Nat)
  BY <1>1
<1>3. ASSUME NEW k \in S, k < m PROVE FALSE
  <2>1. <<k, m>> \in OpToRel(<, Nat)
    BY <1>3 DEF OpToRel
  <2> QED BY <1>2, <2>1
<1>4. \A k \in S : m <= k
  BY <1>3
<1> QED BY <1>4 DEF Relays!First

LEMMA RelaysActive ==
    ASSUME Relays!TypeOK, NEW i \in Relays!Active
    PROVE  i \in Relays!Slots /\ slots[i] \in Relays!Relay /\ slots[i].job \in Frames
BY DEF Relays!TypeOK, Relays!Active, Relays!Relay

LEMMA RelaysWorst ==
    ASSUME Relays!TypeOK, Relays!Active # {}
    PROVE  Relays!Worst \in Relays!Active
<1> DEFINE slack == {255 - Relays!Urgency(i) : i \in Relays!Active}
           least == {i \in Relays!Active : \A j \in Relays!Active :
                       Relays!Urgency(j) <= Relays!Urgency(i)}
<1>1. \A i \in Relays!Active : Relays!Urgency(i) \in 0 .. 255
  BY RelaysActive, PrioritiesAreBytes DEF Relays!Urgency
<1>2. slack \subseteq Nat /\ slack # {}
  BY <1>1
<1>3. Relays!First(slack) \in slack /\ \A t \in slack : Relays!First(slack) <= t
  BY <1>2, RelaysFirst
<1>4. PICK i \in Relays!Active : 255 - Relays!Urgency(i) = Relays!First(slack)
  BY <1>3
<1>5. ASSUME NEW j \in Relays!Active PROVE Relays!Urgency(j) <= Relays!Urgency(i)
  <2>1. 255 - Relays!Urgency(j) \in slack
    OBVIOUS
  <2>2. 255 - Relays!Urgency(i) <= 255 - Relays!Urgency(j)
    BY <1>3, <1>4, <2>1
  <2>3. Relays!Urgency(i) \in 0 .. 255 /\ Relays!Urgency(j) \in 0 .. 255
    BY <1>1
  <2>4. PICK a \in 0 .. 255 : a = Relays!Urgency(i)
    BY <2>3
  <2>5. PICK b \in 0 .. 255 : b = Relays!Urgency(j)
    BY <2>3
  <2>6. 255 - a <= 255 - b
    BY <2>2, <2>4, <2>5, Zenon
  <2>7. b <= a
    BY <2>6
  <2> QED BY <2>4, <2>5, <2>7, Zenon
<1>6. i \in least
  BY <1>5
<1>7. least \subseteq Nat /\ least # {}
  BY <1>6 DEF Relays!Active, Relays!Slots
<1>8. Relays!First(least) \in least
  BY <1>7, RelaysFirst
<1> QED BY <1>8 DEF Relays!Worst

(* The frames whose relay the queue took, whatever became of it, and those *)
(* it still holds.                                                         *)
Accepted == {f \in Frames : fate[f] \notin {"new", "refused"}}
Waiting == {f \in Frames : fate[f] = "held"}

(* What is in the slots and in the fire buffer was accepted; what is held  *)
(* is in a slot.                                                           *)
RelayWork ==
    /\ Relays!TypeOK
    /\ \A i \in Relays!Active : slots[i].job \in Accepted
    /\ \A i \in DOMAIN fire_buf : fire_buf[i].job \in Accepted
    /\ \A f \in Waiting : \E i \in Relays!Active : slots[i].job = f

LEMMA VacatingKeepsWork ==
    ASSUME RelayWork, NEW S, S \subseteq Relays!Active, NEW to \in {"cancelled", "leaving"},
           slots' = Relays!Vacated(S), fate' = Relays!Settle(Relays!JobsAt(S), to)
    PROVE  /\ slots' \in [Relays!Slots -> Relays!Relay \cup {Relays!Free}]
           /\ fate' \in [Frames -> Relays!Fates]
           /\ Accepted' = Accepted /\ Waiting' = Waiting \ Relays!JobsAt(S)
           /\ \A i \in Relays!Active' : slots'[i].job \in Accepted'
           /\ \A f \in Waiting' : \E i \in Relays!Active' : slots'[i].job = f
<1>1. /\ fate \in [Frames -> Relays!Fates]
      /\ slots \in [Relays!Slots -> Relays!Relay \cup {Relays!Free}]
      /\ S \subseteq Relays!Slots
  BY DEF RelayWork, Relays!TypeOK, Relays!Active
<1>2. Relays!JobsAt(S) \subseteq Accepted
  BY DEF RelayWork, Relays!JobsAt
<1>3. Accepted' = Accepted /\ Waiting' = Waiting \ Relays!JobsAt(S)
  BY <1>1, <1>2 DEF Relays!Settle, Accepted, Waiting
<1>4. /\ slots' \in [Relays!Slots -> Relays!Relay \cup {Relays!Free}]
      /\ fate' \in [Frames -> Relays!Fates]
  BY <1>1 DEF Relays!Vacated, Relays!Settle, Relays!Fates
<1>5. Relays!Active' = Relays!Active \ S /\ \A i \in Relays!Active' : slots'[i] = slots[i]
  BY <1>1 DEF Relays!Active, Relays!Vacated
<1>6. \A i \in Relays!Active' : slots'[i].job \in Accepted'
  BY <1>3, <1>5 DEF RelayWork
<1>7. \A f \in Waiting' : \E i \in Relays!Active' : slots'[i].job = f
  BY <1>3, <1>5 DEF RelayWork, Relays!JobsAt
<1> QED BY <1>3, <1>4, <1>6, <1>7

(* onDuplicateHeard cancels the relays that the frame heard overtakes.     *)
LEMMA CancelDoes ==
    ASSUME RelayWork, NEW id, NEW me, NEW tx, Relays!OnDuplicateHeard(id, me, tx)
    PROVE  /\ RelayWork' /\ Accepted' = Accepted /\ Waiting' \subseteq Waiting
           /\ \A f \in Waiting' :
                ~(Header[f].id = id /\ Relays!IsBetween(Header[f].origin, me, tx))
<1> DEFINE S == Relays!Overtaken(id, me, tx)
<1>1. S \subseteq Relays!Active
  BY DEF Relays!Overtaken
<1>2. /\ slots' = Relays!Vacated(S) /\ fate' = Relays!Settle(Relays!JobsAt(S), "cancelled")
      /\ fire_buf' = fire_buf /\ tickPc' = tickPc
  BY DEF Relays!OnDuplicateHeard
<1>3. \A i \in Relays!Active : Header[slots[i].job].id = id
         /\ Relays!IsBetween(Header[slots[i].job].origin, me, tx) => i \in S
  BY DEF Relays!Overtaken
<1> HIDE DEF S
<1>4. /\ slots' \in [Relays!Slots -> Relays!Relay \cup {Relays!Free}]
      /\ fate' \in [Frames -> Relays!Fates]
      /\ Accepted' = Accepted /\ Waiting' = Waiting \ Relays!JobsAt(S)
      /\ \A i \in Relays!Active' : slots'[i].job \in Accepted'
      /\ \A f \in Waiting' : \E i \in Relays!Active' : slots'[i].job = f
  BY <1>1, <1>2, VacatingKeepsWork
<1>5. Relays!TypeOK'
  BY <1>2, <1>4 DEF RelayWork, Relays!TypeOK
<1>6. \A i \in DOMAIN fire_buf' : fire_buf'[i].job \in Accepted'
  BY <1>2, <1>4 DEF RelayWork
<1>7. ASSUME NEW f \in Waiting', Header[f].id = id, Relays!IsBetween(Header[f].origin, me, tx)
      PROVE  FALSE
  <2>1. f \in Waiting /\ f \notin Relays!JobsAt(S)
    BY <1>4
  <2>2. PICK i \in Relays!Active : slots[i].job = f
    BY <2>1 DEF RelayWork
  <2>3. i \in S
    BY <1>3, <1>7, <2>2
  <2> QED BY <2>1, <2>2, <2>3 DEF Relays!JobsAt
<1> QED BY <1>4, <1>5, <1>6, <1>7 DEF RelayWork

(* processTick accepts nothing and takes nothing new to hold.              *)
LEMMA TickDoes ==
    ASSUME RelayWork, Relays!ProcessTick
    PROVE  RelayWork' /\ Accepted' = Accepted /\ Waiting' \subseteq Waiting
<1>1. CASE Relays!ReadClock
  <2>1. slots' = slots /\ fire_buf' = fire_buf /\ fate' = fate /\ tickPc' = "ticking"
    BY <1>1 DEF Relays!ReadClock
  <2> QED BY <2>1 DEF RelayWork, Relays!TypeOK, Relays!Active, Accepted, Waiting
<1>2. CASE Relays!Scan
  <2> DEFINE S == Relays!Due
  <2>1. S \subseteq Relays!Active
    BY DEF Relays!Due
  <2>2. /\ slots' = Relays!Vacated(S) /\ fate' = Relays!Settle(Relays!JobsAt(S), "leaving")
        /\ fire_buf' = [i \in S |-> slots[i]] /\ tickPc' = "firing"
    BY <1>2 DEF Relays!Scan
  <2> HIDE DEF S
  <2>3. /\ slots' \in [Relays!Slots -> Relays!Relay \cup {Relays!Free}]
        /\ fate' \in [Frames -> Relays!Fates]
        /\ Accepted' = Accepted /\ Waiting' = Waiting \ Relays!JobsAt(S)
        /\ \A i \in Relays!Active' : slots'[i].job \in Accepted'
        /\ \A f \in Waiting' : \E i \in Relays!Active' : slots'[i].job = f
    BY <2>1, <2>2, VacatingKeepsWork
  <2>4. \A i \in S : i \in Relays!Slots /\ slots[i] \in Relays!Relay /\ slots[i].job \in Accepted
    BY <2>1, RelaysActive DEF RelayWork
  <2>5. Relays!TypeOK'
    BY <2>2, <2>3, <2>4 DEF RelayWork, Relays!TypeOK
  <2> QED BY <2>2, <2>3, <2>4, <2>5 DEF RelayWork
<1>3. CASE Relays!FireEntry
  <2> DEFINE i == Relays!First(DOMAIN fire_buf)
  <2>1. DOMAIN fire_buf \subseteq Nat /\ DOMAIN fire_buf # {}
    BY <1>3 DEF Relays!FireEntry, RelayWork, Relays!TypeOK, Relays!Slots
  <2>2. i \in DOMAIN fire_buf
    BY <2>1, RelaysFirst
  <2>3. /\ fire_buf' = [k \in DOMAIN fire_buf \ {i} |-> fire_buf[k]]
        /\ fate' = Relays!Settle({fire_buf[i].job}, "sent")
        /\ slots' = slots /\ tickPc' = tickPc
    BY <1>3 DEF Relays!FireEntry
  <2> HIDE DEF i
  <2>4. fire_buf[i].job \in Accepted
    BY <2>2 DEF RelayWork
  <2>5. Accepted' = Accepted /\ Waiting' \subseteq Waiting /\ Relays!Active' = Relays!Active
        /\ fate' \in [Frames -> Relays!Fates]
    BY <2>3, <2>4 DEF RelayWork, Relays!TypeOK, Accepted, Waiting, Relays!Settle,
                      Relays!Active, Relays!Fates
  <2>6. Relays!TypeOK'
    BY <2>3, <2>5 DEF RelayWork, Relays!TypeOK
  <2> QED BY <2>3, <2>5, <2>6 DEF RelayWork
<1>4. CASE Relays!EndTick
  <2>1. slots' = slots /\ fire_buf' = fire_buf /\ fate' = fate /\ tickPc' = "asleep"
    BY <1>4 DEF Relays!EndTick
  <2> QED BY <2>1 DEF RelayWork, Relays!TypeOK, Relays!Active, Accepted, Waiting
<1> QED BY <1>1, <1>2, <1>3, <1>4 DEF Relays!ProcessTick

(* enqueue accepts at most the frame it is called with.                    *)
LEMMA EnqueueDoes ==
    ASSUME RelayWork, NEW j \in Frames, Relays!Enqueue(j, 0)
    PROVE  RelayWork' /\ Accepted' \subseteq Accepted \cup {j} /\ Waiting' \subseteq Waiting \cup {j}
<1>r. PICK r : r = [job |-> j, fire_time |-> 0]
  OBVIOUS
<1>0. [job |-> j, fire_time |-> 0 + 0] = r
  BY <1>r
<1>1. /\ Relays!IntoFreeSlot(r) \/ Relays!InPlaceOfWorst(r) \/ Relays!Refused(r)
      /\ fire_buf' = fire_buf /\ tickPc' = tickPc /\ fate[j] = "new"
  BY <1>0 DEF Relays!Enqueue
<1>2. r \in Relays!Relay /\ r.job = j /\ r # Relays!Free
  <2>1. r \in Relays!Relay /\ r.job = j
    BY <1>r DEF Relays!Relay
  <2>2. DOMAIN r = {"job", "fire_time"}
    BY <1>r
  <2>3. DOMAIN Relays!Free = {"job"}
    BY DEF Relays!Free
  <2> QED BY <2>1, <2>2, <2>3
<1>3. /\ fate \in [Frames -> Relays!Fates]
      /\ slots \in [Relays!Slots -> Relays!Relay \cup {Relays!Free}]
      /\ \A i \in Relays!Active : i \in Relays!Slots /\ slots[i].job \in Accepted
  BY RelaysActive DEF RelayWork, Relays!TypeOK
<1>4. ASSUME NEW p \in Relays!Slots, slots' = [slots EXCEPT ![p] = r],
             fate' \in [Frames -> Relays!Fates], fate'[j] = "held",
             \A f \in Frames \ {j} :
                 fate'[f] = IF p \in Relays!Active /\ f = slots[p].job
                            THEN "evicted" ELSE fate[f]
      PROVE  RelayWork' /\ Accepted' \subseteq Accepted \cup {j} /\ Waiting' \subseteq Waiting \cup {j}
  <2>1. /\ Relays!Active' = Relays!Active \cup {p} /\ slots'[p] = r
        /\ \A i \in Relays!Active \ {p} : slots'[i] = slots[i]
    BY <1>2, <1>3, <1>4 DEF Relays!Active
  <2>2. /\ Accepted' \subseteq Accepted \cup {j} /\ Waiting' \subseteq Waiting \cup {j}
        /\ Accepted \cup {j} \subseteq Accepted'
        /\ p \in Relays!Active => slots[p].job \notin Waiting' \/ slots[p].job = j
    BY <1>3, <1>4 DEF Accepted, Waiting
  <2>3. Relays!TypeOK'
    BY <1>1, <1>2, <1>3, <1>4 DEF RelayWork, Relays!TypeOK
  <2>4. \A i \in Relays!Active' : slots'[i].job \in Accepted'
    BY <1>2, <1>3, <2>1, <2>2
  <2>5. \A i \in DOMAIN fire_buf' : fire_buf'[i].job \in Accepted'
    BY <1>1, <2>2 DEF RelayWork
  <2>6. \A f \in Waiting' : \E i \in Relays!Active' : slots'[i].job = f
    <3> TAKE f \in Waiting'
    <3>1. CASE f = j
      BY <1>2, <2>1, <3>1
    <3>2. CASE f # j
      <4>1. PICK i \in Relays!Active : slots[i].job = f
        BY <2>2, <3>2 DEF RelayWork
      <4>2. i # p
        BY <2>2, <3>2, <4>1
      <4> QED BY <2>1, <4>1, <4>2
    <3> QED BY <3>1, <3>2
  <2> QED BY <2>2, <2>3, <2>4, <2>5, <2>6 DEF RelayWork
<1>5. CASE Relays!IntoFreeSlot(r)
  <2> DEFINE p == Relays!First(Relays!Slots \ Relays!Active)
  <2>1. Relays!Slots \ Relays!Active \subseteq Nat /\ Relays!Slots \ Relays!Active # {}
    BY <1>5 DEF Relays!IntoFreeSlot, Relays!Active, Relays!Slots
  <2>2. p \in Relays!Slots \ Relays!Active
    BY <2>1, RelaysFirst
  <2>3. slots' = [slots EXCEPT ![p] = r] /\ fate' = Relays!Settle({r.job}, "held")
    BY <1>5 DEF Relays!IntoFreeSlot
  <2>q. PICK q : q = p
    OBVIOUS
  <2>4. /\ fate' \in [Frames -> Relays!Fates] /\ fate'[j] = "held"
        /\ \A f \in Frames \ {j} : fate'[f] = fate[f]
    BY <1>2, <1>3, <2>3 DEF Relays!Settle, Relays!Fates
  <2> HIDE DEF p
  <2>5. /\ q \in Relays!Slots /\ q \notin Relays!Active /\ slots' = [slots EXCEPT ![q] = r]
        /\ \A f \in Frames \ {j} :
             fate'[f] = IF q \in Relays!Active /\ f = slots[q].job THEN "evicted" ELSE fate[f]
    BY <2>q, <2>2, <2>3, <2>4
  <2> QED BY <1>4, <2>4, <2>5
<1>6. CASE Relays!InPlaceOfWorst(r)
  <2>q. PICK q : q = Relays!Worst
    OBVIOUS
  <2>1. q \in Relays!Active /\ q \in Relays!Slots
    BY <1>3, <1>6, <2>q, RelaysWorst DEF Relays!InPlaceOfWorst, RelayWork
  <2>2. /\ slots' = [slots EXCEPT ![q] = r]
        /\ fate' = [Relays!Settle({slots[q].job}, "evicted") EXCEPT ![r.job] = "held"]
    BY <1>6, <2>q DEF Relays!InPlaceOfWorst
  <2>3. /\ fate' \in [Frames -> Relays!Fates] /\ fate'[j] = "held"
        /\ \A f \in Frames \ {j} :
             fate'[f] = IF q \in Relays!Active /\ f = slots[q].job THEN "evicted" ELSE fate[f]
    BY <1>2, <1>3, <2>1, <2>2 DEF Relays!Settle, Relays!Fates
  <2> QED BY <1>4, <2>1, <2>2, <2>3
<1>7. CASE Relays!Refused(r)
  <2>1. slots' = slots /\ fate' = Relays!Settle({r.job}, "refused")
    BY <1>7 DEF Relays!Refused
  <2>2. /\ fate' \in [Frames -> Relays!Fates] /\ fate'[j] = "refused"
        /\ \A f \in Frames \ {j} : fate'[f] = fate[f]
    BY <1>2, <1>3, <2>1 DEF Relays!Settle, Relays!Fates
  <2>3. Accepted' = Accepted /\ Waiting' = Waiting /\ Relays!Active' = Relays!Active
    BY <1>1, <2>1, <2>2 DEF Accepted, Waiting, Relays!Active
  <2>4. Relays!TypeOK'
    BY <1>1, <2>1, <2>2 DEF RelayWork, Relays!TypeOK
  <2> QED BY <1>1, <2>1, <2>3, <2>4 DEF RelayWork
<1> QED BY <1>1, <1>5, <1>6, <1>7

(* What a step of the manager does to the relays: only the RX thread, with *)
(* a frame that is to be relayed, has one accepted.                        *)
LEMMA RelaysMove ==
    ASSUME RxOrder, RelayWork, [Next]_vars
    PROVE  /\ RelayWork'
           /\ \/ Accepted' = Accepted /\ Waiting' \subseteq Waiting
              \/ /\ RxForward /\ result.verdict = "DELIVER_AND_FORWARD" /\ evt \in Frames
                 /\ Accepted' \subseteq Accepted \cup {evt}
                 /\ Waiting' \subseteq Waiting \cup {evt}
<1>0. CASE UNCHANGED relayVars
  <2>1. slots' = slots /\ fire_buf' = fire_buf /\ fate' = fate /\ tickPc' = tickPc
    BY <1>0 DEF relayVars
  <2> QED BY <2>1 DEF RelayWork, Relays!TypeOK, Relays!Active, Accepted, Waiting
<1>1. CASE Owner
  BY <1>0, <1>1 DEF Owner, StartExchange, StartInstall, StartSpawn, Destroy, StopSignal, Stop,
                    StopNotify, StopJoinRx, StopJoinFwd
<1>2. CASE Radio
  BY <1>0, <1>2 DEF Radio, Unheard, Arrive
<1>3. CASE RxLoop \/ RxCheck \/ RxBlock \/ RxTimeout \/ RxEmpty \/ RxTake \/ RxTruncated
  BY <1>0, <1>3 DEF RxLoop, RxCheck, RxBlock, RxTimeout, RxEmpty, RxTake, RxTruncated
<1>4. CASE RxCancel
  BY <1>4, CancelDoes DEF RxCancel
<1>5. CASE RxEvaluate \/ RxDrop \/ RxDeliver
  BY <1>0, <1>5 DEF RxEvaluate, RxDrop, RxDeliver
<1>6. CASE RxForward
  <2>1. evt \in Frames
    BY <1>6 DEF RxForward, RxOrder
  <2>2. CASE result.verdict # "DELIVER_AND_FORWARD"
    BY <1>0, <1>6, <2>2 DEF RxForward
  <2>3. CASE result.verdict = "DELIVER_AND_FORWARD"
    <3>1. PICK f \in Frames : f = evt
      BY <2>1
    <3>2. Relays!Enqueue(f, 0)
      BY <1>6, <2>3, <3>1 DEF RxForward, Relays!Enqueue, Relays!IntoFreeSlot,
                              Relays!InPlaceOfWorst, Relays!Refused
    <3> QED BY <1>6, <2>3, <3>1, <3>2, EnqueueDoes
  <2> QED BY <2>2, <2>3
<1>7. CASE FwdThread
  <2>1. CASE FwdTick
    BY <2>1, TickDoes DEF FwdTick
  <2>2. CASE FwdExit
    BY <1>0, <2>2 DEF FwdExit
  <2> QED BY <1>7, <2>1, <2>2 DEF FwdThread
<1>8. CASE Send \/ SetAppRxCallback
  BY <1>0, <1>8 DEF Send, SendNumber, SendMark, SendLink, SetAppRxCallback
<1>9. CASE UNCHANGED vars
  BY <1>0, <1>9 DEF vars
<1> QED BY <1>1, <1>2, <1>3, <1>4, <1>5, <1>6, <1>7, <1>8, <1>9 DEF Next, RxThread

LEMMA RelaysStayInOrder == Spec => []RelayWork
<1>1. Init => RelayWork
  <2> SUFFICES ASSUME Init PROVE RelayWork
    OBVIOUS
  <2>1. /\ slots = [i \in Relays!Slots |-> Relays!Free] /\ fire_buf = <<>>
        /\ tickPc = "asleep" /\ fate = [f \in Frames |-> "new"]
    BY DEF Init, Relays!Init
  <2> QED BY <2>1 DEF RelayWork, Relays!TypeOK, Relays!Fates, Relays!Active, Waiting
<1>2. RxOrder /\ RelayWork /\ [Next]_vars => RelayWork'
  BY RelaysMove
<1> QED BY <1>1, <1>2, RxKeepsOrder, PTL DEF Spec

-----------------------------------------------------------------------------
(* What the duplicate filter knows.                                        *)

(* The numbers that MaxSends calls of sendMessage use, and the ids about:  *)
(* those, and the ids of the frames that can arrive.                       *)
UsedIds == {MessageId(n) : n \in {k \in 0 .. SeqMod - 1 : k < MaxSends}}
About == UsedIds \cup {Header[f].id : f \in Frames}

(* The filter has room for every id about, so it forgets none.             *)
RoomForIds == IsFiniteSet(About) /\ Cardinality(About) <= CacheSize

LEMMA TouchKeepsAll ==
    ASSUME RoomForIds, NEW c, c.ids \subseteq About, NEW id \in About
    PROVE  Route!Dup!Touch(c, id).ids = c.ids \cup {id}
<1>0. \A S : Route!Dup!Cardinality(S) = Cardinality(S)
  BY DEF Route!Dup!Cardinality, Cardinality
<1>1. CASE id \in c.ids
  BY <1>1 DEF Route!Dup!Touch, Route!Dup!Kept, Route!Dup!Remembers
<1>2. CASE id \notin c.ids
  <2>1. IsFiniteSet(c.ids \cup {id})
        /\ Cardinality(c.ids \cup {id}) <= Cardinality(About)
    BY FS_Subset DEF RoomForIds
  <2>2. IsFiniteSet(c.ids) /\ Cardinality(c.ids \cup {id}) = Cardinality(c.ids) + 1
    BY <1>2, FS_Subset, FS_AddElement DEF RoomForIds
  <2>3. Cardinality(c.ids) \in Nat /\ Cardinality(About) \in Nat /\ CacheSize \in Nat
    BY <2>2, FS_CardinalityType, SizesAreNatural DEF RoomForIds
  <2>4. Cardinality(c.ids) < CacheSize
    BY <2>1, <2>2, <2>3 DEF RoomForIds
  <2> QED BY <1>0, <2>4 DEF Route!Dup!Touch, Route!Dup!Kept, Route!Dup!Remembers
<1> QED BY <1>1, <1>2

(* The verdict on a frame.                                                 *)
LEMMA VerdictDoes ==
    ASSUME RoomForIds, cache.ids \subseteq About, NEW h, h.id \in About, NEW me, NEW signal,
           Route!Evaluate(h, me, signal)
    PROVE  /\ result'.id = h.id
           /\ Route!Expired(h) => result'.verdict = "DROP" /\ cache' = cache
           /\ ~Route!Expired(h) =>
                /\ cache'.ids = cache.ids \cup {h.id}
                /\ result'.verdict = "DROP" <=> h.id \in cache.ids
<1>1. Route!Dup!Touch(cache, h.id).ids = cache.ids \cup {h.id}
  BY TouchKeepsAll
<1>2. CASE Route!DropExpired(h)
  BY <1>2 DEF Route!DropExpired, Route!Answer
<1>3. CASE Route!DropDuplicate(h)
  BY <1>1, <1>3 DEF Route!DropDuplicate, Route!Answer, Route!Filter, Route!Dup!Remembers
<1>4. CASE Route!DeliverOnly(h, me)
  BY <1>1, <1>4 DEF Route!DeliverOnly, Route!Answer, Route!Filter, Route!Dup!Remembers
<1>5. CASE Route!DeliverAndForward(h, me, signal)
  BY <1>1, <1>5 DEF Route!DeliverAndForward, Route!Filter, Route!Dup!Remembers
<1> QED BY <1>2, <1>3, <1>4, <1>5 DEF Route!Evaluate

(* Every message this node is about to send or has sent is marked as seen, *)
(* and each call takes a number of its own.                                *)
OwnMarked ==
    /\ cache.ids \subseteq About
    /\ seq \in 0 .. SeqMod - 1
    /\ sender \in [Senders -> [pc : {"ready"}] \cup [pc : {"numbered", "marked"}, id : UsedIds]]
    /\ seq <= Len(sent) + Cardinality(Sending)
    /\ \A s \in Senders : sender[s].pc = "marked" => sender[s].id \in cache.ids
    /\ sent \in Seq([id : UsedIds, ok : BOOLEAN])
    /\ \A i \in 1 .. Len(sent) : sent[i].id \in cache.ids
    /\ \A f \in Frames : rxFate[f] # "away" /\ Header[f].id \in OwnIds
                           => Header[f].id \in cache.ids

(* The filter only learns.                                                 *)
LEMMA FilterLearns ==
    ASSUME RoomForIds, RxOrder, OwnMarked, [Next]_vars
    PROVE  cache.ids \subseteq cache'.ids /\ cache'.ids \subseteq About
<1>1. CASE RxEvaluate
  <2>1. PICK h : h = Header[evt]
    OBVIOUS
  <2>2. h.id \in About /\ Route!Evaluate(h, Here, Signal)
    <3>1. evt \in Frames
      BY <1>1 DEF RxEvaluate, RxOrder
    <3>2. h.id \in About
      BY <2>1, <3>1 DEF About
    <3> QED BY <1>1, <2>1, <3>2 DEF RxEvaluate, Route!Evaluate, Route!DropExpired,
            Route!DropDuplicate, Route!DeliverOnly, Route!DeliverAndForward, Route!Answer,
            Route!Filter
  <2> QED BY <2>2, VerdictDoes DEF OwnMarked
<1>2. ASSUME NEW s \in Senders, SendMark(s)
      PROVE  cache.ids \subseteq cache'.ids /\ cache'.ids \subseteq About
  <2>1. sender[s].id \in About /\ cache' = Route!Dup!Touch(cache, sender[s].id)
    BY <1>2 DEF SendMark, OwnMarked, About
  <2> QED BY <2>1, TouchKeepsAll DEF OwnMarked
<1>3. CASE cache' = cache
  BY <1>3 DEF OwnMarked
<1>4. CASE Owner
  BY <1>3, <1>4 DEF Owner, StartExchange, StartInstall, StartSpawn, Destroy, StopSignal, Stop,
                    StopNotify, StopJoinRx, StopJoinFwd, routeVars
<1>5. CASE Radio \/ FwdThread \/ SetAppRxCallback \/ UNCHANGED vars
  BY <1>3, <1>5 DEF Radio, Unheard, Arrive, FwdThread, FwdTick, FwdExit, SetAppRxCallback,
                    vars, routeVars
<1>6. CASE RxLoop \/ RxCheck \/ RxBlock \/ RxTimeout \/ RxEmpty \/ RxTake \/ RxTruncated
  BY <1>3, <1>6 DEF RxLoop, RxCheck, RxBlock, RxTimeout, RxEmpty, RxTake, RxTruncated, routeVars
<1>7. CASE RxCancel \/ RxDrop \/ RxDeliver \/ RxForward
  BY <1>3, <1>7 DEF RxCancel, RxDrop, RxDeliver, RxForward, routeVars
<1>8. ASSUME NEW s \in Senders, SendNumber(s) \/ SendLink(s) PROVE cache' = cache
  BY <1>8 DEF SendNumber, SendLink, routeVars
<1> QED BY <1>1, <1>2, <1>3, <1>4, <1>5, <1>6, <1>7, <1>8 DEF Next, RxThread, Send

(* What a step does to the fate of the frames.                             *)
LEMMA FatesMove ==
    ASSUME RxOrder, FramesAccounted, [Next]_vars, NEW f \in Frames, rxFate'[f] # rxFate[f]
    PROVE  \/ rxFate[f] = "away" /\ MayArrive(f) /\ rxFate'[f] # "done"
           \/ rxFate[f] = "queued" /\ rxFate'[f] = "processing"
           \/ /\ RxTruncated \/ RxDrop \/ RxForward
              /\ f = evt /\ rxFate[f] = "processing"
<1>1. ASSUME NEW g \in Frames, Unheard(g) \/ Arrive(g)
      PROVE rxFate[f] = "away" /\ MayArrive(f) /\ rxFate'[f] # "done"
  <2>1. /\ MayArrive(g)
        /\ \E to \in {"unheard", "overflow", "queued"} : rxFate' = [rxFate EXCEPT ![g] = to]
    BY <1>1 DEF Unheard, Arrive
  <2>2. f = g
    BY <2>1 DEF RxOrder
  <2> QED BY <2>1, <2>2 DEF MayArrive, RxOrder
<1>2. CASE RxTake
  <2>1. /\ rx_queue \in Seq(Frames) /\ rx_queue # <<>>
        /\ rxFate' = [rxFate EXCEPT ![Head(rx_queue)] = "processing"]
    BY <1>2 DEF RxTake, RxOrder
  <2>2. f = Head(rx_queue) /\ rxFate'[f] = "processing"
    BY <2>1 DEF RxOrder
  <2>3. f \in {rx_queue[i] : i \in 1 .. Len(rx_queue)}
    BY <2>1, <2>2
  <2> QED BY <2>2, <2>3 DEF FramesAccounted
<1>3. CASE RxTruncated \/ RxDrop \/ RxForward
  <2>1. f = evt /\ evt \in Frames
    BY <1>3 DEF RxTruncated, RxDrop, RxForward, RxDone, RxOrder
  <2>2. f \in {g \in Frames : rxFate[g] = "processing"}
    BY <2>1, NotAFrame DEF FramesAccounted
  <2> QED BY <1>3, <2>1, <2>2
<1>4. CASE rxFate' = rxFate
  BY <1>4
<1>5. CASE Owner
  BY <1>4, <1>5 DEF Owner, StartExchange, StartInstall, StartSpawn, Destroy, StopSignal, Stop,
                    StopNotify, StopJoinRx, StopJoinFwd, rxVars
<1>6. CASE RxLoop \/ RxCheck \/ RxBlock \/ RxTimeout \/ RxEmpty
  BY <1>4, <1>6 DEF RxLoop, RxCheck, RxBlock, RxTimeout, RxEmpty
<1>7. CASE RxCancel \/ RxEvaluate \/ RxDeliver
  BY <1>4, <1>7 DEF RxCancel, RxEvaluate, RxDeliver
<1>8. CASE FwdThread
  BY <1>4, <1>8 DEF FwdThread, FwdTick, FwdExit, rxVars
<1>9. CASE Send \/ SetAppRxCallback \/ UNCHANGED vars
  BY <1>4, <1>9 DEF Send, SendNumber, SendMark, SendLink, SetAppRxCallback, vars, rxVars
<1> QED BY <1>1, <1>2, <1>3, <1>4, <1>5, <1>6, <1>7, <1>8, <1>9 DEF Next, Radio, RxThread

LEMMA NumbersAreUsed ==
    ASSUME NEW n \in 0 .. SeqMod - 1, n < MaxSends
    PROVE  MessageId(n) \in UsedIds
BY DEF UsedIds

LEMMA RemainderIsBelow ==
    ASSUME NEW n \in Nat, NEW w \in Nat \ {0}
    PROVE  n % w \in 0 .. w - 1 /\ n % w <= n
BY SMT

(* Entering sendMessage, and leaving it.                                   *)
LEMMA SendersAreCounted ==
    ASSUME DOMAIN sender = Senders, NEW s \in Senders, NEW call,
           sender' = [sender EXCEPT ![s] = call]
    PROVE  /\ Cardinality(Sending) \in Nat
           /\ sender[s].pc = "ready" /\ call.pc # "ready"
                 => Cardinality(Sending') = Cardinality(Sending) + 1
           /\ sender[s].pc # "ready" /\ call.pc # "ready" => Sending' = Sending
           /\ sender[s].pc # "ready" /\ call.pc = "ready"
                 => Cardinality(Sending) = Cardinality(Sending') + 1
<1>1. IsFiniteSet(Senders) /\ Sending \subseteq Senders /\ Sending' \subseteq Senders
  BY ManagerAssumption DEF ManagerAssumption, Sending
<1>2. /\ IsFiniteSet(Sending) /\ Cardinality(Sending) \in Nat
      /\ IsFiniteSet(Sending') /\ Cardinality(Sending') \in Nat
  BY <1>1, FS_Subset, FS_CardinalityType
<1>3. \A t \in Senders : sender'[t] = IF t = s THEN call ELSE sender[t]
  OBVIOUS
<1>4. CASE sender[s].pc = "ready" /\ call.pc # "ready"
  <2>1. s \notin Sending /\ Sending' = Sending \cup {s}
    BY <1>3, <1>4 DEF Sending
  <2> QED BY <1>2, <1>4, <2>1, FS_AddElement
<1>5. CASE sender[s].pc # "ready" /\ call.pc # "ready"
  BY <1>2, <1>3, <1>5 DEF Sending
<1>6. CASE sender[s].pc # "ready" /\ call.pc = "ready"
  <2>1. s \notin Sending' /\ Sending = Sending' \cup {s}
    BY <1>3, <1>6 DEF Sending
  <2> QED BY <1>2, <1>6, <2>1, FS_AddElement
<1> QED BY <1>2, <1>4, <1>5, <1>6

LEMMA OwnStayMarked == RoomForIds => (Spec => []OwnMarked)
<1> SUFFICES ASSUME RoomForIds PROVE Spec => []OwnMarked
  OBVIOUS
<1>0. SeqMod \in Nat \ {0}
  BY ManagerAssumption, SMT DEF ManagerAssumption
<1>1. Init => OwnMarked
  <2> SUFFICES ASSUME Init PROVE OwnMarked
    OBVIOUS
  <2>1. /\ cache.ids = {} /\ seq = 0 /\ sender = [s \in Senders |-> [pc |-> "ready"]]
        /\ sent = <<>> /\ rxFate = [f \in Frames |-> "away"]
    BY DEF Init, Route!Dup!Empty
  <2>2. Cardinality(Sending) \in Nat
    BY ManagerAssumption, FS_Subset, FS_CardinalityType DEF ManagerAssumption, Sending
  <2> QED BY <1>0, <2>1, <2>2 DEF OwnMarked
<1>2. RxOrder /\ FramesAccounted /\ OwnMarked /\ [Next]_vars => OwnMarked'
  <2> SUFFICES ASSUME RxOrder, FramesAccounted, OwnMarked, [Next]_vars PROVE OwnMarked'
    OBVIOUS
  <2>1. cache.ids \subseteq cache'.ids /\ cache'.ids \subseteq About
    BY FilterLearns
  <2>2. \A f \in Frames : rxFate'[f] # "away" /\ Header[f].id \in OwnIds
                            => Header[f].id \in cache'.ids
    <3> SUFFICES ASSUME NEW f \in Frames, rxFate'[f] # "away", Header[f].id \in OwnIds
                 PROVE  Header[f].id \in cache'.ids
      OBVIOUS
    <3>1. CASE rxFate[f] # "away"
      BY <2>1, <3>1 DEF OwnMarked
    <3>2. CASE rxFate[f] = "away"
      <4>1. MayArrive(f)
        BY <3>2, FatesMove
      <4>2. PICK i \in 1 .. Len(sent) : sent[i] = [id |-> Header[f].id, ok |-> TRUE]
        BY <4>1 DEF MayArrive
      <4>3. sent[i].id = Header[f].id
        BY <4>2
      <4> QED BY <2>1, <4>3 DEF OwnMarked
    <3> QED BY <3>1, <3>2
  <2>3. CASE UNCHANGED sendVars
    <3>1. seq' = seq /\ sender' = sender /\ sent' = sent
      BY <2>3 DEF sendVars
    <3>2. Sending' = Sending
      BY <3>1 DEF Sending
    <3> QED BY <2>1, <2>2, <3>1, <3>2 DEF OwnMarked
  <2>4. ASSUME NEW s \in Senders, SendNumber(s) PROVE OwnMarked'
    <3>1. /\ seq' = (seq + 1) % SeqMod /\ sent' = sent
          /\ sender' = [sender EXCEPT ![s] = [pc |-> "numbered", id |-> MessageId(seq)]]
      BY <2>4 DEF SendNumber
    <3>n. /\ Cardinality(Sending) \in Nat
          /\ Cardinality(Sending') = Cardinality(Sending) + 1
      <4>1. PICK call : call = [pc |-> "numbered", id |-> MessageId(seq)]
        OBVIOUS
      <4>2. /\ sender' = [sender EXCEPT ![s] = call] /\ DOMAIN sender = Senders
            /\ sender[s].pc = "ready" /\ call.pc # "ready"
        BY <2>4, <3>1, <4>1 DEF SendNumber, OwnMarked
      <4> QED BY <4>2, SendersAreCounted
    <3>m. /\ Len(sent) + Cardinality(Sending) < MaxSends /\ MaxSends \in Nat
          /\ Len(sent) \in Nat /\ seq \in Nat /\ seq <= Len(sent) + Cardinality(Sending)
      BY <2>4, ManagerAssumption DEF SendNumber, Sending, OwnMarked, ManagerAssumption
    <3>2. seq' \in 0 .. SeqMod - 1 /\ MessageId(seq) \in UsedIds
      <4>1. seq < MaxSends /\ seq \in 0 .. SeqMod - 1
        BY <3>n, <3>m DEF OwnMarked
      <4>2. seq + 1 \in Nat
        BY <3>m
      <4> QED BY <1>0, <3>1, <4>1, <4>2, NumbersAreUsed, RemainderIsBelow
    <3>0. seq' <= Len(sent') + Cardinality(Sending')
      <4>1. seq' \in Nat /\ seq' <= seq + 1
        <5>1. seq + 1 \in Nat
          BY <3>m
        <5>2. (seq + 1) % SeqMod \in 0 .. SeqMod - 1 /\ (seq + 1) % SeqMod <= seq + 1
          BY <1>0, <5>1, RemainderIsBelow
        <5> QED BY <3>1, <5>2
      <4> QED BY <3>1, <3>n, <3>m, <4>1
    <3>3. [pc |-> "numbered", id |-> MessageId(seq)]
             \in [pc : {"numbered", "marked"}, id : UsedIds]
      BY <3>2
    <3>4. sender' \in [Senders -> [pc : {"ready"}] \cup [pc : {"numbered", "marked"}, id : UsedIds]]
      BY <3>1, <3>3 DEF OwnMarked
    <3>5. \A t \in Senders : sender'[t].pc = "marked" => sender'[t].id \in cache'.ids
      BY <2>1, <3>1 DEF OwnMarked
    <3>6. \A i \in 1 .. Len(sent') : sent'[i].id \in cache'.ids
      BY <2>1, <3>1 DEF OwnMarked
    <3> QED BY <2>1, <2>2, <3>0, <3>1, <3>2, <3>4, <3>5, <3>6 DEF OwnMarked
  <2>5. ASSUME NEW s \in Senders, SendMark(s) PROVE OwnMarked'
    <3>1. /\ seq' = seq /\ sent' = sent /\ cache' = Route!Dup!Touch(cache, sender[s].id)
          /\ sender' = [sender EXCEPT ![s] = [pc |-> "marked", id |-> sender[s].id]]
      BY <2>5 DEF SendMark
    <3>2. sender[s].id \in UsedIds
      BY <2>5 DEF SendMark, OwnMarked
    <3>0. Sending' = Sending
      <4>1. PICK call : call = [pc |-> "marked", id |-> sender[s].id]
        OBVIOUS
      <4>2. /\ sender' = [sender EXCEPT ![s] = call] /\ DOMAIN sender = Senders
            /\ sender[s].pc # "ready" /\ call.pc # "ready"
        BY <2>5, <3>1, <4>1 DEF SendMark, OwnMarked
      <4> QED BY <4>2, SendersAreCounted
    <3>3. cache'.ids = cache.ids \cup {sender[s].id}
      <4>1. sender[s].id \in About
        BY <3>2 DEF About
      <4> QED BY <3>1, <4>1, TouchKeepsAll DEF OwnMarked
    <3>4. [pc |-> "marked", id |-> sender[s].id]
             \in [pc : {"numbered", "marked"}, id : UsedIds]
      BY <3>2
    <3>5. sender' \in [Senders -> [pc : {"ready"}] \cup [pc : {"numbered", "marked"}, id : UsedIds]]
      BY <3>1, <3>4 DEF OwnMarked
    <3>6. \A t \in Senders : sender'[t].pc = "marked" => sender'[t].id \in cache'.ids
      BY <2>1, <3>1, <3>3 DEF OwnMarked
    <3>7. \A i \in 1 .. Len(sent') : sent'[i].id \in cache'.ids
      BY <2>1, <3>1 DEF OwnMarked
    <3> QED BY <2>1, <2>2, <3>0, <3>1, <3>5, <3>6, <3>7 DEF OwnMarked
  <2>6. ASSUME NEW s \in Senders, SendLink(s) PROVE OwnMarked'
    <3>1. PICK ok \in BOOLEAN : sent' = Append(sent, [id |-> sender[s].id, ok |-> ok])
      BY <2>6 DEF SendLink
    <3>2. seq' = seq /\ sender' = [sender EXCEPT ![s] = [pc |-> "ready"]]
      BY <2>6 DEF SendLink
    <3>3. sender[s].id \in UsedIds /\ sender[s].id \in cache.ids
      BY <2>6 DEF SendLink, OwnMarked
    <3>0. seq' <= Len(sent') + Cardinality(Sending')
      <4>1. PICK call : call = [pc |-> "ready"]
        OBVIOUS
      <4>2. /\ sender' = [sender EXCEPT ![s] = call] /\ DOMAIN sender = Senders
            /\ sender[s].pc # "ready" /\ call.pc = "ready"
        BY <2>6, <3>2, <4>1 DEF SendLink, OwnMarked
      <4>3. /\ Cardinality(Sending) \in Nat
            /\ Cardinality(Sending) = Cardinality(Sending') + 1
        BY <4>2, SendersAreCounted
      <4>4. Cardinality(Sending') \in Nat
        BY ManagerAssumption, FS_Subset, FS_CardinalityType DEF ManagerAssumption, Sending
      <4>5. PICK e : e = [id |-> sender[s].id, ok |-> ok]
        OBVIOUS
      <4>6. Len(sent') = Len(sent) + 1 /\ Len(sent) \in Nat
        BY <3>1, <4>5 DEF OwnMarked
      <4>7. seq <= Len(sent) + Cardinality(Sending) /\ seq \in Nat
        BY DEF OwnMarked
      <4> QED BY <3>2, <4>3, <4>4, <4>6, <4>7
    <3>4. sender' \in [Senders -> [pc : {"ready"}] \cup [pc : {"numbered", "marked"}, id : UsedIds]]
      <4>1. [pc |-> "ready"] \in [pc : {"ready"}]
        OBVIOUS
      <4> QED BY <3>2, <4>1 DEF OwnMarked
    <3>5. \A t \in Senders : sender'[t].pc = "marked" => sender'[t].id \in cache'.ids
      BY <2>1, <3>2 DEF OwnMarked
    <3>6. sent' \in Seq([id : UsedIds, ok : BOOLEAN])
      <4>1. [id |-> sender[s].id, ok |-> ok] \in [id : UsedIds, ok : BOOLEAN]
        BY <3>3, Zenon
      <4> QED BY <3>1, <4>1 DEF OwnMarked
    <3>7. \A i \in 1 .. Len(sent') : sent'[i].id \in cache'.ids
      <4>1. PICK e : e = [id |-> sender[s].id, ok |-> ok]
        OBVIOUS
      <4>2. e.id \in cache.ids
        BY <3>3, <4>1
      <4>3. sent' = Append(sent, e) /\ sent \in Seq([id : UsedIds, ok : BOOLEAN])
        BY <3>1, <4>1 DEF OwnMarked
      <4>4. \A i \in 1 .. Len(sent') :
               (i \in 1 .. Len(sent) /\ sent'[i] = sent[i]) \/ sent'[i] = e
        BY <4>3
      <4> QED BY <2>1, <4>2, <4>4 DEF OwnMarked
    <3> QED BY <2>1, <2>2, <3>0, <3>2, <3>4, <3>5, <3>6, <3>7 DEF OwnMarked
  <2>7. CASE Owner
    BY <2>3, <2>7 DEF Owner, StartExchange, StartInstall, StartSpawn, Destroy, StopSignal, Stop,
                      StopNotify, StopJoinRx, StopJoinFwd
  <2>8. CASE Radio \/ FwdThread \/ SetAppRxCallback \/ UNCHANGED vars
    BY <2>3, <2>8 DEF Radio, Unheard, Arrive, FwdThread, FwdTick, FwdExit, SetAppRxCallback, vars
  <2>9. CASE RxThread
    BY <2>3, <2>9 DEF RxThread, RxLoop, RxCheck, RxBlock, RxTimeout, RxEmpty, RxTake,
                      RxTruncated, RxCancel, RxEvaluate, RxDrop, RxDeliver, RxForward
  <2> QED BY <2>4, <2>5, <2>6, <2>7, <2>8, <2>9 DEF Next, Send
<1> QED BY <1>1, <1>2, RxKeepsOrder, FramesAreAccounted, PTL DEF Spec

(* Where the RX thread gets its verdict and passes a message on; no other  *)
(* step touches either while it has a frame.                               *)
LEMMA RxMoves ==
    ASSUME OwnerOrder, [Next]_vars
    PROVE  \/ RxEvaluate \/ RxDeliver
           \/ /\ delivered' = delivered
              /\ rx' \in {"heard", "judged", "called"} =>
                    RxCancel \/ (rx' = rx /\ evt' = evt /\ result' = result)
<1>1. CASE Owner
  BY <1>1 DEF Owner, StartExchange, StartInstall, StartSpawn, Destroy, StopSignal, Stop,
              StopNotify, StopJoinRx, StopJoinFwd, rxVars, routeVars, appVars
<1>2. CASE Radio
  BY <1>2 DEF Radio, Unheard, Arrive, routeVars, appVars
<1>3. CASE RxThread
  BY <1>3 DEF RxThread, RxLoop, RxCheck, RxBlock, RxTimeout, RxEmpty, RxTake, RxTruncated,
              RxDrop, RxForward, RxDone, RxCancel, appVars
<1>4. CASE FwdThread
  BY <1>4 DEF FwdThread, FwdTick, FwdExit, rxVars, routeVars, appVars
<1>5. CASE Send \/ SetAppRxCallback \/ UNCHANGED vars
  BY <1>5 DEF Send, SendNumber, SendMark, SendLink, SetAppRxCallback, vars, rxVars,
              routeVars, appVars
<1> QED BY <1>1, <1>2, <1>3, <1>4, <1>5 DEF Next

(* What was passed on or accepted for relay is known to the filter and is  *)
(* not this node's own; what is about to be passed on was not before, and  *)
(* no copy of it was accepted.                                             *)
Handled ==
    /\ delivered \in [Ids -> 0 .. 1]
    /\ \A i \in Ids : delivered[i] # 0 => i \in cache.ids \ OwnIds
    /\ \A f \in Accepted : Header[f].id \in cache.ids \ OwnIds
    /\ \A f, g \in Accepted : Header[f].id = Header[g].id => f = g
    /\ rx \in {"judged", "called"} /\ result.verdict # "DROP" =>
          /\ result.id = Header[evt].id /\ result.id \in cache.ids \ OwnIds
          /\ rx = "judged" => delivered[result.id] = 0
          /\ \A f \in Accepted : Header[f].id # result.id

LEMMA StaysHandled == RoomForIds => (Spec => []Handled)
<1> SUFFICES ASSUME RoomForIds PROVE Spec => []Handled
  OBVIOUS
<1>1. Init => Handled
  <2> SUFFICES ASSUME Init PROVE Handled
    OBVIOUS
  <2>1. /\ rx = "unborn" /\ delivered = [i \in Ids |-> 0] /\ fate = [f \in Frames |-> "new"]
    BY DEF Init, Relays!Init
  <2> QED BY <2>1 DEF Handled, Accepted
<1>2. OwnerOrder /\ RxOrder /\ FramesAccounted /\ RelayWork /\ OwnMarked /\ Handled /\ [Next]_vars
        => Handled'
  <2> SUFFICES ASSUME OwnerOrder, RxOrder, FramesAccounted, RelayWork, OwnMarked, Handled,
                      [Next]_vars
               PROVE  Handled'
    OBVIOUS
  <2>1. cache.ids \subseteq cache'.ids
    BY FilterLearns
  <2>2. CASE Accepted' = Accepted /\ ~RxEvaluate /\ ~RxDeliver
    BY <2>1, <2>2, RxMoves DEF Handled, RxCancel
  <2>3. CASE RxEvaluate
    <3>1. PICK h : h = Header[evt]
      OBVIOUS
    <3>2. /\ rx' = "judged" /\ evt' = evt /\ evt \in Frames /\ delivered' = delivered
          /\ Accepted' = Accepted
      BY <2>3 DEF RxEvaluate, RxOrder, appVars, relayVars, Accepted
    <3>3. h.id \in About /\ Route!Evaluate(h, Here, Signal)
      <4>1. h.id \in About
        BY <3>1, <3>2 DEF About
      <4> QED BY <2>3, <3>1, <4>1 DEF RxEvaluate, Route!Evaluate, Route!DropExpired,
              Route!DropDuplicate, Route!DeliverOnly, Route!DeliverAndForward, Route!Answer,
              Route!Filter
    <3>4. result'.verdict # "DROP" => h.id \notin cache.ids /\ h.id \in cache'.ids
      BY <3>3, VerdictDoes DEF OwnMarked
    <3>5. result'.id = h.id
      BY <3>3, VerdictDoes DEF OwnMarked
    <3>6. h.id \in OwnIds => h.id \in cache.ids
      <4>1. evt \in {f \in Frames : rxFate[f] = "processing"}
        BY <3>2, NotAFrame DEF FramesAccounted
      <4> QED BY <3>1, <4>1 DEF OwnMarked
    <3>7. result'.verdict # "DROP" =>
             /\ h.id \in cache'.ids \ OwnIds /\ delivered[h.id] = 0
             /\ \A f \in Accepted : Header[f].id # h.id
      <4>1. h.id \in Ids
        BY <3>1, <3>2 DEF Ids
      <4> QED BY <3>4, <3>6, <4>1 DEF Handled
    <3> QED BY <2>1, <3>1, <3>2, <3>5, <3>7 DEF Handled
  <2>4. CASE RxDeliver
    <3>1. /\ rx = "judged" /\ rx' = "called" /\ evt' = evt /\ result' = result
          /\ cache' = cache /\ result.verdict # "DROP" /\ Accepted' = Accepted
      BY <2>4 DEF RxDeliver, routeVars, relayVars, Accepted
    <3>2. result.id \in Ids
      <4>1. result.id = Header[evt].id /\ evt \in Frames
        BY <3>1 DEF Handled, RxOrder
      <4> QED BY <4>1 DEF Ids
    <3>3. /\ delivered' \in [Ids -> 0 .. 1]
          /\ \A i \in Ids : delivered'[i] # 0 => delivered[i] # 0 \/ i = result.id
      BY <2>4, <3>1, <3>2 DEF RxDeliver, Handled
    <3> QED BY <3>1, <3>3 DEF Handled
  <2>5. CASE RxForward /\ result.verdict = "DELIVER_AND_FORWARD" /\ evt \in Frames
             /\ Accepted' \subseteq Accepted \cup {evt}
    <3>1. rx' = "loop" /\ cache' = cache /\ delivered' = delivered
      BY <2>5 DEF RxForward, RxDone, routeVars, appVars
    <3>2. /\ Header[evt].id \in cache.ids \ OwnIds
          /\ \A f \in Accepted : Header[f].id # Header[evt].id
      BY <2>5 DEF RxForward, Handled
    <3> QED BY <2>5, <3>1, <3>2 DEF Handled
  <2> QED BY <2>2, <2>3, <2>4, <2>5, RelaysMove
<1> QED BY <1>1, <1>2, OwnerKeepsOrder, RxKeepsOrder, FramesAreAccounted, RelaysStayInOrder,
           OwnStayMarked, PTL DEF Spec

(* HandledOnce: while the filter has room for the ids about, a message is  *)
(* passed on at most once and relayed at most once, and this node's own    *)
(* messages are neither.                                                   *)
THEOREM HandledAtMostOnce == RoomForIds => (Spec => []HandledOnce)
<1> SUFFICES ASSUME RoomForIds PROVE Spec => []HandledOnce
  OBVIOUS
<1>1. OwnMarked /\ Handled => HandledOnce
  <2> SUFFICES ASSUME OwnMarked, Handled PROVE HandledOnce
    OBVIOUS
  <2>1. OwnIds \subseteq Ids
    BY DEF Ids
  <2>2. DeliveredOnce
    BY <2>1 DEF Handled, DeliveredOnce
  <2>3. Committed \subseteq Accepted
    BY DEF Committed, Accepted
  <2> QED BY <2>2, <2>3 DEF Handled, RelayedOnce, HandledOnce
<1> QED BY <1>1, OwnStayMarked, StaysHandled, PTL

-----------------------------------------------------------------------------
(* The relays that other copies overtake.                                  *)

(* The copies of a message carry the same time and lifetime: a relay       *)
(* rewrites only the hop count and the transmitter's position              *)
(* (forwarding_queue.cpp:124-136).                                         *)
CopiesAgree ==
    \A f, g \in Frames : Header[f].id = Header[g].id =>
        /\ Header[f].timestamp = Header[g].timestamp
        /\ Header[f].lifetime = Header[g].lifetime

(* Frame f is a copy of a message of which g has overtaken the relay.      *)
Overtakes(g, f) ==
    Header[f].id = Header[g].id /\ Relays!IsBetween(Header[f].origin, Here, Header[g].tx)

Processed == {f \in Frames : rxFate[f] = "done" /\ f \notin Truncated}
Judged(f) == Route!Expired(Header[f]) \/ Header[f].id \in cache.ids

(* Each frame that was processed left its mark; one that is to be relayed  *)
(* is the first copy processed; and from the moment the queue was shown a  *)
(* frame it holds no relay that the frame overtakes.                       *)
Shown ==
    /\ \A f \in Processed : Judged(f)
    /\ rx \in {"heard", "judged", "called"} =>
          \A f \in Waiting \ {evt} : ~Overtakes(evt, f)
    /\ rx \in {"judged", "called"} =>
          /\ Judged(evt)
          /\ result.verdict # "DROP" => \A f \in Processed : Header[f].id # Header[evt].id
    /\ \A f \in Waiting : \A g \in Processed \ {f} : ~Overtakes(g, f)

LEMMA StayShown == RoomForIds /\ CopiesAgree => (Spec => []Shown)
<1> SUFFICES ASSUME RoomForIds, CopiesAgree PROVE Spec => []Shown
  OBVIOUS
<1>1. Init => Shown
  <2> SUFFICES ASSUME Init PROVE Shown
    OBVIOUS
  <2>1. rx = "unborn" /\ rxFate = [f \in Frames |-> "away"] /\ fate = [f \in Frames |-> "new"]
    BY DEF Init, Relays!Init
  <2> QED BY <2>1 DEF Shown, Processed, Waiting
<1>2. OwnerOrder /\ RxOrder /\ FramesAccounted /\ RelayWork /\ OwnMarked /\ Shown /\ [Next]_vars
        => Shown'
  <2> SUFFICES ASSUME OwnerOrder, RxOrder, FramesAccounted, RelayWork, OwnMarked, Shown,
                      [Next]_vars
               PROVE  Shown'
    OBVIOUS
  <2>1. \A f : Judged(f) => Judged(f)'
    BY FilterLearns DEF Judged, Route!Expired
  <2>2. \/ Processed' = Processed
        \/ /\ RxTruncated \/ RxDrop \/ RxForward
           /\ Processed' \subseteq Processed \cup {evt}
           /\ RxTruncated => Processed' = Processed
    <3>1. ASSUME NEW f \in Frames, rxFate'[f] # rxFate[f]
          PROVE  \/ rxFate[f] # "done" /\ rxFate'[f] # "done"
                 \/ /\ RxTruncated \/ RxDrop \/ RxForward
                    /\ f = evt /\ rxFate[f] = "processing"
      BY <3>1, FatesMove
    <3>2. \A f \in Frames : f \in Processed => rxFate[f] # "processing"
      BY DEF Processed
    <3>3. CASE RxTruncated
      <4>1. evt \in Truncated
        BY <3>3 DEF RxTruncated
      <4> QED BY <3>1, <3>3, <4>1 DEF Processed
    <3>4. CASE ~RxTruncated /\ (RxDrop \/ RxForward)
      BY <3>1, <3>4 DEF Processed
    <3>5. CASE ~RxTruncated /\ ~RxDrop /\ ~RxForward
      BY <3>1, <3>5 DEF Processed
    <3> QED BY <3>3, <3>4, <3>5
  <2>3. \A f \in Processed' : Judged(f)'
    <3>1. CASE Processed' = Processed
      BY <2>1, <3>1 DEF Shown
    <3>2. CASE RxDrop \/ RxForward
      <4>1. Judged(evt)
        BY <3>2 DEF RxDrop, RxForward, Shown
      <4> QED BY <2>1, <2>2, <4>1 DEF Shown
    <3> QED BY <2>2, <3>1, <3>2
  <2>4. CASE RxForward
    <3>1. rx = "called" /\ rx' = "loop" /\ evt \in Frames
      BY <2>4 DEF RxForward, RxDone, RxOrder
    <3>2. /\ Processed' \subseteq Processed \cup {evt}
          /\ Waiting' \subseteq Waiting \/ (result.verdict = "DELIVER_AND_FORWARD"
                                            /\ Waiting' \subseteq Waiting \cup {evt})
      BY <2>2, RelaysMove
    <3>3. \A f \in Waiting \ {evt} : ~Overtakes(evt, f)
      BY <3>1 DEF Shown
    <3>4. result.verdict # "DROP" => \A g \in Processed : ~Overtakes(g, evt)
      BY <3>1 DEF Shown, Overtakes
    <3>5. \A f \in Waiting' : \A g \in Processed' \ {f} : ~Overtakes(g, f)
      BY <3>2, <3>3, <3>4 DEF Shown
    <3>6. Shown' <=> /\ \A f \in Processed' : Judged(f)'
                     /\ \A f \in Waiting' : \A g \in Processed' \ {f} : ~Overtakes(g, f)
      BY <3>1 DEF Shown, Overtakes
    <3> QED BY <2>3, <3>5, <3>6
  <2>5. CASE RxDrop
    <3>1. /\ rx = "judged" /\ rx' = "loop" /\ Waiting' = Waiting
          /\ Processed' \subseteq Processed \cup {evt}
      BY <2>2, <2>5 DEF RxDrop, RxDone, relayVars, Waiting
    <3>2. \A f \in Waiting' : \A g \in Processed' \ {f} : ~Overtakes(g, f)
      BY <3>1 DEF Shown
    <3> QED BY <2>3, <3>1, <3>2 DEF Shown, Overtakes
  <2>6. CASE RxCancel
    <3>1. /\ rx' = "heard" /\ evt' = evt /\ rxFate' = rxFate
      BY <2>6 DEF RxCancel
    <3>2. PICK h : h = Header[evt]
      OBVIOUS
    <3>3. Relays!OnDuplicateHeard(h.id, Here, h.tx)
      BY <2>6, <3>2 DEF RxCancel, Relays!OnDuplicateHeard
    <3>4. PICK id, tx : id = h.id /\ tx = h.tx
      OBVIOUS
    <3>5. Relays!OnDuplicateHeard(id, Here, tx)
      BY <3>3, <3>4 DEF Relays!OnDuplicateHeard
    <3>6. /\ Waiting' \subseteq Waiting
          /\ \A f \in Waiting' : ~(Header[f].id = id /\ Relays!IsBetween(Header[f].origin, Here, tx))
      BY <3>5, CancelDoes
    <3>7. \A f \in Waiting' : ~Overtakes(evt, f)
      BY <3>2, <3>4, <3>6 DEF Overtakes
    <3>8. Processed' = Processed
      BY <3>1 DEF Processed
    <3> QED BY <2>3, <3>1, <3>6, <3>7, <3>8 DEF Shown, Overtakes
  <2>7. CASE RxEvaluate
    <3>1. /\ rx = "heard" /\ rx' = "judged" /\ evt' = evt /\ evt \in Frames
          /\ Processed' = Processed /\ Waiting' = Waiting
      BY <2>7 DEF RxEvaluate, RxOrder, relayVars, Waiting, Processed
    <3>2. PICK h : h = Header[evt]
      OBVIOUS
    <3>3. h.id \in About /\ Route!Evaluate(h, Here, Signal)
      <4>1. h.id \in About
        BY <3>1, <3>2 DEF About
      <4> QED BY <2>7, <3>2, <4>1 DEF RxEvaluate, Route!Evaluate, Route!DropExpired,
              Route!DropDuplicate, Route!DeliverOnly, Route!DeliverAndForward, Route!Answer,
              Route!Filter
    <3>4. /\ Route!Expired(h) => result'.verdict = "DROP" /\ cache' = cache
          /\ ~Route!Expired(h) => h.id \in cache'.ids
                                  /\ (result'.verdict = "DROP" <=> h.id \in cache.ids)
      BY <3>3, VerdictDoes DEF OwnMarked
    <3>5. Judged(evt)'
      BY <3>1, <3>2, <3>4 DEF Judged, Route!Expired
    <3>6. ASSUME result'.verdict # "DROP", NEW f \in Processed, Header[f].id = Header[evt].id
          PROVE  FALSE
      <4>1. ~Route!Expired(h) /\ h.id \notin cache.ids
        BY <3>4, <3>6
      <4>2. Route!Expired(Header[f]) <=> Route!Expired(h)
        BY <3>1, <3>2, <3>6 DEF CopiesAgree, Processed, Route!Expired
      <4>3. Judged(f)
        BY DEF Shown
      <4> QED BY <3>2, <3>6, <4>1, <4>2, <4>3 DEF Judged
    <3> QED BY <2>3, <3>1, <3>5, <3>6 DEF Shown, Overtakes
  <2>8. CASE ~RxForward /\ ~RxDrop /\ ~RxCancel /\ ~RxEvaluate
    <3>1. Processed' = Processed /\ Waiting' \subseteq Waiting
      BY <2>2, <2>8, RelaysMove
    <3>2. rx' \in {"heard", "judged", "called"} =>
             /\ evt' = evt /\ result' = result
             /\ rx' = rx \/ (rx = "judged" /\ rx' = "called")
      BY <2>8, RxMoves DEF RxDeliver, routeVars
    <3>3. rx' \in {"heard", "judged", "called"} => \A f \in Waiting' \ {evt} : ~Overtakes(evt, f)
      BY <3>1, <3>2 DEF Shown
    <3>4. rx' \in {"judged", "called"} => Judged(evt)'
      <4>1. rx' \in {"judged", "called"} => evt' = evt /\ Judged(evt)
        BY <3>2 DEF Shown
      <4> QED BY <2>1, <4>1 DEF Judged, Route!Expired
    <3> QED BY <2>3, <3>1, <3>2, <3>3, <3>4 DEF Shown, Overtakes
  <2> QED BY <2>4, <2>5, <2>6, <2>7, <2>8
<1> QED BY <1>1, <1>2, OwnerKeepsOrder, RxKeepsOrder, FramesAreAccounted, RelaysStayInOrder,
           OwnStayMarked, PTL DEF Spec

(* OvertakenNotHeld: a relay that another processed copy has overtaken is  *)
(* not held any more.                                                      *)
THEOREM OvertakenAreCancelled == RoomForIds /\ CopiesAgree => (Spec => []OvertakenNotHeld)
<1> SUFFICES ASSUME RoomForIds, CopiesAgree PROVE Spec => []OvertakenNotHeld
  OBVIOUS
<1>1. Shown => OvertakenNotHeld
  BY DEF Shown, OvertakenNotHeld, Overtakes, Processed, Waiting
<1> QED BY <1>1, StayShown, PTL

-----------------------------------------------------------------------------
(* The types, which need neither room in the filter nor honest copies.     *)

ThreadTypes ==
    /\ main \in MainStates
    /\ {doomed, running, started, handler, listening} \subseteq BOOLEAN
    /\ Len(rx_queue) <= RxDepth
    /\ rx \in RxStates
    /\ fwd \in {"unborn", "running", "exited"}
    /\ delivered \in [Ids -> Nat]

LEMMA ThreadsAreTyped == Spec => []ThreadTypes
<1>0. RxDepth \in Nat
  BY ManagerAssumption, SMT DEF ManagerAssumption
<1>1. Init => ThreadTypes
  <2> SUFFICES ASSUME Init PROVE ThreadTypes
    OBVIOUS
  <2>1. Len(rx_queue) <= RxDepth
    BY <1>0 DEF Init
  <2> QED BY <2>1 DEF Init, ThreadTypes, MainStates, RxStates
<1>2. RxOrder /\ ThreadTypes /\ [Next]_vars => ThreadTypes'
  <2> SUFFICES ASSUME RxOrder, ThreadTypes, [Next]_vars PROVE ThreadTypes'
    OBVIOUS
  <2>1. CASE Owner
    <3>1. UNCHANGED <<rx_queue, listening, delivered>>
      BY <2>1 DEF Owner, StartExchange, StartInstall, StartSpawn, Destroy, StopSignal, Stop,
                  StopNotify, StopJoinRx, StopJoinFwd, rxVars, appVars
    <3>2. main' \in MainStates /\ {doomed', running', started', handler'} \subseteq BOOLEAN
      BY <2>1 DEF Owner, StartExchange, StartInstall, StartSpawn, Destroy, StopSignal, Stop,
                  StopNotify, StopJoinRx, StopJoinFwd, ThreadTypes, MainStates
    <3>3. rx' \in RxStates /\ fwd' \in {"unborn", "running", "exited"}
      BY <2>1 DEF Owner, StartExchange, StartInstall, StartSpawn, Destroy, StopSignal, Stop,
                  StopNotify, StopJoinRx, StopJoinFwd, ThreadTypes, RxStates, rxVars
    <3> QED BY <3>1, <3>2, <3>3 DEF ThreadTypes
  <2>2. ASSUME NEW f \in Frames, Unheard(f) \/ Arrive(f) PROVE ThreadTypes'
    <3>1. UNCHANGED <<main, doomed, running, started, handler, fwd, listening, delivered>>
      BY <2>2 DEF Unheard, Arrive, ownerVars, appVars
    <3>2. rx' \in RxStates
      BY <2>2 DEF Unheard, Arrive, ThreadTypes, RxStates
    <3>3. Len(rx_queue') <= RxDepth
      <4>1. CASE rx_queue' = rx_queue
        BY <4>1 DEF ThreadTypes
      <4>2. CASE Len(rx_queue) < RxDepth /\ rx_queue' = Append(rx_queue, f)
        <5>1. rx_queue \in Seq(Frames)
          BY DEF RxOrder
        <5>2. Len(rx_queue') = Len(rx_queue) + 1 /\ Len(rx_queue) \in Nat
          BY <4>2, <5>1
        <5> QED BY <1>0, <4>2, <5>2
      <4>3. ~(Len(rx_queue) >= RxDepth) => Len(rx_queue) < RxDepth
        BY <1>0 DEF RxOrder
      <4> QED BY <2>2, <4>1, <4>2, <4>3 DEF Unheard, Arrive
    <3> QED BY <3>1, <3>2, <3>3 DEF ThreadTypes
  <2>3. CASE RxThread /\ ~RxTake /\ ~RxDeliver
    <3>1. UNCHANGED <<main, doomed, running, started, handler, fwd, rx_queue, listening, delivered>>
      BY <2>3 DEF RxThread, RxLoop, RxCheck, RxBlock, RxTimeout, RxEmpty, RxTruncated,
                  RxCancel, RxEvaluate, RxDrop, RxForward, ownerVars, appVars
    <3>2. rx' \in RxStates
      BY <2>3 DEF RxThread, RxLoop, RxCheck, RxBlock, RxTimeout, RxEmpty, RxTruncated,
                  RxCancel, RxEvaluate, RxDrop, RxForward, RxDone, RxStates
    <3> QED BY <3>1, <3>2 DEF ThreadTypes
  <2>4. CASE RxTake
    <3>1. Len(rx_queue') <= RxDepth
      <4>1. rx_queue \in Seq(Frames) /\ rx_queue # <<>> /\ rx_queue' = Tail(rx_queue)
        BY <2>4 DEF RxTake, RxOrder
      <4>2. Len(rx_queue') = Len(rx_queue) - 1 /\ Len(rx_queue) \in Nat
        BY <4>1
      <4> QED BY <1>0, <4>2 DEF ThreadTypes
    <3> QED BY <2>4, <3>1 DEF RxTake, ThreadTypes, RxStates, ownerVars, appVars
  <2>5. CASE RxDeliver
    <3>1. delivered' \in [Ids -> Nat]
      <4>1. PICK id : id = result.id
        OBVIOUS
      <4>2. delivered' = delivered \/ delivered' = [delivered EXCEPT ![id] = @ + 1]
        BY <2>5, <4>1 DEF RxDeliver
      <4>3. delivered \in [Ids -> Nat]
        BY DEF ThreadTypes
      <4>4. CASE delivered' = delivered
        BY <4>3, <4>4
      <4>5. CASE delivered' = [delivered EXCEPT ![id] = @ + 1]
        <5>1. DOMAIN delivered' = Ids
          BY <4>3, <4>5
        <5>2. \A i \in Ids : delivered'[i] \in Nat
          BY <4>3, <4>5
        <5>3. delivered' = [i \in Ids |-> delivered'[i]]
          BY <4>3, <4>5
        <5> QED BY <5>2, <5>3
      <4> QED BY <4>2, <4>4, <4>5
    <3> QED BY <2>5, <3>1 DEF RxDeliver, ThreadTypes, RxStates, ownerVars
  <2>6. CASE FwdThread
    BY <2>6 DEF FwdThread, FwdTick, FwdExit, ThreadTypes, ownerVars, rxVars, appVars
  <2>7. CASE Send \/ SetAppRxCallback \/ UNCHANGED vars
    BY <2>7 DEF Send, SendNumber, SendMark, SendLink, SetAppRxCallback, vars, ThreadTypes,
                ownerVars, rxVars, appVars
  <2> QED BY <2>1, <2>2, <2>3, <2>4, <2>5, <2>6, <2>7 DEF Next, Radio
<1> QED BY <1>1, <1>2, RxKeepsOrder, PTL DEF Spec

(* Where the senders are, and what they have sent.                         *)
Calls == [pc : {"ready"}] \cup [pc : {"numbered", "marked"}, id : OwnIds]

SenderTypes ==
    /\ seq \in 0 .. SeqMod - 1
    /\ sender \in [Senders -> Calls]
    /\ sent \in Seq([id : OwnIds, ok : BOOLEAN])
    /\ Len(sent) + Cardinality(Sending) <= MaxSends

LEMMA SendersAreTyped == Spec => []SenderTypes
<1>0. SeqMod \in Nat \ {0} /\ MaxSends \in Nat
  BY ManagerAssumption, SMT DEF ManagerAssumption
<1>1. Init => SenderTypes
  <2> SUFFICES ASSUME Init PROVE SenderTypes
    OBVIOUS
  <2>1. seq = 0 /\ sender = [s \in Senders |-> [pc |-> "ready"]] /\ sent = <<>>
    BY DEF Init
  <2>2. Sending = {}
    BY <2>1 DEF Sending
  <2>3. Cardinality(Sending) = 0 /\ Len(sent) = 0
    BY <2>1, <2>2, FS_EmptySet
  <2>4. Len(sent) + Cardinality(Sending) <= MaxSends
    BY <1>0, <2>3
  <2> QED BY <1>0, <2>1, <2>4 DEF SenderTypes, Calls
<1>2. SenderTypes /\ [Next]_vars => SenderTypes'
  <2> SUFFICES ASSUME SenderTypes, [Next]_vars PROVE SenderTypes'
    OBVIOUS
  <2>3. CASE UNCHANGED sendVars
    <3>1. seq' = seq /\ sender' = sender /\ sent' = sent
      BY <2>3 DEF sendVars
    <3>2. Sending' = Sending
      BY <3>1 DEF Sending
    <3> QED BY <3>1, <3>2 DEF SenderTypes
  <2>4. ASSUME NEW s \in Senders, SendNumber(s) PROVE SenderTypes'
    <3>1. PICK call : call = [pc |-> "numbered", id |-> MessageId(seq)]
      OBVIOUS
    <3>2. /\ seq' = (seq + 1) % SeqMod /\ sent' = sent
          /\ sender' = [sender EXCEPT ![s] = call] /\ sender[s].pc = "ready"
          /\ Len(sent) + Cardinality(Sending) < MaxSends
      BY <2>4, <3>1 DEF SendNumber, Sending
    <3>3. call \in Calls /\ call.pc # "ready"
      BY <3>1 DEF Calls, OwnIds, SenderTypes
    <3>4. seq' \in 0 .. SeqMod - 1
      <4>1. seq + 1 \in Nat
        BY DEF SenderTypes
      <4> QED BY <1>0, <3>2, <4>1, RemainderIsBelow
    <3>5. Cardinality(Sending) \in Nat /\ Cardinality(Sending') = Cardinality(Sending) + 1
      BY <3>2, <3>3, SendersAreCounted DEF SenderTypes
    <3>6. Len(sent') + Cardinality(Sending') <= MaxSends
      <4>1. Len(sent) \in Nat
        BY DEF SenderTypes
      <4> QED BY <1>0, <3>2, <3>5, <4>1
    <3> QED BY <3>2, <3>3, <3>4, <3>6 DEF SenderTypes
  <2>5. ASSUME NEW s \in Senders, SendMark(s) PROVE SenderTypes'
    <3>1. PICK call : call = [pc |-> "marked", id |-> sender[s].id]
      OBVIOUS
    <3>2. /\ seq' = seq /\ sent' = sent
          /\ sender' = [sender EXCEPT ![s] = call] /\ sender[s].pc = "numbered"
      BY <2>5, <3>1 DEF SendMark
    <3>3. call \in Calls /\ call.pc # "ready"
      BY <3>1, <3>2 DEF Calls, SenderTypes
    <3>4. Sending' = Sending
      BY <3>2, <3>3, SendersAreCounted DEF SenderTypes
    <3> QED BY <3>2, <3>3, <3>4 DEF SenderTypes
  <2>6. ASSUME NEW s \in Senders, SendLink(s) PROVE SenderTypes'
    <3>a. PICK call : call = [pc |-> "ready"]
      OBVIOUS
    <3>b. PICK ok \in BOOLEAN : sent' = Append(sent, [id |-> sender[s].id, ok |-> ok])
      BY <2>6 DEF SendLink
    <3>c. PICK e : e = [id |-> sender[s].id, ok |-> ok]
      OBVIOUS
    <3>1. /\ call = [pc |-> "ready"] /\ e = [id |-> sender[s].id, ok |-> ok]
          /\ sent' = Append(sent, e)
      BY <3>a, <3>b, <3>c, Zenon
    <3>2. seq' = seq /\ sender' = [sender EXCEPT ![s] = call] /\ sender[s].pc = "marked"
      BY <2>6, <3>1 DEF SendLink
    <3>3. call \in Calls /\ call.pc = "ready" /\ e \in [id : OwnIds, ok : BOOLEAN]
      <4>1. sender[s].id \in OwnIds
        BY <3>2 DEF SenderTypes, Calls
      <4>2. e \in [id : OwnIds, ok : BOOLEAN]
        BY <3>1, <4>1, Zenon
      <4> QED BY <3>1, <4>2 DEF Calls
    <3>4. Cardinality(Sending) = Cardinality(Sending') + 1
      BY <3>2, <3>3, SendersAreCounted DEF SenderTypes
    <3>5. Cardinality(Sending') \in Nat
      BY ManagerAssumption, FS_Subset, FS_CardinalityType DEF ManagerAssumption, Sending
    <3>6. /\ sent' \in Seq([id : OwnIds, ok : BOOLEAN])
          /\ Len(sent') = Len(sent) + 1 /\ Len(sent) \in Nat
      BY <3>1, <3>3 DEF SenderTypes
    <3>7. Len(sent') + Cardinality(Sending') <= MaxSends
      BY <1>0, <3>4, <3>5, <3>6 DEF SenderTypes
    <3> QED BY <3>2, <3>3, <3>6, <3>7 DEF SenderTypes
  <2>7. CASE Owner
    BY <2>3, <2>7 DEF Owner, StartExchange, StartInstall, StartSpawn, Destroy, StopSignal, Stop,
                      StopNotify, StopJoinRx, StopJoinFwd
  <2>8. CASE Radio \/ FwdThread \/ SetAppRxCallback \/ UNCHANGED vars
    BY <2>3, <2>8 DEF Radio, Unheard, Arrive, FwdThread, FwdTick, FwdExit, SetAppRxCallback, vars
  <2>9. CASE RxThread
    BY <2>3, <2>9 DEF RxThread, RxLoop, RxCheck, RxBlock, RxTimeout, RxEmpty, RxTake,
                      RxTruncated, RxCancel, RxEvaluate, RxDrop, RxDeliver, RxForward
  <2> QED BY <2>4, <2>5, <2>6, <2>7, <2>8, <2>9 DEF Next, Send
<1> QED BY <1>1, <1>2, PTL DEF Spec

(* The ids of the first n numbers of a round.                              *)
FirstIds(n) == {MessageId(k) : k \in 0 .. n - 1}

(* In the first round of numbers: the next number is that of the calls so  *)
(* far, and each of them has an id of its own among those of the numbers   *)
(* before it, whether it has ended or not.                                 *)
Begun == Len(sent) + Cardinality(Sending)
InTurn ==
    /\ Begun < SeqMod => seq = Begun
    /\ \A i \in 1 .. Len(sent) : sent[i].id \in FirstIds(Begun)
    /\ \A s \in Sending : sender[s].id \in FirstIds(Begun)
    /\ \A i, k \in 1 .. Len(sent) : sent[i].id = sent[k].id => i = k
    /\ \A s, t \in Sending : sender[s].id = sender[t].id => s = t
    /\ \A s \in Sending : \A i \in 1 .. Len(sent) : sent[i].id # sender[s].id

Numbering == SenderTypes /\ (Begun <= SeqMod => InTurn)

LEMMA NextIdIsFresh ==
    ASSUME NEW n \in Nat
    PROVE  /\ MessageId(n) \notin FirstIds(n) /\ MessageId(n) \in FirstIds(n + 1)
           /\ FirstIds(n) \subseteq FirstIds(n + 1)
<1>1. NodeId \in Nat
  BY ManagerAssumption, SMT DEF ManagerAssumption
<1>2. \A k \in 0 .. n - 1 : MessageId(k) # MessageId(n)
  BY <1>1 DEF MessageId
<1>3. n \in 0 .. (n + 1) - 1 /\ 0 .. n - 1 \subseteq 0 .. (n + 1) - 1
  OBVIOUS
<1> QED BY <1>2, <1>3, Zenon DEF FirstIds

(* sendMessage uses its number up, whether it succeeds or fails: in a      *)
(* round of sequence numbers no two calls have one id, for any number of   *)
(* threads (network_manager.cpp:98, 125).                                  *)
THEOREM NumbersAreUsedUp == Spec => []NumbersUsedUp
<1>0. SeqMod \in Nat \ {0}
  BY ManagerAssumption, SMT DEF ManagerAssumption
<1>1. Init /\ SenderTypes => Numbering
  <2> SUFFICES ASSUME Init, SenderTypes PROVE Numbering
    OBVIOUS
  <2>1. seq = 0 /\ sender = [s \in Senders |-> [pc |-> "ready"]] /\ sent = <<>>
    BY DEF Init
  <2>2. Sending = {}
    BY <2>1 DEF Sending
  <2>3. Begun = 0 /\ Len(sent) = 0
    BY <2>1, <2>2, FS_EmptySet DEF Begun
  <2> QED BY <2>1, <2>2, <2>3 DEF Numbering, InTurn
<1>2. Numbering /\ [Next]_vars /\ SenderTypes' => Numbering'
  <2> SUFFICES ASSUME Numbering, [Next]_vars, SenderTypes' PROVE Numbering'
    OBVIOUS
  <2>0. /\ DOMAIN sender = Senders /\ Len(sent) \in Nat
        /\ sent \in Seq([id : OwnIds, ok : BOOLEAN])
    BY DEF Numbering, SenderTypes
  <2>3. CASE UNCHANGED sendVars
    <3>1. seq' = seq /\ sender' = sender /\ sent' = sent
      BY <2>3 DEF sendVars
    <3>2. Sending' = Sending
      BY <3>1 DEF Sending
    <3>3. Begun' = Begun
      BY <3>1, <3>2 DEF Begun
    <3> QED BY <3>1, <3>2, <3>3 DEF Numbering, InTurn
  <2>4. ASSUME NEW s \in Senders, SendNumber(s) PROVE Numbering'
    <3>1. PICK call : call = [pc |-> "numbered", id |-> MessageId(seq)]
      OBVIOUS
    <3>2. /\ seq' = (seq + 1) % SeqMod /\ sent' = sent
          /\ sender' = [sender EXCEPT ![s] = call] /\ sender[s].pc = "ready"
          /\ call.pc # "ready" /\ call.id = MessageId(seq)
      BY <2>4, <3>1 DEF SendNumber
    <3>3. Cardinality(Sending) \in Nat /\ Cardinality(Sending') = Cardinality(Sending) + 1
      BY <2>0, <3>2, SendersAreCounted
    <3>4. Begun \in Nat /\ Begun' = Begun + 1
      BY <2>0, <3>2, <3>3 DEF Begun
    <3> SUFFICES ASSUME Begun' <= SeqMod PROVE InTurn'
      BY Zenon DEF Numbering
    <3>5. Begun < SeqMod /\ Begun <= SeqMod
      BY <1>0, <3>4
    <3>6. InTurn /\ seq = Begun
      BY <3>5 DEF Numbering, InTurn
    <3>7. /\ Sending' = Sending \cup {s} /\ s \notin Sending
          /\ \A t \in Sending : t # s /\ sender'[t] = sender[t]
          /\ sender'[s] = call
      BY <2>0, <3>2 DEF Sending
    <3>8. /\ call.id \notin FirstIds(Begun) /\ call.id \in FirstIds(Begun + 1)
          /\ FirstIds(Begun) \subseteq FirstIds(Begun + 1)
      BY <3>2, <3>4, <3>6, NextIdIsFresh
    <3>9. Begun' < SeqMod => seq' = Begun'
      BY <1>0, <3>2, <3>4, <3>6
    <3>10. \A i \in 1 .. Len(sent') : sent'[i].id \in FirstIds(Begun')
      BY <3>2, <3>4, <3>6, <3>8 DEF InTurn
    <3>11. \A t \in Sending' : sender'[t].id \in FirstIds(Begun')
      BY <3>4, <3>6, <3>7, <3>8 DEF InTurn
    <3>12. \A i, k \in 1 .. Len(sent') : sent'[i].id = sent'[k].id => i = k
      BY <3>2, <3>6 DEF InTurn
    <3>13. \A t, u \in Sending' : sender'[t].id = sender'[u].id => t = u
      BY <3>2, <3>6, <3>7, <3>8 DEF InTurn
    <3>14. \A t \in Sending' : \A i \in 1 .. Len(sent') : sent'[i].id # sender'[t].id
      BY <3>2, <3>6, <3>7, <3>8 DEF InTurn
    <3> QED BY <3>9, <3>10, <3>11, <3>12, <3>13, <3>14 DEF InTurn
  <2>5. ASSUME NEW s \in Senders, SendMark(s) PROVE Numbering'
    <3>1. PICK call : call = [pc |-> "marked", id |-> sender[s].id]
      OBVIOUS
    <3>2. /\ seq' = seq /\ sent' = sent
          /\ sender' = [sender EXCEPT ![s] = call] /\ sender[s].pc = "numbered"
          /\ call.pc # "ready" /\ call.id = sender[s].id
      BY <2>5, <3>1 DEF SendMark
    <3>3. Sending' = Sending
      BY <2>0, <3>2, SendersAreCounted
    <3>4. \A t \in Sending : sender'[t].id = sender[t].id
      BY <2>0, <3>2 DEF Sending
    <3>5. Begun' = Begun
      BY <3>2, <3>3 DEF Begun
    <3> SUFFICES ASSUME Begun' <= SeqMod PROVE InTurn'
      BY Zenon DEF Numbering
    <3>6. InTurn
      BY <3>5 DEF Numbering
    <3> QED BY <3>2, <3>3, <3>4, <3>5, <3>6 DEF InTurn
  <2>6. ASSUME NEW s \in Senders, SendLink(s) PROVE Numbering'
    <3>a. PICK call : call = [pc |-> "ready"]
      OBVIOUS
    <3>b. PICK ok \in BOOLEAN : sent' = Append(sent, [id |-> sender[s].id, ok |-> ok])
      BY <2>6 DEF SendLink
    <3>c. PICK e : e = [id |-> sender[s].id, ok |-> ok]
      OBVIOUS
    <3>1. call.pc = "ready" /\ e.id = sender[s].id /\ sent' = Append(sent, e)
      BY <3>a, <3>b, <3>c
    <3>2. seq' = seq /\ sender' = [sender EXCEPT ![s] = call] /\ sender[s].pc = "marked"
      BY <2>6, <3>a DEF SendLink
    <3>3. /\ Cardinality(Sending) \in Nat
          /\ Cardinality(Sending) = Cardinality(Sending') + 1
      BY <2>0, <3>1, <3>2, SendersAreCounted
    <3>4. Cardinality(Sending') \in Nat
      BY ManagerAssumption, FS_Subset, FS_CardinalityType DEF ManagerAssumption, Sending
    <3>5. /\ Len(sent') = Len(sent) + 1
          /\ \A i \in 1 .. Len(sent) : sent'[i] = sent[i]
          /\ sent'[Len(sent) + 1] = e
      BY <2>0, <3>1
    <3>6. Begun' = Begun
      BY <2>0, <3>3, <3>4, <3>5 DEF Begun
    <3>7. /\ s \in Sending /\ Sending' = Sending \ {s}
          /\ \A t \in Sending' : t \in Sending /\ t # s /\ sender'[t] = sender[t]
      BY <2>0, <3>1, <3>2 DEF Sending
    <3> SUFFICES ASSUME Begun' <= SeqMod PROVE InTurn'
      BY Zenon DEF Numbering
    <3>8. InTurn
      BY <3>6 DEF Numbering
    <3>9. \A i \in 1 .. Len(sent') :
             \/ i \in 1 .. Len(sent) /\ sent'[i].id = sent[i].id
             \/ i = Len(sent) + 1 /\ sent'[i].id = sender[s].id
      BY <2>0, <3>1, <3>5
    <3>10. \A i \in 1 .. Len(sent') : sent'[i].id \in FirstIds(Begun')
      BY <3>6, <3>7, <3>8, <3>9 DEF InTurn
    <3>11. \A i, k \in 1 .. Len(sent') : sent'[i].id = sent'[k].id => i = k
      BY <3>7, <3>8, <3>9 DEF InTurn
    <3>12. \A t \in Sending' : \A i \in 1 .. Len(sent') : sent'[i].id # sender'[t].id
      BY <3>7, <3>8, <3>9 DEF InTurn
    <3>13. /\ Begun' < SeqMod => seq' = Begun'
           /\ \A t \in Sending' : sender'[t].id \in FirstIds(Begun')
           /\ \A t, u \in Sending' : sender'[t].id = sender'[u].id => t = u
      BY <3>2, <3>6, <3>7, <3>8 DEF InTurn
    <3> QED BY <3>10, <3>11, <3>12, <3>13 DEF InTurn
  <2>7. CASE Owner
    BY <2>3, <2>7 DEF Owner, StartExchange, StartInstall, StartSpawn, Destroy, StopSignal, Stop,
                      StopNotify, StopJoinRx, StopJoinFwd
  <2>8. CASE Radio \/ FwdThread \/ SetAppRxCallback \/ UNCHANGED vars
    BY <2>3, <2>8 DEF Radio, Unheard, Arrive, FwdThread, FwdTick, FwdExit, SetAppRxCallback, vars
  <2>9. CASE RxThread
    BY <2>3, <2>9 DEF RxThread, RxLoop, RxCheck, RxBlock, RxTimeout, RxEmpty, RxTake,
                      RxTruncated, RxCancel, RxEvaluate, RxDrop, RxDeliver, RxForward
  <2> QED BY <2>4, <2>5, <2>6, <2>7, <2>8, <2>9 DEF Next, Send
<1>3. Numbering => NumbersUsedUp
  BY DEF Numbering, InTurn, Begun, NumbersUsedUp
<1> QED BY <1>1, <1>2, <1>3, SendersAreTyped, PTL DEF Spec

-----------------------------------------------------------------------------
(* The filter and the verdict, whatever the ids are.                       *)

LEMMA TouchKeepsType ==
    ASSUME Route!Dup!TypeOK, NEW id \in Ids, cache' = Route!Dup!Touch(cache, id)
    PROVE  Route!Dup!TypeOK'
<1>1. PICK kept : kept = Route!Dup!Kept(cache, id)
  OBVIOUS
<1>2. kept \subseteq Ids
  BY <1>1 DEF Route!Dup!TypeOK, Route!Dup!Kept
<1>3. /\ cache'.ids = kept \cup {id}
      /\ cache'.older = (cache.older \cap (kept \X kept)) \cup (kept \X {id})
  BY <1>1 DEF Route!Dup!Touch
<1> QED BY <1>2, <1>3 DEF Route!Dup!TypeOK

LEMMA VerdictIsTyped ==
    ASSUME Route!TypeOK, NEW h, h.id \in Ids, NEW me, NEW signal, Route!Evaluate(h, me, signal)
    PROVE  Route!TypeOK'
<1>1. Route!Dup!TypeOK'
  <2>1. cache' = cache \/ cache' = Route!Dup!Touch(cache, h.id)
    BY DEF Route!Evaluate, Route!DropExpired, Route!DropDuplicate, Route!DeliverOnly,
           Route!DeliverAndForward, Route!Filter
  <2>2. CASE cache' = cache
    BY <2>2 DEF Route!TypeOK, Route!Dup!TypeOK
  <2>3. CASE cache' = Route!Dup!Touch(cache, h.id)
    BY <2>3, TouchKeepsType DEF Route!TypeOK
  <2> QED BY <2>1, <2>2, <2>3
<1>2. ASSUME NEW v \in {"DROP", "DELIVER_ONLY"}, Route!Answer(h, v)
      PROVE  Route!TypeOK'
  <2>1. result'.verdict = v /\ result'.id = h.id /\ "holdback" \notin DOMAIN result'
    BY <1>2 DEF Route!Answer
  <2> QED BY <1>1, <2>1 DEF Route!TypeOK, Route!Verdicts
<1>3. CASE Route!DeliverAndForward(h, me, signal)
  <2>1. /\ result'.verdict = "DELIVER_AND_FORWARD" /\ result'.id = h.id
        /\ "holdback" \in DOMAIN result'
    BY <1>3 DEF Route!DeliverAndForward
  <2> QED BY <1>1, <2>1 DEF Route!TypeOK, Route!Verdicts
<1> QED BY <1>2, <1>3 DEF Route!Evaluate, Route!DropExpired, Route!DropDuplicate,
                          Route!DeliverOnly

LEMMA VerdictsAreTyped == Spec => []Route!TypeOK
<1>1. Init => Route!TypeOK
  <2>1. Clock \in 0 .. Word - 1
    BY ManagerAssumption, SMT DEF ManagerAssumption
  <2> QED BY <2>1 DEF Init, Route!TypeOK, Route!NoResult, Route!Dup!TypeOK, Route!Dup!Empty,
                      Route!NoCall, Route!Dup!NoCall
<1>2. RxOrder /\ SenderTypes /\ Route!TypeOK /\ [Next]_vars => Route!TypeOK'
  <2> SUFFICES ASSUME RxOrder, SenderTypes, Route!TypeOK, [Next]_vars PROVE Route!TypeOK'
    OBVIOUS
  <2>0. CASE UNCHANGED routeVars
    BY <2>0 DEF routeVars, Route!TypeOK, Route!Dup!TypeOK
  <2>1. CASE RxEvaluate
    <3>1. PICK h : h = Header[evt]
      OBVIOUS
    <3>2. h.id \in Ids
      <4>1. evt \in Frames
        BY <2>1 DEF RxEvaluate, RxOrder
      <4> QED BY <3>1, <4>1 DEF Ids
    <3>3. Route!Evaluate(h, Here, Signal)
      BY <2>1, <3>1 DEF RxEvaluate, Route!Evaluate, Route!DropExpired, Route!DropDuplicate,
             Route!DeliverOnly, Route!DeliverAndForward, Route!Answer, Route!Filter
    <3> QED BY <3>2, <3>3, VerdictIsTyped
  <2>2. ASSUME NEW s \in Senders, SendMark(s) PROVE Route!TypeOK'
    <3>1. sender[s].id \in Ids
      BY <2>2 DEF SendMark, SenderTypes, Calls, Ids
    <3>2. cache' = Route!Dup!Touch(cache, sender[s].id) /\ result' = result
      BY <2>2 DEF SendMark
    <3>3. Route!Dup!TypeOK'
      BY <3>1, <3>2, TouchKeepsType DEF Route!TypeOK
    <3> QED BY <3>2, <3>3 DEF Route!TypeOK
  <2>3. ASSUME NEW s \in Senders, SendNumber(s) \/ SendLink(s) PROVE Route!TypeOK'
    BY <2>0, <2>3 DEF SendNumber, SendLink
  <2>4. CASE Owner
    BY <2>0, <2>4 DEF Owner, StartExchange, StartInstall, StartSpawn, Destroy, StopSignal, Stop,
                      StopNotify, StopJoinRx, StopJoinFwd
  <2>5. CASE Radio \/ FwdThread \/ SetAppRxCallback \/ UNCHANGED vars
    BY <2>0, <2>5 DEF Radio, Unheard, Arrive, FwdThread, FwdTick, FwdExit, SetAppRxCallback, vars
  <2>6. CASE RxThread /\ ~RxEvaluate
    BY <2>0, <2>6 DEF RxThread, RxLoop, RxCheck, RxBlock, RxTimeout, RxEmpty, RxTake,
                      RxTruncated, RxCancel, RxDrop, RxDeliver, RxForward
  <2> QED BY <2>1, <2>2, <2>3, <2>4, <2>5, <2>6 DEF Next, Send
<1> QED BY <1>1, <1>2, RxKeepsOrder, SendersAreTyped, PTL DEF Spec

(* Whatever its threads do to one another, the rx queue keeps to its       *)
(* depth, and filter, relays, numbers and fates to their types             *)
(* (network_manager.cpp:54-179).                                           *)
THEOREM TypeCorrect == Spec => []TypeOK
<1>1. ThreadTypes /\ RxOrder /\ RelayWork /\ SenderTypes /\ Route!TypeOK => TypeOK
  <2> SUFFICES ASSUME ThreadTypes, RxOrder, RelayWork, SenderTypes, Route!TypeOK PROVE TypeOK
    OBVIOUS
  <2>1. Relays!TypeOK
    BY DEF RelayWork
  <2>2. \A s \in Senders : /\ sender[s].pc \in {"ready", "numbered", "marked"}
                           /\ sender[s].pc # "ready" => sender[s].id \in OwnIds
    BY DEF SenderTypes, Calls
  <2>3. Len(sent) <= MaxSends
    <3>1. Len(sent) \in Nat /\ Cardinality(Sending) \in Nat /\ MaxSends \in Nat
      BY ManagerAssumption, FS_Subset, FS_CardinalityType
         DEF ManagerAssumption, Sending, SenderTypes
    <3> QED BY <3>1 DEF SenderTypes
  <2> QED BY <2>1, <2>2, <2>3, Zenon DEF TypeOK, ThreadTypes, RxOrder, SenderTypes
<1> QED BY <1>1, ThreadsAreTyped, RxKeepsOrder, RelaysStayInOrder, SendersAreTyped,
           VerdictsAreTyped, PTL
=============================================================================
