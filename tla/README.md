# Verification of the LoRa network layer

TLA+ models of the network layer (`src/components/lora_network_layer`) and of the
host simulation under it (`src/simulation`), model-checked with TLC, with all safety
properties but one proved with TLAPS. Paths below are relative to the repository.

The network layer floods a message through a mesh of radio nodes. Each node drops
what it has seen, delivers what it has not, holds a relay back for a time that is
shorter the farther the copy came, and cancels its relay when it hears one from
farther away. The simulation runs many such nodes, with their real threads, over a
virtual channel with a virtual clock.

## 1. Inventory

| component | state | operations | called by |
|---|---|---|---|
| `DuplicateFilter` | `entries_` (id, tick, used), `tick_`, a mutex | `isDuplicate`, `markSeen`, `size` | routing engine (RX thread), `sendMessage` (any thread) |
| geo utilities | none | `haversine_m`, `bearing_deg`, `isInsideCone`, `isBetween` | routing engine, forwarding queue |
| `RoutingEngine` | none of its own | `evaluate`, `computeHoldback` | RX thread |
| `ForwardingQueue` | `slots_`, a mutex; `fire_buf_`, used by one thread without it | `enqueue`, `onDuplicateHeard` (RX thread), `processTick` (forwarding thread) | network manager |
| `NetworkManager` | `rx_queue_`, `started_`, `running_`, `seq_`, the application's callback, two threads | `start`, `stop`, destructor, `sendMessage`, `setAppRxCallback`, the RX handler | the owner, application threads, the link layer |
| network header | packed fields | none | everything above |
| `SimulatedNetwork` | event queue, `now_us_`, nodes, channel occupation, transmissions on the air, delivery states, contention windows | `transmit`, `processUntil`, four event handlers, `registerNode`, `unregisterNode`, `resetMetrics` | node threads (`transmit`), the driver (the rest) |
| `SimulationEventQueue` | a heap | `push`, `popDue` | simulated network |
| `SimulationMetricsCollector` | counters | `onTxAttempt`, `onTxOutcome`, `onTxCollisionFailure`, ... | simulated network |
| `SimulationBuilder` | the configuration | `loadConfigFile`, `addDevice`, `addWaypoint`, other setters, `build` | the driver |
| `ConfigLoader` | none | `loadFromFile`, `parseText` | the builder |
| `SimulationScenario` | nodes with their next waypoint, `started_` | `start`, `stop`, `step`, `resetMetrics`, destructor | the driver |
| `SimulationClock` | milliseconds | `reset`, `step`, `nowMs`, `nowSeconds` | the scenario |
| `SimulatedLinkLayer` | the RX handler, a mutex | `setRxHandler`, `send`, `deliverFromNetwork` | network manager, simulated network |
| `SimulatedLocationProvider` | position, speed, heading, seconds and their rest | `setKinematics`, `advance`, `getLocation`, `getTimestamp` | scenario, routing engine, forwarding queue |
| `LoraLinkAdapter` | the RX handler, one static instance | `setRxHandler`, `send`, the driver's callback | network manager, the radio driver |
| demo program, tests, logging | none that matters here | | |

How they interact. The link layer calls the manager's RX handler, which queues the
frame. The RX thread shows each frame to the forwarding queue (a copy from farther
away cancels a held relay), then to the routing engine (which asks the duplicate
filter), delivers it to the application's callback and queues a relay. The
forwarding thread ticks the queue and sends what is due through the link layer.
Application threads number a message, mark its id in the filter and send it. In the
simulation, `send` becomes `transmit`: an event stamped with the virtual time. In timed
mode the driving thread steps the channel, whose handlers call the RX handlers of the
nodes. In immediate mode, the default, the sending thread processes the events that are
due itself, as other senders and the driver may be doing, and calls those handlers.

What is hard, and what makes each part correct:

* **Duplicate filter.** Every lookup is also a refresh, eviction depends on ticks
  written many calls ago, and the tick is a 32-bit counter. It is correct when it
  recognises an id exactly as long as fewer than `Capacity` others were presented
  since, as a least-recently-used cache does.
* **Routing engine.** The clock is unknown at first, the sum of two 32-bit numbers
  decides about age, and the lifetime is looked at before the filter is. It is
  correct when each message is delivered once, none is lost within its lifetime and
  none comes back after it expired, and when farther nodes never wait longer.
* **Forwarding queue.** The scan copies relays out under the mutex and sends them
  after it, while the other thread queues into the freed slots and cancels; the
  clock is read before the mutex. It is correct when each relay ends in exactly one
  way, none is sent before its time, and room goes to the urgent.
* **Network manager.** Three or more threads, a bounded queue, a notification that
  can be lost, a handler that stays installed after `stop()`, an own message that
  can come back before `sendMessage` has returned. It is correct when messages are
  delivered and relayed once, `stop()` returns and is final, frames and relays do
  not get stuck, and ids identify messages.
* **Simulated channel, timed.** Node threads stamp and push events while the driver
  advances; a collision is discovered by the second frame, after the first one's
  receptions were scheduled; attempts are settled by the last reception. It is
  correct when overlapping frames silence each other (or never overlap, with carrier
  sense), every attempt is settled once, and time goes forward.
* **Simulated channel, immediate.** Several threads run one loop over one queue and one
  clock, without a common lock. It is correct when each frame is handed to each receiver
  once at most, every attempt is settled once, and nothing is left in the queue for good.
* **Scenario.** Waypoints out of order, at one second or before the start; steps that are
  no multiple of a second; managers stopped and freed one after the other while the rest
  still sends. It is correct when nodes move by the waypoint that is due, their clocks
  agree with the scenario's, and no thread uses what was freed.
* **Configuration.** Four nested loops share an index and leave it at an indentation
  each. It is correct when it accepts the files its grammar describes, with their meaning.
* **Mesh.** Relays are cancelled by relays, at several nodes, in an order that depends on
  hold-back times and the channel. It is correct when a message gets everywhere its hops
  take it, once to each application, and the flood ends.

`PROJECT.json` lists the hazards line by line with the properties that watch them.

## 2. Modules

```
LruCache <--refines-- DuplicateFilter <-- FilterWindow <-- MCDuplicateFilter
                                          FilterWindow <-- DuplicateFilterProofs
Geo, Holdback <-- RoutingEngine (over LruCache) <-- RoutingHistory <-- MCRoutingEngine
                                                     RoutingHistory <-- RoutingProofs
Geo <-- HoldbackPool <--refines-- ForwardingQueue <-- MCForwardingQueue
                                  ForwardingQueue <-- ForwardingQueueProofs
RoutingEngine, ForwardingQueue <-- NetworkManager <-- MCNetworkManager
                                   NetworkManager <-- NetworkManagerProofs
Geo, LruCache, RoutingEngine <-- Mesh <-- MCMesh
                                 Mesh <-- MeshProofs
SimulationEventQueue <-- SimulatedNetwork <-- MCSimulatedNetwork
SimulationEventQueue <-- EventQueueProofs
SimulatedNetwork, EventQueueProofs <-- ChannelProofs
SimulationEventQueue <-- ImmediateNetwork
ConfigLoader <-- ConfigGrammar
ImmediateNetwork, ConfigLoader, ConfigGrammar, SimulatedLocationProvider
                      <-- SimulationScenario <-- MCSimulationScenario
SimulationScenario, EventQueueProofs <-- ScenarioProofs
```

**DuplicateFilter** models the array and the tick. `isDuplicate` and `markSeen` hold
the mutex throughout, so each is one action. `FindOldest` keeps the running minimum
that starts at `UINT32_MAX`, `NextTick` wraps at `TickMod`. **LruCache** is what it
promises: a bounded set of ids and the order in which they were last presented. The
refinement mapping reads that order off the ticks. **FilterWindow** adds the history
of presentations.

**Geo** has the decisions of `geo_utils.cpp` on integer points of a plane: distances
and angles are compared through their exact squares and products.
**Holdback** is `computeHoldback` with the default configuration of `Kconfig`, exact
over integer metres, dBm and dB. **RoutingEngine** has one action per early return of
`evaluate`, in its order, over an abstract LRU cache. **RoutingHistory** adds what was
delivered, what came too old, what was dropped young, and the last reception.

**ForwardingQueue** splits `processTick` where the mutex leaves it open: the clock is
read (`ReadClock`), the due relays are moved to the fire buffer in one critical
section (`Scan`), and sent one by one (`FireEntry`). `enqueue` and `onDuplicateHeard`
are one critical section each. A relay is a token for one call of `enqueue`, and
`fate` is a history of what became of it. That the capacity does not exceed `kMaxSlots`,
which the constructor asserts, is an assumption (`SlotsAssumption`). **HoldbackPool** is the abstract pool,
without slots, scan or buffer.

**NetworkManager** instantiates the routing engine and the forwarding queue and adds
the threads. `start` is three actions (the exchange of `started_`, the handler, the
threads), `stop` four (flag, notification, two joins). The RX thread's wait is
modelled with its gap: `RxCheck` finds nothing to do, `RxBlock` goes to sleep, and a
`StopNotify` between the two is lost, since `stop()` notifies without the mutex; the
handler, which takes the mutex, cannot come between. `RxTimeout` is the 100 ms.
`sendMessage` is three actions, in the order of the code: number, mark, send. (The TX
paragraph of `src/docs/architecture.md` gives the last two the other way round.)

**SimulatedNetwork** has `transmit` in its two steps and one action per outcome of
each event handler. The heap is a sequence in the order
events leave: **SimulationEventQueue** puts an event behind those it does not precede, and
several at once by their rank among all (by the comparison, then by who was pushed first). Each
event runs as one step: nobody else reads what the handlers write under `mutex_`.
Distance, fading, packet error rate and congestion are reduced to the outcomes a
reception can have, each possible. The collector's counters are part of the state.

**Mesh** composes what the other modules say of one node into several: a bag of frames
per node, its filter as `LruCache`, its verdicts as `RoutingEngine!OutOfScope`, its pool
of relays as a set. `Receive` is one pass of `rxTaskLoop`, `Relay` one relay sent, at any
time it is in the pool, since hold-backs of different nodes are not comparable; a frame
may be lost. The threads inside a node, whose interleaving `NetworkManager` has, are one.

**ImmediateNetwork** is the same class as `SimulatedNetwork`, in immediate mode, with the
links of the nodes. `thread[t]` says where each thread is in `transmit` or `processUntil`,
which are cut where other threads can come between: after the stamp, after the push, after
each event popped, after the snapshot of the receivers, between a link's copying of its
handler and the call, and before the last store of the clock.

**SimulatedLocationProvider** is the arithmetic of `advance` and `setKinematics` as
operators on a record: the distance of a step truncated to centimetres, its part to the
north, and the latitude rounded to 1e-7 degree. The cosine of each heading and the length
of a unit of latitude are constants. **ConfigLoader** is the parser as one pass over lines: the block the
code's nested loops are in is the mode, and `Closed` says which loops a line leaves. The
keys of each block are a function to the conversion the code applies, and the conversions
answer with a set, empty for an error. **ConfigGrammar** is what the parser should accept
and mean, said without it: which line belongs to which block is a matter of the nearest
header above it.

**SimulationScenario** puts these together: the builder with its setters and the file it
loads, and the scenario with one action per node of each of its loops. `phase` is where the
driver is. The managers' forwarding threads send at any time while they run. The manager
itself is reduced to what the scenario does with it (`new`, `running`, `stopping`,
`stopped`, `ending`, `freed`).

## 3. Runs

| run | checks | bounds |
|---|---|---|
| `filter` | `TicksDistinct`, `RecognisedInWindow`, refinement `ImplementsLru` | 3 entries, 4 ids, 8 calls: every order in which entries fill, are refreshed, evicted and presented again |
| `queue` | `Ledger`, `NeverEarly`, `FatesFinal`, `UrgentKept`, liveness `EveryRelaySettles`, refinement `ImplementsPool` | 2 slots, 4 relays of 2 messages with 3 priorities and one tie, hold-backs of 0 and 2, clock up to 2 |
| `routing` | `FreshNeverLost`, `NoResurrection`, `FarFirst`, `WithinMultipliedBounds` | 5 headers of 4 messages, 2 places, 2 signals beyond the clamps, a 4-bit clock that is set once to any value |
| `manager_traffic` | `HandledOnce`, `OvertakenNotHeld`, `FramesAccounted`, `NumbersUsedUp`, `QuietAfterStop` | two copies of a message, one echo of an own one, two senders whose sends may fail, a queue of 2, one relay slot |
| `manager_live` | `StopReturns`, `FramesProcessed`, `RelaysSettle` | two copies and a truncated frame, a queue of 1 |
| `channel_collisions` | `OverlapSilences`, `AttemptsAccounted`, `SuccessMeansHeard` | 3 nodes, 2 broadcasts and a unicast of different lengths, two delays, two retries |
| `scenario` | `NodeClocks`, `WaypointInForce`, `TravelBounded`, `NothingLeftBehind`, `HandedOnce`, `AttemptsCounted`, `NoDangling`, `LoaderMeetsGrammar`, liveness `HaltReturns` | 2 nodes with their threads and the driver, 2 frames, steps of 800 and 1500 ms up to 2600 ms, headings north, south and between, 2 waypoints a device; files of up to 6 lines out of 18 |
| `mesh` | `HandledOnce`, `HopsSpent`, liveness `FloodEnds`, `EveryoneReached` | 3 or 4 nodes on a line, 1 or 2 messages, lossy or not, filters for all messages or for one, 1 or 2 relay slots |
| `channel_carrier` | `ChannelExclusive`, `AttemptsAccounted`, liveness `EveryAttemptSettles` | 2 nodes of which one comes and goes, 3 frames, one retry, one reset |

`HandledOnce` says that each message is delivered once at most and relayed once at most.
Each module also states the types of its variables as `TypeOK`; no run spends a property on
it, since it is proved for every component (`TypeCorrect` in each module of proofs).
The same goes for the filter's `UniqueIds` (`IdsUnique`).
`OverlapSilences`, `ChannelExclusive`, `AttemptsAccounted` and `SuccessMeansHeard` speak of
the time before the first `resetMetrics`, which forgets frames on the air (see below).

Why these bounds are enough: in each model what can go wrong needs at most one entity
more than there is room for (an eviction, a refusal, an overflow, a busy channel), and
one pair of actors that interleave; every run has that many, and each property is
violated in its run by a plausible error in the code (the operators whose comments
call them mutants, listed in `PROJECT.json`). Counters that grow without bound in the
code are cut by guards that say so: `MaxTime`, `MaxSends`, `SendUntil`, `MaxResets`,
`MaxDeliveries`, the last value of `Horizons`, and the stop before the tick wraps (`BeforeWrap`).

What the bounds of the two composed runs mean. In `scenario` the builder reaches every
configuration of two devices, each with up to two waypoints out of three in any order, but
only the three of `Runnable` are built: one with waypoints out of order, one with two
waypoints of one second that start late, one that only a file gives. A frame is sent up to
`SendUntil`, so that the steps after it meet frames under way and later ones do not; the
metrics are reset where one node is alone. Two frames and three threads suffice for a
frame to be delivered by a thread that did not send it, and for the network's time to be set
back between the push of an event and the look of the thread that pushed it, which is what
`NothingLeftBehind` is about. `Cosine` and `LatUnit` are the cosines of 0, 60 and 180 degrees
and 1.1119 cm, in ten-thousandths, so the steps of the run are rounded as the code rounds them.
The integers of a file have 1, 2, 3 and 4 bits where the code has 8, 16, 32 and 64, which
keeps every conversion's boundary within reach; the 18 lines have each kind of section,
item and field, one of each kind of mistake, and negative numbers that wrap into the range
of their field and out of it; 6 of them make a device with a waypoint, or two devices. In
`mesh` the nodes are close enough for a node to hear two others and for relays to be
cancelled, and one has a single neighbour, whose relay must not be.

Three runs show where the code departs from what the repository says of it. Each
checks one property, which TLC violates:

* `manager_wrap`: `seq_` has 8 bits, so the 257th message of a node has the id of the
  first.
* `channel_clock`: `transmit` reads the time and pushes its event in two steps; when
  the driver passes in between, the event runs late and sets the clock back, against
  "virtual time advances only through explicit `step` calls".
  `OverlapSilences` and `ChannelExclusive` hold all the same.
* `scenario_restart`: `NetworkManager::stop` does not reset `started_`, so a scenario that
  is started again after `stop` has no thread running, though it takes itself for started.

Others met on the way, which the models contain and no run is spent on:

* `Kconfig` calls `NET_HOLDBACK_MIN_MS` and `NET_HOLDBACK_MAX_MS` bounds of the timer; the
  priority multiplies it after they were applied (`routing_engine.cpp:131`), so it ranges
  from 12 to 750 ms with the defaults. `WithinMultipliedBounds` is what holds.
* `routing_engine.h:23` puts the duplicate check first; the lifetime comes first
  (`routing_engine.cpp:51`), so an expired header is not remembered. `NoResurrection`
  shows that this does no harm while the clock is kept.
* `SimulatedNetwork::resetMetrics` clears the channel's state with the counters
  (`simulated_network.cpp:199`): in timed mode frames on their way reach nobody and are in
  no outcome counter. In immediate mode frames under way settle after the reset, so there may
  be more outcomes than attempts (`AttemptsCounted` keeps those carried over apart).
* `config_loader.h:18` promises an error for a value out of range. `std::stoull` takes a
  negative number modulo 2^64 (`config_loader.cpp:110`), and the range is checked afterwards.
  So `random_seed: -1` is accepted, as is every negative number for a 64-bit field, and a
  number near -(2^64 - 1) for a narrower one. The loader's model wraps as well and
  `ConfigGrammar` does not; `LoaderMeetsGrammar` is therefore about files without a number that
  wraps into the range of its field (`ConfigGrammar!Wraps`). The lines of the run have both
  kinds, and without this precondition TLC refutes it.
* `simulation_architecture.md:73` lists three things a step does; the code also processes
  the network before and after them (`simulation_builder.cpp:128` and `:143`), which is
  what `NothingLeftBehind` rests on.
* In immediate mode `transmit` may return before its frame was delivered: another thread
  may hold it, or have set the network's time back below the frame's, until the next step.

`CHECK_DEADLOCK FALSE` is set where the system may stop: the filter at its last tick,
a manager that is destroyed with all its frames handled, and a mesh that is quiet. A
scenario that is destroyed stays so (`Gone`).

## 4. Fairness

* `ForwardingQueue!FairSpec`: the forwarding thread loops every 10 ms and the clock
  advances. Nothing is assumed of the RX thread.
* `NetworkManager!FairSpec`: the operating system runs both threads, `wait_for` ends
  after its timeout, and the owner, once inside `start()` or `stop()`, goes on.
  Nothing makes frames arrive, messages be sent, or `stop()` be called.
* `SimulatedNetwork!FairSpec`: a `transmit` that began ends, `processUntil` runs to
  its end, and the driver steps on as long as there is a later horizon (strong, since
  other calls of the driver come between steps).
* `SimulationScenario!FairSpec`: the operating system runs the threads inside the network,
  and the driver goes on with the `stop` or destructor it is in. Nothing makes it call one. `HaltReturns` holds though the threads that are joined may be in the middle of
  delivering to each other.
* `Mesh!FairSpec`: each node goes on processing its frames and sending its relays (both
  loops of the manager are timed). Which of them comes first is not assumed, and a lossy
  channel need not lose.

## 5. Proofs

Each theorem holds for every value of the constants that the named assumptions allow, so
for any number of nodes, frames, slots and threads, and for any value of the bounds that
the runs set (`MaxTime`, `SendUntil`, `Horizons`, `MaxDeliveries`, `MaxSends`).
Hypotheses a theorem needs beyond the assumptions are in its statement.

`DuplicateFilterProofs`, for every set of ids, capacity and tick width
(`FilterAssumption`: ids are naturals, there is at least one entry, and the tick takes at
least two values):

* `TypeCorrect`: `Spec => []TypeOK`, wraps included. It rests on `FindOldestIsSlot`
  and `PlaceIsSlot`: whatever the ticks say, `findOldest` answers with a slot of the
  array and the entry written is one of them. The least element that `First` stands
  for exists because `<` is well founded on the naturals.
* `IdsUnique`: `Spec => []UniqueIds`, after any number of wraps. `TypeOK /\ UniqueIds`
  is inductive: the entry written is the one that held the id, if any did.
* `TicksStayDistinct`: `SpecBeforeWrap => [](TypeOK /\ TicksDistinct)`. That no entry is
  ahead of `tick_` is the strengthening that makes it inductive, and `BeforeWrap` gives
  `tick' = tick + 1`.
* `FilterIsLru`: `SpecBeforeWrap => ImplementsLru`, the refinement step by step. With
  distinct ticks `findOldest` answers with the entry the cache calls oldest, so both
  forget the same id; without an entry to forget, a vacant slot corresponds to room.
* `WindowIsKept`: `WindowSpec => []RecognisedInWindow`. The inductive invariant `Window`
  says what was presented since an id that is remembered (the ids with later ticks) and
  since one that was forgotten (at least all that are remembered, and the array is full).

`ForwardingQueueProofs`, for any calls of `enqueue` with the two threads interleaved as the
mutex allows (`QueueAssumption`: a header has a byte of priority and an origin in the plane,
and the capacity, the hold-backs and the bound on the clock are naturals; there may be no
slot at all):

* `TypeCorrect`: `Spec => []TypeOK`, inductive as it stands.
* `RelaysAreNeverEarly`: `Spec => []NeverEarly`. What the scan copies out is due at
  `tickNow`, which does not pass `now`; with `TypeOK` it is inductive, although
  `enqueue` may refill the freed slots before the buffer is empty.
* `RelaysAreNeitherLostNorDoubled`: `Spec => []Ledger`. `TypeOK /\ Ledger` is inductive.
  The two ways to change the pool are lemmas: `VacatingSettles` for a set of slots that
  becomes vacant (`onDuplicateHeard`, `Scan`), `FillingKeepsLedger` for one that is
  written (`enqueue`, in a vacant slot or the victim's). `WorstIsActive` says that a full
  pool has a victim: priorities are bytes, so one of the active slots is least urgent.
* `FatesAreFinal`: `Spec => FatesFinal`. By `Ledger` whatever is in a slot or in the buffer
  has no final fate yet, so no step that settles it overwrites one.
* `UrgentAreKept`: `Spec => UrgentKept`. By `Ledger` the jobs held are as many as the
  active slots, so a pool without a vacant slot holds `Capacity` of them, and the victim is
  no more urgent than any.
* `QueueIsPool`: `Spec => ImplementsPool`. `enqueue` maps to accepting, replacing or
  refusing, the scan to relays that leave together, `FireEntry` to a transmission, the rest
  to stutters; `NeverEarly` is what makes the leaving legal in the abstract pool.

`RoutingProofs`, first for all integer distances and signals and every priority byte:
`FartherNeverWaitsLonger` and `HoldbackIsBounded`. Clamping, weighting,
multiplying by the priority and dividing each keep the order, and each is a lemma. They
speak of the default configuration and assume nothing. Then, for any headers, places,
signals, capacity and width of the seconds (`RoutingAssumption`: the types of the headers'
fields, places in the plane, integer signals):

* `TypeCorrect`: `HistorySpec => []TypeOK`. A hold-back comes with the verdict to forward and
  with no other; the filter orders what it remembers (`TouchKeepsType`).
* `FarthestRelaysFirst` (`FarFirst`) and `WaitsAreBounded` (`WithinMultipliedBounds`), as
  invariants of the engine: `HoldbackIsHeard` ties the last verdict to the last reception,
  and the two theorems above do the rest. `Metres` exists for any two points
  (`MetresIsNatural`) because every natural has an integer square root.
* `FreshAreNeverLost`: `SecondsFit => (HistorySpec => []FreshNeverLost)`. What the filter
  remembers was delivered (`RememberedWasDelivered`). `SecondsFit` says that timestamp and
  lifetime add up within 32 bits; without it a fresh message is taken for expired, which is
  the overflow of `routing_engine.cpp:52`.
* `TheExpiredStayDropped`: `CopiesAgree => (HistorySpec => NoResurrection)`. The clock does
  not go back, so every copy of a message dropped for its age is as old (`ExpiredAreOld`).
  `CopiesAgree` says that copies have one timestamp and one lifetime, which `fireEntry` does
  not touch. An overflow does no harm here.

`NetworkManagerProofs`, for any frames, senders, depth of `rx_queue_` and relay slots, all
interleavings of the threads, `stop()` and destruction at any moment (`ManagerAssumption`: sizes are naturals, priorities
bytes, ids have 16 bits of sequence number or fewer, the clock shows a number of seconds in
its word, and finitely many threads send):

* `TypeCorrect`: `Spec => []TypeOK`, of the manager, the routing engine and the pool inside it.
  `SendersAreTyped` has what each sending thread has in hand; `VerdictsAreTyped` passes
  the engine's answer on to the RX thread.
* `StoppedIsQuiet`: `Spec => QuietAfterStop`. `OwnerOrder` relates where the owner is in
  `start` and `stop` to which threads can run: by the time `stop()` returns both are joined.
* `FramesAreAccounted`: `Spec => []FramesAccounted`. `RxOrder` says that the RX thread has a
  frame exactly between taking it and the end of its pass.
* `HandledAtMostOnce`: `RoomForIds => (Spec => []HandledOnce)`. Three invariants, each on
  top of the one before. `RelayWork`: what is in the slots or the fire buffer was accepted
  by `enqueue`, and what is held is in a slot. `OwnMarked`: an own message is in the filter
  from before it is sent, so an echo of it meets its mark. `Handled`: what was delivered or
  accepted is in the filter and not this node's own, and what the RX thread is about to pass
  on was passed on by nobody, which is what holds while it is between the filter and the
  callback, and between the callback and the queue. `RoomForIds` (the filter has room for the
  ids of the frames that can arrive and of the messages this node sends) is needed: a
  forgotten id is delivered again. With the default of 64 entries it says what holds for any
  64 messages; that the own ones among them use no more numbers than there were calls is
  counted in `OwnMarked`.
* `NumbersAreUsedUp`: `Spec => []NumbersUsedUp`. `Numbering` says that until the numbers wrap
  `seq_` is how many calls have begun, each of which, over or under way, failed or not, has an
  id of a smaller number of its own.
* `OvertakenAreCancelled`: `RoomForIds /\ CopiesAgree => (Spec => []OvertakenNotHeld)`.
  `Shown`: from the moment the queue is shown a frame it holds no relay that this frame
  overtakes, and a frame that brings a relay is the first of its message to be processed.

`EventQueueProofs` has lemmas about the queue of events: what is pushed joins it and nothing
else does, whatever is pushed leaves it in order, the head is the first of all, and its rank
gives each event one place. `ChannelProofs` uses them for the timed channel, for any nodes,
frames, airtimes, delays, contention windows and horizons (`NetworkAssumption`: finitely many
nodes, sources among them, airtimes not zero, times natural), with frames stamped and
submitted at any moment and nodes that come and go:

* `ChannelTyped`: `Spec => []Typed`, in parts, one per group of variables. `TypeCorrect`
  adds the limits of `TypeOK` (`Bounds`): a backoff is pushed only with retries left, a window
  that doubles is cut off, and a state that has counted down to zero is dropped in that step.
* `SentOnce`: `Spec => []Life`. A frame waits in one event at most, and only before it
  was on the air; each receiver has one reception of it queued at most, and has not heard
  it yet. Everything below rests on it.
* `OneOnTheAir`: `Spec => []ChannelExclusive`. `Clear` adds that the channel counts as busy
  for as long as any frame is on the air.
* `CollisionsAreLost`: `Spec => []OverlapSilences`. The hard one, since a frame can be
  submitted behind the clock and a collision is found by the second frame. `OnAir` says that
  the queue is in order, that a frame among the active transmissions still has its end in
  the queue (so that the head cannot be later than it, and nobody has heard it), and that
  of two frames that overlap both are marked or already without a state (`Lost`).
* `AttemptsAreAccounted` and `SuccessIsHeard`: `Accounted` counts outstanding frames and
  settled ones that somebody heard, and ties `any_delivered` to the receptions; each handler
  moves one frame at most from one set to the other, as the collector's counters do.

The last four say what holds until `resetMetrics` is called, as the properties do.

`MeshProofs`, for any nodes, ranges, headers, relay slots and channel
(`MeshAssumption`: finitely many messages, sent by nodes, with a natural number of hops, and
a natural number of relay slots):

* `TypeCorrect`: `Spec => []TypeOK`. `Bounds` says that filters and pools keep to their room;
  a frame sent or received adds a copy to a bag or takes one out.

* `FloodComesOnce`: `Spec => []HandledOnce`. `Known` says that, while the filters have room,
  what a node holds, delivered or relayed is in its filter and not its own, that a message
  it still holds was not relayed by it, and that whatever travels was sent, hence known
  to its sender.
* `HopsAreSpent`: `Spec => []HopsSpent`, with filters of any size. `Spent` says it of
  relays that are held as well, and that these have a hop left.

`ScenarioProofs`, for any nodes and frames, devices and waypoints, lengths of steps and
number of threads inside the network at once, with `start`, `stop` and destruction wherever
the driver may call them (`ImmediateAssumption`: frames go from nodes to nodes
or to all, the driver is no node and `NoFrame` no frame; `ScenarioAssumption`: steps and start times are
natural, and devices are of the types of `simulation_config.h`, whose waypoints may come in
any order; `LocationAssumption`: each heading has a cosine, and a unit of latitude a length
that is not zero). `ScenarioInvariant` is `Spec => []ScenarioInv`, an invariant in layers, each
inductive on top of those before it:

* `Typed` and `Threaded`: the types, in groups, and what a thread has in hand at each point
  of `transmit` and `processUntil`. One lemma for each operation says what it does to its
  thread, and leaves the others alone; all that follows cites these.
* `Whereabouts`: a frame is with one thread or in the queue, once. This is what the lack of
  a common lock puts at risk, and what makes the two theorems that count hold.
* `Unserved`: the receivers a thread still has before it have not been handed its frame. So
  `FramesAreHandedOnce` (`HandedOnce`).
* `AttemptsAreCounted` (`AttemptsCounted`): what is under way is a finite set that `transmit`
  adds one frame to and a reported outcome takes one from, as the two counters say.
* `Life`: a node's thread is in the network only while its manager runs or is told to stop,
  and the driver's only while it sends or steps; so when `stop` has joined them all and the
  driver goes on to free links and managers, nobody is in the network, and whatever receiver
  a thread has in hand is a node that still exists. So `NothingDangles` (`NoDangling`).
* `Timely` and `Drained`: no stamp and no horizon is ahead of the scenario's clock, even when
  threads set the network's back; so the driver, whose horizon is the present, finds the
  queue empty of the backlog before it leaves. So `StepsDrain` (`NothingLeftBehind`).
* `Clocks`, `Travels` and `Courses`: the loops over the nodes reach one after the other, so
  each node is where it should be at the time the loop has brought it to (`Moved_to`,
  `Steered_to`). `advance` carries the remainder of its seconds, and adds to the
  gap between where the node should be and where it is what one truncation (`Truncation`) and
  one rounding to the nearest unit (`Rounding`) can cost (`OneStep`, `AdvanceEffect`); gaps add
  up over the steps of a leg (`MoreGap`). The waypoints that are due are an interval from the next one
  on, as the order is sorted (`DueEffect`, by `WithoutGap`). So `NodesKeepTime` (`NodeClocks`),
  `TravelErrorIsBounded` (`TravelBounded`) and `WaypointsAreFollowed` (`WaypointInForce`).
* `TypeCorrect`: `Spec => []TypeOK`, that the network, the links and the scenario agree on
  the nodes there are.

What `sort` and the loader answer is used only as far as the invariant needs it: any order
of the waypoints that is sorted will do, and a configuration is one of `Runnable`.

Only model-checked: the loader against its grammar (`LoaderMeetsGrammar`: both go over a
file of any length, and that they agree is an induction over its lines), and all liveness;
both are out of the prover's reach, as are the contents of recursive definitions. The proved
modules have none.

## 6. Limits

* Geometry is planar and exact; trigonometry, the sphere and float rounding are left
  out. Hold-backs are taken for the default configuration.
* Headers are records of the fields that decide something; packing and byte order are
  not modelled, nor are payload bytes and the header fields `fireEntry` rewrites.
* The filter's promise ends when its tick has wrapped, after 2^32 lookups; afterwards
  a wrong entry can be evicted. Epoch seconds overflow `uint32_t` in 2106; the `routing`
  run stays below.
* In the composed node the queue's clock stands still and every hold-back is 0: a relay
  may be sent as soon or as late as the forwarding thread comes round to it, which
  includes every order a clock allows. The callback and the link's `send` are single steps.
* Latency and utilisation figures of the channel, and the real time relation between node
  threads and virtual time are not modelled. In immediate mode any receiver may be out of
  reach.
* Of a node's position only the latitude moves: the way east is left out, since the length of
  a unit of longitude changes with the latitude. So is what doubles round off in `advance`,
  which is far below the unit of 1e-7 degree, and the width of `lat`, which a node leaves only
  far beyond a pole. `TravelBounded` speaks of the way north: a step
  can be off by a centimetre's part to the north, which truncation loses, and by half a unit
  (0.56 cm) either way, which rounding gives or takes. So a node at 1 cm/s that is moved
  second by second runs ahead, and one with a step of 5.9 cm falls 1.45 cm behind.
* A manager that a caller starts itself, through `SimulationScenario::manager`, rather than
  with `SimulationScenario::start`, is not modelled: the scenario does not know that it runs,
  and `stop()` passes over it. `NoDangling` and `HaltReturns` are about the managers that
  `start` started.
* Lines of a file are records: splitting them, comments and blank lines are left out, and so
  are the characters of a number; a float is a number read without an error.
* Within `Mesh` no frame expires, and a node works a frame off in one step. The scenario's
  driver calls `resetMetrics` where `Ready` says, and its getters are left out.

### Not modelled

* `LoraLinkAdapter` binds the network layer to an ESP32 driver in an external component
  that is not in the repository. What is hard about it is when the driver's receive task
  reads the handler, which cannot be told from the adapter alone.
* Logging, the demo program and the tests: input, output and scaffolding around what is
  modelled.

## 7. What could come next

Proofs: that a transmission's state counts exactly the receptions still queued for it, which
needs the queue's receptions counted, and that no reception comes too late for it before a reset.

Models: the remaining counters of `SimulationMetricsCollector`, and a scenario whose nodes
are the managers of `NetworkManager` instead of senders of any frames.
