------------------------- MODULE SimulationScenario -------------------------
(***************************************************************************)
(* SimulationBuilder and SimulationScenario (simulation_builder.cpp): a    *)
(* configuration is loaded or put together, a scenario built from it,      *)
(* started, stepped, stopped and destroyed.  The scenario drives the       *)
(* clock, the nodes' locations and the network (ImmediateNetwork), while   *)
(* the forwarding threads of its managers send on their own.               *)
(*                                                                         *)
(* Everything but the forwarding threads runs in one thread, the driver:   *)
(* phase is where it is.  A manager here is what the scenario does with    *)
(* it; the frames it sends are any (NetworkManager has the rest).          *)
(***************************************************************************)
EXTENDS ImmediateNetwork, ConfigLoader, SimulatedLocationProvider
LOCAL INSTANCE FiniteSetsExt
LOCAL INSTANCE SequencesExt

CONSTANTS
    Lines,           \* lines that scenario files are made of
    MaxLines,        \* bound on the length of a file
    Devices,         \* arguments of addDevice
    Waypoints,       \* arguments of addWaypoint
    Configs,         \* arguments of setConfig
    Carriers,        \* arguments of setCarrierFrequencyMhz
    StartTimes,      \* arguments of setStartTimeSeconds
    NetworkConfigs,  \* arguments of setNetworkConfig
    MaxWaypoints,    \* bound on addWaypoint for one device
    Runnable,        \* bound: start time and devices of the scenarios that run
    Deltas,          \* arguments of step, in milliseconds
    MaxTime,         \* bound on the clock, in milliseconds
    SendUntil        \* bound: nothing is sent after this time

(* The integer types of the structures of simulation_config.h. *)
WaypointConfig ==
    [at_s : Nat, lat : Int, lon : Int, speed_cm_s : Nat, heading_cdeg : Headings]
DeviceConfig ==
    [node_id : NodeIds, lat : Int, lon : Int, speed_cm_s : Nat, heading_cdeg : Headings,
     tx_power_dbm : Int, noise_floor_dbm : Int, sensitivity_dbm : Int,
     waypoints : Seq(WaypointConfig)]

ASSUME ScenarioAssumption ==
    /\ Deltas \subseteq Nat /\ MaxTime \in Nat
    /\ Runnable \subseteq {s \in Nat : 1000 * s <= MaxTime} \X Seq(DeviceConfig)

VARIABLES
    config,          \* the builder's config_
    file, reader,    \* a file being loaded, and the parser
    phase,
    delta_ms,        \* of the running step
    todo,            \* nodes the running loop has not reached
    clock,           \* clock_, in milliseconds
    runtime,         \* nodes_: the runtime of every node there is
    started,         \* started_
    backlog,         \* frames queued when the running step began (a history)
    carried,         \* attempts open when the metrics were reset (a history)
    leg              \* since when, in how many steps, a node moves as it does (a history)

builder == <<config, file, reader>>
scenario == <<delta_ms, todo, clock, runtime, started, backlog, carried, leg>>
vars == <<network, builder, scenario, phase>>

Grammar == INSTANCE ConfigGrammar

EmptyConfig == [runtime |-> SimulationRuntimeConfig, devices |-> <<>>]
Seconds(ms) == ms \div 1000

Init ==
    /\ NetworkInit
    /\ config = EmptyConfig
    /\ file = <<>> /\ reader = Opened
    /\ phase = "configuring"
    /\ delta_ms = 0 /\ todo = {} /\ clock = 0
    /\ runtime = <<>> /\ started = FALSE
    /\ backlog = {} /\ carried = 0 /\ leg = <<>>

-----------------------------------------------------------------------------
(* The builder. *)

Configuring == phase = "configuring" /\ UNCHANGED <<network, scenario>>

(* loadConfigFile, one line at a time; a file that is refused leaves the   *)
(* builder as it was.  (Bound: nothing is read after an error, and files   *)
(* are loaded into a fresh builder.)                                       *)
LoadLine(line) ==
    /\ \/ phase = "loading"
       \/ phase = "configuring" /\ config = EmptyConfig
    /\ Len(file) < MaxLines /\ reader.block # "error"
    /\ file' = Append(file, line)
    /\ reader' = ReadLine(reader, line)
    /\ phase' = "loading"
    /\ UNCHANGED <<network, scenario, config>>

EndLoad ==
    /\ phase = "loading"
    /\ config' \in IF Configured(reader) = {} THEN {config} ELSE Configured(reader)
    /\ file' = <<>> /\ reader' = Opened
    /\ phase' = "configuring"
    /\ UNCHANGED <<network, scenario>>

setCarrierFrequencyMhz(freq_mhz) ==
    /\ Configuring
    /\ config' = [config EXCEPT !.runtime.carrier_freq_mhz = freq_mhz]
    /\ UNCHANGED <<file, reader, phase>>

setStartTimeSeconds(s) ==
    /\ Configuring
    /\ config' = [config EXCEPT !.runtime.start_time_s = s]
    /\ UNCHANGED <<file, reader, phase>>

setNetworkConfig(cfg) ==
    /\ Configuring
    /\ config' = [config EXCEPT !.runtime.duplicate_cache_size = cfg.duplicate_cache_size,
                                !.runtime.forwarding_queue_size = cfg.forwarding_queue_size,
                                !.runtime.rx_queue_depth = cfg.rx_queue_depth]
    /\ UNCHANGED <<file, reader, phase>>

Index(devices, id) == {i \in DOMAIN devices : devices[i].node_id = id}

(* One device per id: the last one added. *)
addDevice(device) ==
    /\ Configuring
    /\ config' = [config EXCEPT !.devices =
           IF Index(@, device.node_id) = {} THEN Append(@, device)
           ELSE ReplaceAt(@, Min(Index(@, device.node_id)), device)]
    /\ UNCHANGED <<file, reader, phase>>

addWaypoint(id, waypoint) ==
    /\ Configuring
    /\ Index(config.devices, id) # {}
    /\ LET i == Min(Index(config.devices, id))
       IN  /\ Len(config.devices[i].waypoints) < MaxWaypoints
           /\ config' = [config EXCEPT !.devices[i].waypoints = Append(@, waypoint)]
    /\ UNCHANGED <<file, reader, phase>>

setConfig(cfg) ==
    /\ Configuring
    /\ config' = cfg
    /\ UNCHANGED <<file, reader, phase>>

(* Mutant of SortedOrders: waypoints stay in the order they were added. *)
SortedOrdersAsAdded(waypoints) == {waypoints}

(* std::sort by at_s: any order of equal ones. *)
SortedOrders(waypoints) ==
    LET n == Len(waypoints)
    IN  {[k \in 1 .. n |-> waypoints[p[k]]] :
            p \in {q \in [1 .. n -> 1 .. n] :
                      /\ \A j, k \in 1 .. n : q[j] = q[k] => j = k
                      /\ \A j, k \in 1 .. n :
                            j < k => waypoints[q[j]].at_s <= waypoints[q[k]].at_s}}

(* The waypoints that applyDueWaypoints comes to. *)
Due(node, now_s) ==
    {i \in node.next_waypoint_idx + 1 .. Len(node.waypoints) :
        \A j \in node.next_waypoint_idx + 1 .. i : node.waypoints[j].at_s <= now_s}

(* Each of them sets the node's kinematics: the last one stays. *)
Steered(node, now_s) ==
    IF Due(node, now_s) = {} THEN node
    ELSE LET next == node.next_waypoint_idx + Cardinality(Due(node, now_s))
             w == node.waypoints[next]
         IN  [node EXCEPT
                !.location = Kinematics(w.lat, w.lon, w.speed_cm_s, w.heading_cdeg, now_s),
                !.next_waypoint_idx = next]

(* The constructor of the scenario: per device a location, a registered    *)
(* link and a manager; a second device of one id makes it throw.  (The     *)
(* builder is not used again, so its configuration is forgotten.)          *)
NodeRuntime(device, waypoints, now_s) ==
    [device |-> device, waypoints |-> waypoints, next_waypoint_idx |-> 0,
     location |-> Kinematics(device.lat, device.lon, device.speed_cm_s,
                             device.heading_cdeg, now_s),
     manager |-> "new"]

ById(devices) ==
    [id \in {devices[i].node_id : i \in DOMAIN devices} |->
        devices[CHOOSE i \in DOMAIN devices : devices[i].node_id = id]]

(* The orders that every device's waypoints may be sorted into. *)
Plans(device) ==
    {p \in [DOMAIN device -> UNION {SortedOrders(device[id].waypoints) : id \in DOMAIN device}] :
        \A id \in DOMAIN device : p[id] \in SortedOrders(device[id].waypoints)}

build ==
    LET device == ById(config.devices)
        ids == DOMAIN device
        now_s == config.runtime.start_time_s
    IN  /\ phase = "configuring" /\ file = <<>>
        /\ config.devices # <<>> /\ Cardinality(ids) = Len(config.devices)
        /\ <<now_s, config.devices>> \in Runnable
        /\ clock' = 1000 * now_s
        /\ now_us' = 1000000 * now_s
        /\ Register(ids)
        /\ \E plan \in Plans(device) :
              runtime' = [id \in ids |->
                             Steered(NodeRuntime(device[id], plan[id], now_s), now_s)]
        /\ leg' = [id \in ids |-> [since |-> 1000 * now_s, steps |-> 0]]
        /\ phase' = "idle" /\ todo' = ids
        /\ config' = EmptyConfig
        /\ UNCHANGED <<thread, event_queue, handler, attempts, outcomes, called, handed,
                       file, reader, delta_ms, started, backlog, carried>>

-----------------------------------------------------------------------------
(* The scenario.  The driver is between two calls: *)
Ready == phase = "idle" /\ Is(Driver, "out")
Ids == DOMAIN runtime

(* sendMessage on a node's manager, by the driver; or what a manager's own *)
(* forwarding thread sends while it runs.                                  *)
SendByDriver(f) ==
    /\ Ready /\ Source[f] \in Ids /\ clock <= SendUntil
    /\ Transmit(Driver, f)
    /\ UNCHANGED <<builder, scenario, phase>>

SendByManager(f) ==
    /\ Source[f] \in Ids /\ clock <= SendUntil
    /\ runtime[Source[f]].manager \in {"running", "stopping"}
    /\ Transmit(Source[f], f)
    /\ UNCHANGED <<builder, scenario, phase>>

Work(t) == Continue(t) /\ UNCHANGED <<builder, scenario, phase>>

(* The driver reaches one of the nodes its loop over nodes_ has left, and  *)
(* after the last one the next phase.                                      *)
Reach(p, n, after) ==
    /\ phase = p /\ n \in todo
    /\ todo' = IF todo = {n} THEN Ids ELSE todo \ {n}
    /\ phase' = IF todo = {n} THEN after ELSE p

(* The attempts that are still under way stay so, without having been      *)
(* counted.  (Bound: in scenarios of one node, while its frame is.)        *)
resetMetrics ==
    /\ Ready /\ Cardinality(Ids) = 1 /\ attempts > outcomes
    /\ attempts' = 0 /\ outcomes' = 0
    /\ carried' = Cardinality(InHand \cup Queued)
    /\ UNCHANGED <<thread, event_queue, now_us, nodes, handler, called, handed, builder, phase,
                   delta_ms, todo, clock, runtime, started, backlog, leg>>

(* start; a manager that was started before returns at once. *)
BeginStart ==
    /\ Ready /\ ~started
    /\ phase' = "starting"
    /\ UNCHANGED <<network, builder, scenario>>

StartManager(n) ==
    /\ Reach("starting", n, "idle")
    /\ IF runtime[n].manager = "new"
       THEN runtime' = [runtime EXCEPT ![n].manager = "running"] /\ SetHandler(n, TRUE)
       ELSE UNCHANGED <<runtime, handler>>
    /\ started' = (todo = {n})
    /\ UNCHANGED <<thread, event_queue, now_us, nodes, attempts, outcomes, called, handed,
                   builder, delta_ms, clock, backlog, carried, leg>>

(* stop, called or as the destructor begins: one manager after the other   *)
(* is told to stop and joined.                                             *)
BeginStop ==
    /\ Ready /\ started
    /\ phase' = "stopping"
    /\ UNCHANGED <<network, builder, scenario>>

Busy == {m \in Ids : runtime[m].manager \in {"stopping", "ending", "freed"}}
AfterStop(p) == IF p = "stopping" THEN "idle" ELSE "destroying"

(* Mutant of TellManager: the thread is woken, running_ stays set. *)
TellManagerNotify(n) ==
    /\ phase \in {"stopping", "closing"} /\ Busy = {}
    /\ n \in todo /\ runtime[n].manager = "running"
    /\ UNCHANGED vars

(* running_ is cleared and the thread woken. *)
TellManager(n) ==
    /\ phase \in {"stopping", "closing"} /\ Busy = {}
    /\ n \in todo /\ runtime[n].manager = "running"
    /\ runtime' = [runtime EXCEPT ![n].manager = "stopping"]
    /\ UNCHANGED <<network, builder, phase, delta_ms, todo, clock, started, backlog, carried, leg>>

JoinManager(n) ==
    /\ Reach(phase, n, AfterStop(phase)) /\ phase \in {"stopping", "closing"}
    /\ Busy \subseteq {n} /\ runtime[n].manager # "running" /\ Is(n, "out")
    /\ runtime' = [runtime EXCEPT ![n].manager = "stopped"]
    /\ started' = (todo # {n})
    /\ UNCHANGED <<network, builder, delta_ms, clock, backlog, carried, leg>>

(* Mutant of BeginDestroy: the destructor does not stop the others first. *)
BeginDestroyAtOnce ==
    /\ Ready
    /\ phase' = "destroying"
    /\ UNCHANGED <<network, builder, scenario>>

(* The destructor: stop, then node by node the manager (its handler taken  *)
(* away, its threads joined, freed), the link and the location.            *)
BeginDestroy ==
    /\ Ready
    /\ phase' = IF started THEN "closing" ELSE "destroying"
    /\ UNCHANGED <<network, builder, scenario>>

DropHandler(n) ==
    /\ phase = "destroying" /\ Busy = {} /\ n \in todo
    /\ SetHandler(n, FALSE)
    /\ runtime' = [runtime EXCEPT ![n].manager = "ending"]
    /\ UNCHANGED <<thread, event_queue, now_us, nodes, attempts, outcomes, called, handed,
                   builder, phase, delta_ms, todo, clock, started, backlog, carried, leg>>

FreeManager(n) ==
    /\ phase = "destroying" /\ n \in todo
    /\ runtime[n].manager = "ending" /\ Is(n, "out")
    /\ runtime' = [runtime EXCEPT ![n].manager = "freed"]
    /\ UNCHANGED <<network, builder, phase, delta_ms, todo, clock, started, backlog, carried, leg>>

(* The link's destructor leaves the network. *)
FreeLink(n) ==
    /\ phase = "destroying" /\ n \in todo
    /\ runtime[n].manager = "freed"
    /\ Unregister(n)
    /\ runtime' = [m \in Ids \ {n} |-> runtime[m]]
    /\ todo' = todo \ {n}
    /\ phase' = IF todo = {n} THEN "gone" ELSE phase
    /\ UNCHANGED <<thread, event_queue, now_us, handler, attempts, outcomes, called, handed,
                   builder, delta_ms, clock, started, backlog, carried, leg>>

-----------------------------------------------------------------------------
(* step: what is due at its beginning is delivered, then the clock moves,  *)
(* the nodes move, and what is due at its end is delivered.                *)

(* Mutant of BeginStep: what is due by the network's time is delivered. *)
BeginStepNetworkTime(d) ==
    /\ Ready /\ clock + d <= MaxTime
    /\ ProcessUntil(now_us)
    /\ phase' = "draining" /\ delta_ms' = d /\ backlog' = Queued
    /\ UNCHANGED <<builder, todo, clock, runtime, started, carried, leg>>

(* setNowUs and processUntil, with the time before the step. *)
BeginStep(d) ==
    /\ Ready /\ clock + d <= MaxTime
    /\ ProcessUntil(1000 * clock)
    /\ phase' = "draining" /\ delta_ms' = d /\ backlog' = Queued
    /\ UNCHANGED <<builder, todo, clock, runtime, started, carried, leg>>

TickClock ==
    /\ phase = "draining" /\ Is(Driver, "out")
    /\ clock' = clock + delta_ms
    /\ phase' = "advancing"
    /\ UNCHANGED <<network, builder, delta_ms, todo, runtime, started, backlog, carried, leg>>

AdvanceNode(n) ==
    /\ Reach("advancing", n, "steering")
    /\ runtime' = [runtime EXCEPT ![n].location = advance(@, delta_ms)]
    /\ leg' = [leg EXCEPT ![n].steps = @ + 1]
    /\ UNCHANGED <<network, builder, delta_ms, clock, started, backlog, carried>>

SteerNode(n) ==
    /\ Reach("steering", n, "arriving")
    /\ runtime' = [runtime EXCEPT ![n] = Steered(@, Seconds(clock))]
    /\ leg' = IF Due(runtime[n], Seconds(clock)) = {} THEN leg
              ELSE [leg EXCEPT ![n] = [since |-> clock, steps |-> 0]]
    /\ UNCHANGED <<network, builder, delta_ms, clock, started, backlog, carried>>

FinishStep ==
    /\ phase = "arriving"
    /\ ProcessUntil(1000 * clock)
    /\ phase' = "finishing"
    /\ UNCHANGED <<builder, scenario>>

EndStep ==
    /\ phase = "finishing" /\ Is(Driver, "out")
    /\ phase' = "idle" /\ delta_ms' = 0 /\ backlog' = {}
    /\ UNCHANGED <<network, builder, todo, clock, runtime, started, carried, leg>>

Configure ==
    \/ \E line \in Lines : LoadLine(line)
    \/ EndLoad
    \/ \E freq_mhz \in Carriers : setCarrierFrequencyMhz(freq_mhz)
    \/ \E s \in StartTimes : setStartTimeSeconds(s)
    \/ \E cfg \in NetworkConfigs : setNetworkConfig(cfg)
    \/ \E d \in Devices : addDevice(d)
    \/ \E id \in NodeIds, w \in Waypoints : addWaypoint(id, w)
    \/ \E cfg \in Configs : setConfig(cfg)
    \/ build

Step == TickClock \/ FinishStep \/ EndStep \/ \E n \in Ids : AdvanceNode(n) \/ SteerNode(n)

Halt == \E n \in Ids : \/ TellManager(n) \/ JoinManager(n)
                       \/ DropHandler(n) \/ FreeManager(n) \/ FreeLink(n)

Gone == phase = "gone" /\ UNCHANGED vars

Next ==
    \/ Configure
    \/ \E f \in Frames : SendByDriver(f) \/ SendByManager(f)
    \/ \E t \in Threads : Work(t)
    \/ resetMetrics
    \/ BeginStart \/ (\E n \in Ids : StartManager(n))
    \/ BeginStop \/ BeginDestroy \/ Halt
    \/ \E d \in Deltas : BeginStep(d)
    \/ Step
    \/ Gone

Spec == Init /\ [][Next]_vars

(* The threads run; the driver goes on with stop or the destructor. *)
FairSpec ==
    /\ Spec
    /\ \A t \in Threads : WF_vars(Work(t))
    /\ WF_vars(Halt)

-----------------------------------------------------------------------------

Phases == {"configuring", "loading", "idle", "starting", "stopping", "closing", "destroying",
           "gone", "draining", "advancing", "steering", "arriving", "finishing"}

(* The network knows the nodes there are, a node's link as long as it      *)
(* lives; threads, clock and waypoint index stay in their ranges.          *)
TypeOK ==
    /\ phase \in Phases
    /\ \A t \in Threads : /\ thread[t].left \subseteq NodeIds
                          /\ thread[t].to \in NodeIds \cup {Driver}
    /\ nodes = Ids /\ handler \subseteq Ids /\ todo \subseteq Ids
    /\ clock \in 0 .. MaxTime
    /\ \A n \in Ids : runtime[n].next_waypoint_idx \in 0 .. Len(runtime[n].waypoints)

(* Between two calls every node's own time is behind the clock by less     *)
(* than a second, however the steps divide the time and however often a    *)
(* waypoint rounds the node's time down (advance, applyDueWaypoints); so   *)
(* the timestamps two nodes put in headers differ by one at most.          *)
NodeClocks ==
    Ready => \A n \in Ids : clock - LocalMs(runtime[n].location) \in 0 .. 999

(* A node moves by the last waypoint that is due, or as it was configured  *)
(* when none is; none is skipped and none applies early.                   *)
WaypointInForce ==
    Ready => \A n \in Ids :
        LET node == runtime[n]
            due == {i \in DOMAIN node.waypoints : node.waypoints[i].at_s <= Seconds(clock)}
            force == IF due = {} THEN node.device ELSE node.waypoints[node.next_waypoint_idx]
        IN  /\ node.next_waypoint_idx = Cardinality(due)
            /\ \A i \in due : due # {} => node.waypoints[i].at_s <= force.at_s
            /\ node.location.lat = force.lat /\ node.location.lon = force.lon
            /\ node.location.speed_cm_s = force.speed_cm_s
            /\ node.location.heading_cdeg = force.heading_cdeg

(* What one step can add to the gap between where a node should be and     *)
(* where it is, to the north and in 1 / (1000 * Scale) cm: the distance    *)
(* along its heading, of cosine c, is truncated to centimetres, and the    *)
(* part of it to the north then rounded to units of latitude.              *)
LeastGap(c) == (IF c < 0 THEN 999 * c ELSE 0) - 500 * LatUnit
MostGap(c) == (IF c > 0 THEN 999 * c ELSE 0) + 500 * LatUnit

(* Units of latitude, in the same measure.                                 *)
North(units) == 1000 * LatUnit * units

(* How far north a node is differs from where its speed takes it by less   *)
(* than a centimetre along its heading, which it is behind, and half a     *)
(* unit of latitude, behind or ahead, for each step it has moved that way: *)
(* the error grows with the steps and not with the time or the speed       *)
(* (advance).                                                              *)
TravelBounded ==
    Ready => \A n \in Ids :
        LET at == runtime[n].location
            c == Cosine[at.heading_cdeg]
            due_north == c * at.speed_cm_s * (clock - leg[n].since)
        IN  due_north - North(at.moved_lat)
              \in leg[n].steps * LeastGap(c) .. leg[n].steps * MostGap(c)

(* No queued event is ahead of the scenario's clock, and what was queued   *)
(* when a step began is taken from the queue before the clock moves, even  *)
(* when a thread that was late in leaving processUntil has set the         *)
(* network's time back, so that the sender of an event found it not due    *)
(* yet (transmit, processUntil, step).                                     *)
NothingLeftBehind ==
    /\ \A i \in DOMAIN event_queue : event_queue[i].time <= 1000 * clock
    /\ phase \in {"advancing", "steering", "arriving", "finishing"} => backlog \cap Queued = {}

(* Whichever thread takes a frame from the queue, it is handed to a node   *)
(* once at most, and never to the node that sent it.                       *)
HandedOnce ==
    \A f \in Frames : \A n \in NodeIds : handed[f][n] <= (IF n = Source[f] THEN 0 ELSE 1)

(* Every attempt counted, or under way when the counters were reset, has   *)
(* been reported as an outcome once, or is in the queue or with one thread *)
(* (onTxAttempt in transmit, onTxOutcome in executeDeliveryEvent).         *)
AttemptsCounted == attempts + carried = outcomes + Cardinality(InHand \cup Queued)

(* deliverFromNetwork calls a copy of the handler without a lock: the      *)
(* manager the copy belongs to, and the link it came from, are still       *)
(* there, because the scenario joins every thread before it frees one.     *)
NoDangling ==
    \A t \in Threads : /\ Held(t) \subseteq Ids
                       /\ Is(t, "calling") => runtime[thread[t].to].manager # "freed"
                       /\ t \in NodeIds /\ ~Is(t, "out") => t \in Ids /\ runtime[t].manager # "freed"

(* A file is loaded as ConfigGrammar reads it, and refused when it has no  *)
(* meaning there, unless it has a negative number that std::stoull wraps   *)
(* into the range of its field: that one is accepted, although             *)
(* config_loader.h promises an error.                                      *)
LoaderMeetsGrammar ==
    phase = "loading" /\ (\A i \in DOMAIN file : ~Grammar!Wraps(file[i])) =>
        LET read == Configured(reader)
        IN  IF Grammar!WellFormed(file) THEN \E c \in read : Grammar!Means(file, c)
            ELSE read = {}

(* "Start all node managers (idempotent)." (simulation_builder.h): after   *)
(* start every manager runs.                                               *)
StartRunsManagers ==
    Ready /\ started => \A n \in Ids : runtime[n].manager = "running"

(* stop and the destructor return: no join waits for ever. *)
HaltReturns == phase \in {"stopping", "closing", "destroying"} ~> phase \in {"idle", "gone"}
=============================================================================
