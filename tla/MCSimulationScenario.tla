------------------------ MODULE MCSimulationScenario ------------------------
(* Two nodes, each with a thread of its own, and the driver.  Files are    *)
(* made of the lines of each block, with one of each kind of mistake;      *)
(* integers have 1, 2, 3 and 4 bits where the code has 8 to 64: of the     *)
(* negative ones here, std::stoull takes -1 for 15, too large for cw_min   *)
(* but not for random_seed, and -15 for 1.  Three scenarios run: both      *)
(* nodes, the first with waypoints out of order; the first alone, with two *)
(* waypoints of one second; and one that only a loaded file gives.         *)
EXTENDS SimulationScenario, TLC

CONSTANTS f1, f2

MCUMax == "u8" :> 1 @@ "u16" :> 3 @@ "u32" :> 7 @@ "u64" :> 15
MCSource == f1 :> 1 @@ f2 :> 2
MCDest == f1 :> Broadcast @@ f2 :> Broadcast

LOCAL Field(indent, key, n) ==
    [indent |-> indent, item |-> FALSE, key |-> key, value |-> [int |-> n]]
LOCAL Item(indent, key, n) == [Field(indent, key, n) EXCEPT !.item = TRUE]
LOCAL Header(indent, key) == [Field(indent, key, 0) EXCEPT !.value = Absent]
LOCAL Bare(indent) == [Header(indent, NoKey) EXCEPT !.item = TRUE]

MCLines ==
    {Header(0, "runtime"), Field(2, "start_time_s", 1),
     [Field(2, "per_model", 0) EXCEPT !.value = [word |-> "off"]], Field(2, "cw_min", -1),
     Field(2, "cw_min", -15), Field(2, "random_seed", -1),
     Header(0, "devices"), Item(2, "id", 1), Bare(2), Field(4, "node_id", 2),
     Item(2, "id", 4), Field(4, "lat", -4),
     Header(4, "waypoints"), Item(6, "at_s", 2), Bare(6), Field(8, "at_s", 1),
     Field(6, "lat", 1), Field(3, "lat", 1)}

(* North, south, and east by 60 degrees. *)
MCCosine == 0 :> 10000 @@ 6000 :> 5000 @@ 18000 :> -10000

LOCAL Stop(s, lat, speed, heading) ==
    [SimulationWaypointConfig EXCEPT !.at_s = s, !.lat = lat, !.speed_cm_s = speed,
                                     !.heading_cdeg = heading]
LOCAL Node(id, speed, heading) ==
    [SimulationDeviceConfig EXCEPT !.node_id = id, !.speed_cm_s = speed, !.heading_cdeg = heading]

LOCAL early == Stop(1, 2, 2, 18000)
LOCAL early2 == Stop(1, 3, 3, 0)
LOCAL later == Stop(2, 1, 1, 6000)

MCDevices == {Node(1, 3, 0), Node(2, 1, 6000)}
MCWaypoints == {early, early2, later}
MCNetworkConfigs ==
    {[duplicate_cache_size |-> 4, forwarding_queue_size |-> 2, rx_queue_depth |-> 3]}
MCConfigs ==
    {[EmptyConfig EXCEPT !.devices = <<Node(1, 3, 0), Node(1, 1, 0)>>]}
MCRunnable ==
    {<<1, <<[Node(1, 3, 0) EXCEPT !.waypoints = <<later, early>>], Node(2, 1, 6000)>> >>,
     <<0, <<[Node(1, 3, 0) EXCEPT !.waypoints = <<early, early2>>]>> >>,
     <<1, <<Node(1, 0, 0)>> >>}
=============================================================================
