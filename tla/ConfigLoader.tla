---------------------------- MODULE ConfigLoader ----------------------------
(***************************************************************************)
(* ConfigLoader::parseText (config_loader.cpp): the block parser behind    *)
(* SimulationBuilder::loadConfigFile.                                      *)
(*                                                                         *)
(* A file is the sequence of lines that preprocess keeps (comments and     *)
(* blank lines are gone), each with its indentation and the parts the      *)
(* parser looks at:                                                        *)
(*                                                                         *)
(*   item    the text starts with "-"; key and value are those of the rest *)
(*   key     the text before the colon; NoKey after a bare "-"             *)
(*   value   the text after it: Absent, [int |-> n] or [word |-> w]        *)
(*                                                                         *)
(* The parser's functions call each other with an index into the lines;    *)
(* here the block they are in is the mode of a pass over the lines, and a  *)
(* function returns when a line is indented too little for its block.  Any *)
(* error ends the parse; the message is left out.                          *)
(***************************************************************************)
EXTENDS Integers, Sequences, FiniteSets
LOCAL INSTANCE SequencesExt
LOCAL INSTANCE TLC

CONSTANTS
    UMax    \* the largest value of each unsigned type: 2^8 - 1, 2^16 - 1, ...

ASSUME LoaderAssumption == UMax \in [{"u8", "u16", "u32", "u64"} -> Nat]

NoKey == "no key"
Absent == [none |-> TRUE]
IsInt(v) == DOMAIN v = {"int"}
IsWord(v) == DOMAIN v = {"word"}

(***************************************************************************)
(* The structures of simulation_config.h, with their default values.  A    *)
(* device whose id is NoId has not been named (has_node_id).               *)
(***************************************************************************)
NoId == -1

SimulationRuntimeConfig ==
    [carrier_freq_mhz |-> 868, start_time_s |-> 0, random_seed |-> 1,
     compatibility_immediate_delivery |-> TRUE, data_rate_bps |-> 50000,
     slot_time_us |-> 1000, difs_us |-> 0, cw_min |-> 3, cw_max |-> 1023,
     max_retries |-> 4, fading_stddev_db |-> 0, noise_jitter_db |-> 0,
     per_model |-> "Disabled", snr_threshold_db |-> -200, per_logistic_k |-> 1,
     per_logistic_mid_db |-> 0, propagation_min_delay_us |-> 0,
     enable_collision_model |-> FALSE, enable_congestion_drops |-> FALSE,
     congestion_utilization_threshold_pct |-> 95, congestion_drop_probability |-> 0,
     congestion_min_elapsed_us |-> 1000, duplicate_cache_size |-> 64,
     forwarding_queue_size |-> 8, rx_queue_depth |-> 16]

SimulationWaypointConfig ==
    [at_s |-> 0, lat |-> 0, lon |-> 0, speed_cm_s |-> 0, heading_cdeg |-> 0]

SimulationDeviceConfig ==
    [node_id |-> NoId, lat |-> 0, lon |-> 0, speed_cm_s |-> 0, heading_cdeg |-> 0,
     tx_power_dbm |-> 14, noise_floor_dbm |-> -110, sensitivity_dbm |-> -120,
     waypoints |-> <<>>]

(* The keys setRuntimeField, setDeviceField and setWaypointField know, and *)
(* the conversion each applies.                                            *)
RuntimeFields ==
    [k \in {"random_seed", "duplicate_cache_size", "forwarding_queue_size",
            "rx_queue_depth"} |-> "u64"]
    @@ [k \in {"start_time_s", "data_rate_bps", "slot_time_us", "difs_us",
               "propagation_min_delay_us", "congestion_min_elapsed_us"} |-> "u32"]
    @@ [k \in {"cw_min", "cw_max"} |-> "u16"]
    @@ [k \in {"max_retries"} |-> "u8"]
    @@ [k \in {"compatibility_immediate_delivery", "enable_collision_model",
               "enable_congestion_drops"} |-> "bool"]
    @@ [k \in {"per_model"} |-> "per_model"]
    @@ [k \in {"carrier_freq_mhz", "fading_stddev_db", "noise_jitter_db",
               "snr_threshold_db", "per_logistic_k", "per_logistic_mid_db",
               "congestion_utilization_threshold_pct",
               "congestion_drop_probability"} |-> "float"]

DeviceFields ==
    [k \in {"id", "node_id", "speed_cm_s", "heading_cdeg"} |-> "u16"]
    @@ [k \in {"lat", "initial_lat", "lon", "initial_lon"} |-> "s32"]
    @@ [k \in {"tx_power_dbm", "noise_floor_dbm", "sensitivity_dbm"} |-> "float"]

WaypointFields ==
    [k \in {"at_s"} |-> "u32"] @@ [k \in {"lat", "lon"} |-> "s32"]
    @@ [k \in {"speed_cm_s", "heading_cdeg"} |-> "u16"]

(* Two names of one field. *)
Canonical(key) ==
    CASE key = "id" -> "node_id"
      [] key = "initial_lat" -> "lat"
      [] key = "initial_lon" -> "lon"
      [] OTHER -> key

-----------------------------------------------------------------------------
(***************************************************************************)
(* The conversions.  Each gives the set of the value read, which is empty  *)
(* when the conversion reports an error.                                   *)
(***************************************************************************)

parsePerModel(word) ==
    CASE word \in {"disabled", "off"} -> {"Disabled"}
      [] word = "threshold" -> {"Threshold"}
      [] word = "logistic" -> {"Logistic"}
      [] OTHER -> {}

parseBool(v) ==
    CASE v \in {[word |-> "true"], [word |-> "True"], [int |-> 1]} -> {TRUE}
      [] v \in {[word |-> "false"], [word |-> "False"], [int |-> 0]} -> {FALSE}
      [] OTHER -> {}

(* std::stoull takes a negative number modulo 2^64. *)
stoull(n) ==
    CASE n \in 0 .. UMax["u64"] -> {n}
      [] n < 0 /\ -n <= UMax["u64"] -> {n + UMax["u64"] + 1}
      [] OTHER -> {}

(* Only then is the result compared with the range of the type. *)
parseUnsigned(type, n) == stoull(n) \cap (0 .. UMax[type])

parseSigned(n) == {n} \cap (-(UMax["u32"] + 1) \div 2 .. UMax["u32"] \div 2)

Parsed(type, v) ==
    CASE type = "bool" -> parseBool(v)
      [] type = "per_model" /\ IsWord(v) -> parsePerModel(v.word)
      [] type = "float" /\ IsInt(v) -> {v.int}
      [] type = "s32" /\ IsInt(v) -> parseSigned(v.int)
      [] type \in DOMAIN UMax /\ IsInt(v) -> parseUnsigned(type, v.int)
      [] OTHER -> {}

-----------------------------------------------------------------------------
(***************************************************************************)
(* The parser between two lines: the block it is in, the sections seen,    *)
(* what is read so far, and the device and the waypoint being read.        *)
(***************************************************************************)

Opened ==
    [block |-> "top", seen |-> {}, runtime |-> SimulationRuntimeConfig,
     devices |-> <<>>, device |-> SimulationDeviceConfig,
     waypoint |-> SimulationWaypointConfig]

(* parseError *)
Failed(p) == [p EXCEPT !.block = "error"]

InBlock(p, block) == [p EXCEPT !.block = block]

(* A line that sets one field of the part being read. *)
SetField(p, part, fields, line) ==
    LET read == IF line.key \in DOMAIN fields THEN Parsed(fields[line.key], line.value) ELSE {}
    IN  IF read = {} THEN Failed(p)
        ELSE [p EXCEPT ![part][Canonical(line.key)] = CHOOSE v \in read : TRUE]

(* std::sort by at_s, here the order that keeps equal ones as they were;   *)
(* the scenario sorts again.                                               *)
SortedByTime(waypoints) ==
    LET Place(sorted, w) ==
            InsertAt(sorted, Len(SelectSeq(sorted, LAMBDA v : v.at_s <= w.at_s)) + 1, w)
    IN  FoldLeft(Place, <<>>, waypoints)

(* What a line of this indentation ends.  The end of the text is like a    *)
(* line that is not indented.                                              *)
CloseWaypoint(p, indent) ==
    IF p.block = "waypoint" /\ indent <= 6
    THEN [InBlock(p, "waypoints") EXCEPT !.device.waypoints = Append(@, p.waypoint)]
    ELSE p

CloseWaypoints(p, indent) ==
    IF p.block = "waypoints" /\ indent < 6 THEN InBlock(p, "device") ELSE p

(* Mutant of CloseDevice: a device without an id is accepted. *)
CloseDeviceUnnamed(p, indent) ==
    IF p.block = "device" /\ indent <= 2
    THEN [InBlock(p, "devices") EXCEPT !.devices =
             Append(@, [p.device EXCEPT !.waypoints = SortedByTime(@)])]
    ELSE p

CloseDevice(p, indent) ==
    CASE ~(p.block = "device" /\ indent <= 2) -> p
      [] p.device.node_id = NoId -> Failed(p)
      [] OTHER -> [InBlock(p, "devices") EXCEPT !.devices =
                      Append(@, [p.device EXCEPT !.waypoints = SortedByTime(@)])]

CloseSection(p, indent) ==
    IF p.block \in {"runtime", "devices"} /\ indent = 0 THEN InBlock(p, "top") ELSE p

Closed(p, indent) ==
    CloseSection(CloseDevice(CloseWaypoints(CloseWaypoint(p, indent), indent), indent), indent)

(* "key:" alone on a line. *)
Heads(line, key) == line.key = key /\ line.value = Absent /\ ~line.item

(* parseLines, its outer loop. *)
ReadTop(p, line) ==
    IF line.indent = 0 /\ (Heads(line, "runtime") \/ Heads(line, "devices"))
    THEN [InBlock(p, line.key) EXCEPT !.seen = @ \cup {line.key}]
    ELSE Failed(p)

ReadRuntime(p, line) ==
    IF line.indent = 2 /\ ~line.item
    THEN SetField(p, "runtime", RuntimeFields, line)
    ELSE Failed(p)

(* A list item opens a fresh part and may set its first field. *)
ReadItem(p, indent, part, blank, fields, line) ==
    LET q == [InBlock(p, part) EXCEPT ![part] = blank]
    IN  IF line.indent = indent /\ line.item
        THEN IF line.key = NoKey THEN q ELSE SetField(q, part, fields, line)
        ELSE Failed(p)

ReadDevice(p, line) ==
    CASE line.indent # 4 \/ line.item -> Failed(p)
      [] Heads(line, "waypoints") -> InBlock(p, "waypoints")
      [] OTHER -> SetField(p, "device", DeviceFields, line)

ReadWaypoint(p, line) ==
    IF line.indent = 8 /\ ~line.item
    THEN SetField(p, "waypoint", WaypointFields, line)
    ELSE Failed(p)

ReadLine(parser, line) ==
    LET p == Closed(parser, line.indent)
    IN  CASE p.block = "error" \/ line.indent % 2 # 0 -> Failed(p)
          [] p.block = "top" -> ReadTop(p, line)
          [] p.block = "runtime" -> ReadRuntime(p, line)
          [] p.block = "devices" ->
                ReadItem(p, 2, "device", SimulationDeviceConfig, DeviceFields, line)
          [] p.block = "device" -> ReadDevice(p, line)
          [] p.block = "waypoints" ->
                ReadItem(p, 6, "waypoint", SimulationWaypointConfig, WaypointFields, line)
          [] p.block = "waypoint" -> ReadWaypoint(p, line)

(* The end of the text: the configuration read, or none. *)
Configured(parser) ==
    LET p == Closed(parser, 0)
    IN  IF p.block = "top" /\ p.seen = {"runtime", "devices"}
        THEN {[runtime |-> p.runtime, devices |-> p.devices]}
        ELSE {}

(* parseText of the lines preprocess kept. *)
parseText(lines) == Configured(FoldLeft(ReadLine, Opened, lines))
=============================================================================
