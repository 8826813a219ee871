---------------------------- MODULE ConfigGrammar ----------------------------
(***************************************************************************)
(* What a scenario file means, said without a parser: a line belongs to    *)
(* the nearest line above it that is indented less, that decides what it   *)
(* may be, and of the lines that name one field of one thing the last one  *)
(* counts.  ConfigLoader is compared with it.                              *)
(***************************************************************************)
EXTENDS ConfigLoader
LOCAL INSTANCE FiniteSetsExt

Last(S) == IF S = {} THEN 0 ELSE Max(S)

(* The line above that line i belongs to; 0 is the file. *)
Owner(file, i) == Last({j \in 1 .. i - 1 : file[j].indent < file[i].indent})

(* A number is admitted when the type holds it: no wrapping, which the     *)
(* loader does before it looks at the range.                               *)
Admitted(type, v) ==
    IF type \in DOMAIN UMax /\ IsInt(v) THEN {v.int} \cap (0 .. UMax[type]) ELSE Parsed(type, v)

(* A number for a field whose type does not hold it, which the loader      *)
(* takes nevertheless.                                                     *)
Types(key) == {fields[key] : fields \in {g \in {RuntimeFields, DeviceFields, WaypointFields} :
                                             key \in DOMAIN g}}
Wraps(line) ==
    \E type \in Types(line.key) : Admitted(type, line.value) = {} /\ Parsed(type, line.value) # {}

Sets(line, fields) ==
    line.key \in DOMAIN fields /\ Admitted(fields[line.key], line.value) # {}

(* What each line is, by what its owner is. *)
Roles(file) ==
    LET Role(line, up) ==
            CASE up = "file" /\ line.indent = 0
                     /\ (Heads(line, "runtime") \/ Heads(line, "devices")) -> line.key
              [] up = "runtime" /\ line.indent = 2 /\ ~line.item
                     /\ Sets(line, RuntimeFields) -> "setting"
              [] up = "devices" /\ line.indent = 2 /\ line.item
                     /\ (line.key = NoKey \/ Sets(line, DeviceFields)) -> "device"
              [] up = "device" /\ line.indent = 4 /\ Heads(line, "waypoints") -> "waypoints"
              [] up = "device" /\ line.indent = 4 /\ ~line.item
                     /\ Sets(line, DeviceFields) -> "device field"
              [] up = "waypoints" /\ line.indent = 6 /\ line.item
                     /\ (line.key = NoKey \/ Sets(line, WaypointFields)) -> "waypoint"
              [] up = "waypoint" /\ line.indent = 8 /\ ~line.item
                     /\ Sets(line, WaypointFields) -> "waypoint field"
              [] OTHER -> "misplaced"
        role[i \in 1 .. Len(file)] ==
            Role(file[i], IF Owner(file, i) = 0 THEN "file" ELSE role[Owner(file, i)])
    IN  role

(* The last line of the group that names the field, or 0. *)
Naming(file, group, field) == Last({i \in group : Canonical(file[i].key) = field})

ValueIn(file, group, fields, field, default) ==
    LET i == Naming(file, group, field)
    IN  IF i = 0 THEN default
        ELSE CHOOSE v \in Admitted(fields[file[i].key], file[i].value) : TRUE

(* The lines of the thing that item i opens which set its own fields. *)
Own(file, role, i) ==
    {i} \cup {j \in DOMAIN role : Owner(file, j) = i /\ role[j] # "waypoints"}

WellFormed(file) ==
    LET role == Roles(file)
    IN  /\ {"runtime", "devices"} \subseteq {role[i] : i \in DOMAIN role}
        /\ \A i \in DOMAIN role :
              /\ role[i] # "misplaced"
              /\ role[i] = "device" => Naming(file, Own(file, role, i), "node_id") # 0

(* The i-th line in the file that has this role. *)
Nth(role, what, d) ==
    CHOOSE i \in DOMAIN role : /\ role[i] = what
                               /\ Cardinality({j \in 1 .. i : role[j] = what}) = d

(* A waypoint list in the order of its times, any order among equals. *)
SameWaypoints(list, file, role, items) ==
    LET Meant(i) == [field \in DOMAIN SimulationWaypointConfig |->
            ValueIn(file, Own(file, role, i), WaypointFields, field,
                    SimulationWaypointConfig[field])]
    IN  /\ Len(list) = Cardinality(items)
        /\ \A k \in 2 .. Len(list) : list[k - 1].at_s <= list[k].at_s
        /\ \A i \in items : Cardinality({j \in items : Meant(j) = Meant(i)})
                            = Cardinality({k \in DOMAIN list : list[k] = Meant(i)})

Means(file, config) ==
    LET role == Roles(file)
        settings == {i \in DOMAIN role : role[i] = "setting"}
        count == Cardinality({i \in DOMAIN role : role[i] = "device"})
    IN  /\ \A field \in DOMAIN SimulationRuntimeConfig :
              config.runtime[field] =
                  ValueIn(file, settings, RuntimeFields, field, SimulationRuntimeConfig[field])
        /\ Len(config.devices) = count
        /\ \A d \in 1 .. count :
              LET i == Nth(role, "device", d)
                  items == {j \in DOMAIN role : role[j] = "waypoint" /\ Owner(file, Owner(file, j)) = i}
              IN  /\ \A field \in DOMAIN SimulationDeviceConfig \ {"waypoints"} :
                        config.devices[d][field] =
                            ValueIn(file, Own(file, role, i), DeviceFields, field,
                                    SimulationDeviceConfig[field])
                  /\ SameWaypoints(config.devices[d].waypoints, file, role, items)
=============================================================================
