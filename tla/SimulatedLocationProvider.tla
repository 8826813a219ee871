---------------------- MODULE SimulatedLocationProvider ----------------------
(***************************************************************************)
(* SimulatedLocationProvider (simulated_location_provider.cpp): where a    *)
(* node is and what time it believes it is.  Its operations each run under *)
(* its mutex.                                                              *)
(*                                                                         *)
(* Coordinates are integers, in units of 1e-7 degree.  A state here keeps  *)
(* the position the node was last put at, lat and lon, and by how much its *)
(* latitude has changed since: the code's latitude is lat + moved_lat.     *)
(*                                                                         *)
(* The code computes in doubles; here the cosine of a heading and the      *)
(* length of a unit of latitude are given numbers, and what doubles round  *)
(* off is left out.  So is the way east: the length of a unit of longitude *)
(* changes with the latitude, and nothing here is about the longitude.     *)
(***************************************************************************)
EXTENDS Integers

CONSTANTS
    Headings,   \* values of heading_cdeg, in hundredths of a degree
    Scale,      \* cosines are given in fractions of this number
    Cosine,     \* the cosine of each heading, times Scale
    LatUnit     \* 1e-7 degree of latitude (about 1.11 cm), in 1 / Scale cm

ASSUME LocationAssumption ==
    /\ Headings \subseteq Nat
    /\ Scale \in Nat \ {0} /\ LatUnit \in Nat \ {0}
    /\ Cosine \in [Headings -> -Scale .. Scale]

(* A kinematics_state: what the constructor and setKinematics are given. *)
Kinematics(lat, lon, speed_cm_s, heading_cdeg, timestamp_s) ==
    [lat |-> lat, lon |-> lon, speed_cm_s |-> speed_cm_s,
     heading_cdeg |-> heading_cdeg, timestamp_s |-> timestamp_s,
     moved_lat |-> 0, subsecond_ms |-> 0]

(* llround of x / unit.  (Where two integers are equally near the code     *)
(* takes the one farther from 0, this the upper one.)                      *)
llround(x, unit) == (2 * x + unit) \div (2 * unit)

(* The units of latitude that a distance along a heading makes. *)
LatUnits(heading_cdeg, distance_cm) == llround(Cosine[heading_cdeg] * distance_cm, LatUnit)

(* Mutant of advance: each step's own seconds are counted, and the rest of *)
(* a second is forgotten.                                                  *)
advanceWholeSeconds(state, delta_ms) ==
    LET distance_cm == (state.speed_cm_s * delta_ms) \div 1000
    IN  [state EXCEPT !.moved_lat = @ + LatUnits(state.heading_cdeg, distance_cm),
                      !.timestamp_s = @ + delta_ms \div 1000]

(* Mutant of advance: the distance is rounded up. *)
advanceRoundedUp(state, delta_ms) ==
    LET distance_cm == (state.speed_cm_s * delta_ms + 999) \div 1000
        total_ms == state.subsecond_ms + delta_ms
    IN  [state EXCEPT !.moved_lat = @ + LatUnits(state.heading_cdeg, distance_cm),
                      !.timestamp_s = @ + total_ms \div 1000,
                      !.subsecond_ms = total_ms % 1000]

advance(state, delta_ms) ==
    LET distance_cm == (state.speed_cm_s * delta_ms) \div 1000
        total_ms == state.subsecond_ms + delta_ms
    IN  [state EXCEPT !.moved_lat = @ + LatUnits(state.heading_cdeg, distance_cm),
                      !.timestamp_s = @ + total_ms \div 1000,
                      !.subsecond_ms = total_ms % 1000]

(* The time the node has counted, which getTimestamp shows in seconds. *)
LocalMs(state) == 1000 * state.timestamp_s + state.subsecond_ms
==============================================================================
