-------------------------------- MODULE Geo --------------------------------
(***************************************************************************)
(* geo_utils.cpp on the plane.  The code measures metres east and north of *)
(* a reference point, in floating point; here a point is a pair <<east,    *)
(* north>> of integers, and every comparison of distances or angles is     *)
(* made on their exact squares or products.  Curvature and rounding are    *)
(* left out.                                                               *)
(***************************************************************************)
EXTENDS Integers

CONSTANTS
    Points,      \* the positions a node can be at
    Threshold    \* CONFIG_NET_BETWEENNESS_THRESHOLD_M

ASSUME GeoAssumption ==
    /\ Points \subseteq Int \X Int
    /\ Threshold \in Nat

East(a, b) == b[1] - a[1]     \* metres from a to b
North(a, b) == b[2] - a[2]

Dist2(a, b) == East(a, b) * East(a, b) + North(a, b) * North(a, b)

Dot(o, p, q) == East(o, p) * East(o, q) + North(o, p) * North(o, q)
Cross(o, p, q) == East(o, p) * North(o, q) - North(o, p) * East(o, q)

(* haversine_m(a, b) > d *)
Beyond(a, b, d) == Dist2(a, b) > d * d

Abs(x) == IF x < 0 THEN -x ELSE x

(* haversine_m(a, b) in whole metres, rounded down. *)
Metres == [a \in Points |-> [b \in Points |->
    CHOOSE d \in 0 .. Abs(East(a, b)) + Abs(North(a, b)) :
        d * d <= Dist2(a, b) /\ Dist2(a, b) < (d + 1) * (d + 1)]]

(* isBetween: me projects onto the segment from o to tx, lies within       *)
(* Threshold of it, and is strictly nearer to o than tx is.                *)
IsBetween(o, me, tx) ==
    /\ Dist2(o, tx) > 0
    /\ 0 <= Dot(o, me, tx) /\ Dot(o, me, tx) <= Dist2(o, tx)
    /\ Cross(o, me, tx) * Cross(o, me, tx)
         <= Threshold * Threshold * Dist2(o, tx)
    /\ Dist2(o, me) < Dist2(o, tx)

(* isInsideCone with the default half angle, 45 degrees.  The heading is a *)
(* vector <<east, north>>; the bearing of a point from itself is 0, north. *)
InCone(o, target, heading) ==
    LET d == IF target = o THEN <<0, 1>> ELSE <<East(o, target), North(o, target)>>
        along  == heading[1] * d[1] + heading[2] * d[2]
        across == heading[1] * d[2] - heading[2] * d[1]
    IN  across <= along /\ -across <= along

=============================================================================
