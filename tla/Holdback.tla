------------------------------ MODULE Holdback ------------------------------
(***************************************************************************)
(* RoutingEngine::computeHoldback with the default configuration           *)
(* (Kconfig).  The code computes in floats                                 *)
(*                                                                         *)
(*   quality  = 0.5 (snr + 20) / 35  +  0.5 (rssi + 120) / 90              *)
(*   combined = 0.7 (1 - dist / 2000)  +  0.3 quality                      *)
(*   holdback = (50 + 450 combined) * multiplier                           *)
(*                                                                         *)
(* with every ratio clamped to 0 .. 1, and truncates the result.  Here the *)
(* inputs are integers (metres, dBm, dB) and 1260000 * combined is an      *)
(* integer, so the value is exact; float rounding is left out.             *)
(***************************************************************************)
EXTENDS Integers

MinMs == 50            \* CONFIG_NET_HOLDBACK_MIN_MS
MaxMs == 500           \* CONFIG_NET_HOLDBACK_MAX_MS
RadioRange == 2000     \* CONFIG_NET_ESTIMATED_RADIO_RANGE_M

Priorities == 0 .. 3   \* EMERGENCY, HIGH, NORMAL, LOW
Bytes == 0 .. 255

Clamp(x, lo, hi) == IF x < lo THEN lo ELSE IF x > hi THEN hi ELSE x

(* kPriorityMultiplier, in quarters. *)
Quarters == [p \in Priorities |-> CASE p = 0 -> 1 [] p = 1 -> 2 [] p = 2 -> 4 [] p = 3 -> 6]

(* Mutants of Combined: near nodes relay first; a strong signal relays     *)
(* first.                                                                  *)
CombinedNearFirst(dist, rssi, snr) ==
    441 * Clamp(dist, 0, RadioRange)
      + 5400 * (Clamp(snr, -20, 15) + 20) + 2100 * (Clamp(rssi, -120, -30) + 120)

CombinedUnclamped(dist, rssi, snr) ==
    441 * (RadioRange - dist)
      + 5400 * (Clamp(snr, -20, 15) + 20) + 2100 * (Clamp(rssi, -120, -30) + 120)

(* 1260000 * combined *)
Combined(dist, rssi, snr) ==
    441 * (RadioRange - Clamp(dist, 0, RadioRange))
      + 5400 * (Clamp(snr, -20, 15) + 20) + 2100 * (Clamp(rssi, -120, -30) + 120)

(* The header's priority is a byte off the air: above LOW it counts as LOW. *)
ComputeHoldback(priority, dist, rssi, snr) ==
    LET base == MinMs * 2800 + Combined(dist, rssi, snr)   \* 2800 * (50 + 450 combined)
    IN  (base * Quarters[Clamp(priority, 0, 3)]) \div 11200

=============================================================================
