------------------------- MODULE MCSimulatedNetwork -------------------------
(* Three frames: two broadcasts from different nodes, and one from the      *)
(* first node to the second alone.                                         *)
EXTENDS SimulatedNetwork, TLC

CONSTANTS a, b, c, f1, f2, f3

MCSource == f1 :> a @@ f2 :> b @@ f3 :> a
MCAirtime == f1 :> 2 @@ f2 :> 3 @@ f3 :> 1
MCDest == f1 :> Broadcast @@ f2 :> Broadcast @@ f3 :> b
=============================================================================
