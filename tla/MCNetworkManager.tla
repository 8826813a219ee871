-------------------------- MODULE MCNetworkManager --------------------------
(***************************************************************************)
(* NetworkManager for TLC.  The node sits at (10, 0), between a source at  *)
(* (0, 0) and a far neighbour at (20, 0).  Frames:                         *)
(*   near   a message of the source, heard from the source                 *)
(*   far    the same message, relayed by the far neighbour                 *)
(*   echo   the far neighbour's relay of a message of this node            *)
(*   other  another message, more urgent                                   *)
(*   late   a third message, expired                                       *)
(*   stub   a frame too short to hold a header                             *)
(***************************************************************************)
EXTENDS NetworkManager, Integers

CONSTANTS near, far, echo, other, late, stub, sender1, sender2

MCPoints == {<<0, 0>>, <<10, 0>>, <<20, 0>>}
MCHere == <<10, 0>>

Base == [id |-> 1, priority |-> 2, timestamp |-> 3, lifetime |-> 9, hops |-> 1,
         max_distance |-> 0, directional |-> FALSE, heading |-> <<0, 1>>,
         origin |-> <<0, 0>>, tx |-> <<0, 0>>]

MCHeader ==
    [f \in {near, far, echo, other, late, stub} |->
        CASE f = near  -> Base
          [] f = far   -> [Base EXCEPT !.tx = <<20, 0>>]
          [] f = echo  -> [Base EXCEPT !.id = MessageId(0), !.origin = MCHere,
                                       !.tx = <<20, 0>>]
          [] f = other -> [Base EXCEPT !.id = 2, !.priority = 0]
          [] f = late  -> [Base EXCEPT !.id = 3, !.lifetime = 1]
          [] f = stub  -> [Base EXCEPT !.id = 4]]

MCSignal == [rssi |-> -75, snr |-> 0]
=============================================================================
