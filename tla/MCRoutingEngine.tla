-------------------------- MODULE MCRoutingEngine --------------------------
(***************************************************************************)
(* RoutingHistory for TLC.  The headers: copies of message 1 that differ   *)
(* in hops and transmitter, a message with a short life and bounded in     *)
(* distance, a directional one sent by a node that does not know the time, *)
(* and an urgent one.  The places and signals cross the clamps of          *)
(* computeHoldback.                                                        *)
(***************************************************************************)
EXTENDS RoutingHistory

MCPoints == {<<0, 0>>, <<700, 0>>, <<1900, 1600>>}

Plain == [id |-> 1, priority |-> 2, timestamp |-> 3, lifetime |-> 2, hops |-> 1,
          max_distance |-> 0, directional |-> FALSE, heading |-> <<0, 1>>,
          origin |-> <<0, 0>>, tx |-> <<0, 0>>]

MCHeaders ==
    {Plain, [Plain EXCEPT !.hops = 0, !.tx = <<700, 0>>, !.priority = 3],
     [Plain EXCEPT !.id = 2, !.lifetime = 1, !.max_distance = 800],
     [Plain EXCEPT !.id = 3, !.timestamp = 0, !.directional = TRUE, !.heading = <<1, 0>>],
     [Plain EXCEPT !.id = 4, !.lifetime = 5, !.priority = 0]}

MCIds == {h.id : h \in MCHeaders}
MCPlaces == {<<700, 0>>, <<1900, 1600>>}
MCSignals == {[rssi |-> -75, snr |-> 0], [rssi |-> -20, snr |-> -25]}
=============================================================================
