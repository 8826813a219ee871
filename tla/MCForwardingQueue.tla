------------------------- MODULE MCForwardingQueue -------------------------
(***************************************************************************)
(* ForwardingQueue for TLC: two slots and four relays of two messages with *)
(* three priorities, so that the pool overflows with and without a victim  *)
(* and two relays of one message can wait together; three positions nearly *)
(* in a row, so that some transmissions overtake a relay and some do not.  *)
(***************************************************************************)
EXTENDS ForwardingQueue

CONSTANTS j1, j2, j3, j4, m1, m2

MCJobs == {j1, j2, j3, j4}

MCPoints == {<<0, 0>>, <<10, 1>>, <<20, 0>>}
MCOrigin == <<0, 0>>

MCHeader ==
    [j \in MCJobs |->
        CASE j = j1 -> [id |-> m1, priority |-> 1, origin |-> MCOrigin]
          [] j = j2 -> [id |-> m2, priority |-> 2, origin |-> MCOrigin]
          [] j = j3 -> [id |-> m2, priority |-> 1, origin |-> MCOrigin]
          [] j = j4 -> [id |-> m2, priority |-> 0, origin |-> MCOrigin]]
=============================================================================
