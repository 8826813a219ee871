------------------------------- MODULE MCMesh -------------------------------
(* Four nodes on a line, the last one in reach of the third alone; an      *)
(* urgent message from one end and a normal one from the other.            *)
EXTENDS Mesh, TLC

CONSTANTS n1, n2, n3, n4, m1, m2

MCPlace == n1 :> <<0, 0>> @@ n2 :> <<1, 0>> @@ n3 :> <<2, 0>> @@ n4 :> <<4, 0>>
MCPoints == {MCPlace[n] : n \in Nodes}
LOCAL Flood(n, priority, hops) ==
    [origin_node |-> n, priority |-> priority, hops |-> hops,
     max_distance |-> 0, directional |-> FALSE, heading |-> <<0, 1>>]
MCHeader == m1 :> Flood(n1, 0, 3) @@ m2 :> Flood(n4, 2, 2)
LOCAL Setup(nodes, messages, lossy, room, queue) ==
    [nodes |-> nodes, messages |-> messages, lossy |-> lossy, room |-> room, queue |-> queue]
MCSetups ==
    {Setup(Nodes, {m1}, FALSE, TRUE, 2), Setup(Nodes, {m1}, TRUE, TRUE, 1),
     Setup({n1, n3, n4}, {m1, m2}, TRUE, TRUE, 1), Setup({n1, n3, n4}, {m1, m2}, FALSE, TRUE, 2),
     Setup({n1, n3, n4}, {m1, m2}, FALSE, FALSE, 1), Setup({n1, n3, n4}, {m1, m2}, TRUE, FALSE, 1)}
=============================================================================
