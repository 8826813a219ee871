CONSTANTS
    n1 = n1
    n2 = n2
    n3 = n3
    n4 = n4
    m1 = m1
    m2 = m2
    Nodes = {n1, n2, n3, n4}
    Place <- MCPlace
    Points <- MCPoints
    Threshold = 0
    Earshot = 2
    Messages = {m1, m2}
    Header <- MCHeader
    Setups <- MCSetups

SPECIFICATION FairSpec

INVARIANTS
    HandledOnce
    HopsSpent

PROPERTIES
    FloodEnds
    EveryoneReached

CHECK_DEADLOCK FALSE
