\* Four relays of two messages in two slots, and the scan at any moment.
CONSTANTS
    j1 = j1
    j2 = j2
    j3 = j3
    j4 = j4
    m1 = m1
    m2 = m2
    Jobs <- MCJobs
    Header <- MCHeader
    Points <- MCPoints
    Threshold = 5
    kMaxSlots = 8
    Capacity = 2
    Holdbacks = {0, 2}
    MaxTime = 2
SPECIFICATION FairSpec
INVARIANTS
    Ledger
    NeverEarly
PROPERTIES
    FatesFinal
    UrgentKept
    EveryRelaySettles
    ImplementsPool
