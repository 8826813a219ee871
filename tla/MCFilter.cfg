\* The filter until its tick wraps: the last call ends the behaviour.
CONSTANTS
    Ids <- MCIds
    Capacity = 3
    TickMod = 9
SPECIFICATION WindowSpec
CHECK_DEADLOCK FALSE
INVARIANTS
    TicksDistinct
    RecognisedInWindow
PROPERTY ImplementsLru
