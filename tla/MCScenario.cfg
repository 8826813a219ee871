CONSTANTS
    f1 = f1
    f2 = f2
    NodeIds = {1, 2}
    Driver = driver
    Broadcast = broadcast
    Frames = {f1, f2}
    Source <- MCSource
    Dest <- MCDest
    Headings = {0, 6000, 18000}
    Cosine <- MCCosine
    Scale = 10000
    LatUnit = 11119
    UMax <- MCUMax
    Lines <- MCLines
    MaxLines = 6
    Devices <- MCDevices
    Waypoints <- MCWaypoints
    Configs <- MCConfigs
    Carriers = {433}
    NetworkConfigs <- MCNetworkConfigs
    StartTimes = {0, 1}
    MaxWaypoints = 2
    Runnable <- MCRunnable
    Deltas = {800, 1500}
    MaxTime = 2600
    SendUntil = 1800

SPECIFICATION FairSpec

INVARIANTS
    NodeClocks
    WaypointInForce
    TravelBounded
    NothingLeftBehind
    HandedOnce
    AttemptsCounted
    NoDangling
    LoaderMeetsGrammar

PROPERTY
    HaltReturns
