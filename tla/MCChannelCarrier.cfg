\* Carrier sense alone: retries, a node that comes and goes, and one reset.
SPECIFICATION FairSpec
CONSTANTS
    a = a  b = b  c = c  f1 = f1  f2 = f2  f3 = f3
    NodeIds = {a, b}
    Frames = {f1, f2, f3}
    Source <- MCSource
    Dest <- MCDest
    Airtime <- MCAirtime
    Broadcast = Broadcast
    Delays = {0}
    SlotTime = 1
    Difs = 1
    MaxRetries = 1
    CwMin = 0
    CwMaxConfigured = 1
    CollisionModel = FALSE
    Horizons = {1, 20}
    SendUntil = 1
    MaxResets = 1
    Leavers = {a}
INVARIANTS ChannelExclusive AttemptsAccounted
PROPERTY EveryAttemptSettles
