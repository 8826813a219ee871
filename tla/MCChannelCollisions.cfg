\* Two frames on the air at once, in the collision model.
SPECIFICATION Spec
CONSTANTS
    a = a  b = b  c = c  f1 = f1  f2 = f2  f3 = f3
    NodeIds = {a, b, c}
    Frames = {f1, f2, f3}
    Source <- MCSource
    Dest <- MCDest
    Airtime <- MCAirtime
    Broadcast = Broadcast
    Delays = {0, 1}
    SlotTime = 1
    Difs = 1
    MaxRetries = 2
    CwMin = 0
    CwMaxConfigured = 1
    CollisionModel = TRUE
    Horizons = {1, 3, 20}
    SendUntil = 1
    MaxResets = 0
    Leavers = {}
INVARIANTS
    OverlapSilences AttemptsAccounted SuccessMeansHeard
