\* More messages than sequence numbers.
CONSTANTS
    near = near
    far = far
    echo = echo
    other = other
    late = late
    stub = stub
    sender1 = sender1
    sender2 = sender2
    Frames = {echo}
    Header <- MCHeader
    Truncated = {}
    Here <- MCHere
    Signal <- MCSignal
    Clock = 6
    Points <- MCPoints
    Threshold = 5
    Word = 16
    CacheSize = 4
    QueueSize = 1
    kMaxSlots = 8
    RxDepth = 2
    Senders = {sender1}
    NodeId = 1
    SeqMod = 2
    MaxSends = 3
SPECIFICATION Spec
CHECK_DEADLOCK FALSE
INVARIANT IdsIdentify
