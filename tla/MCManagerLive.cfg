\* The threads and stop(), with a queue of one frame.
CONSTANTS
    near = near
    far = far
    echo = echo
    other = other
    late = late
    stub = stub
    sender1 = sender1
    sender2 = sender2
    Frames = {near, far, stub}
    Header <- MCHeader
    Truncated = {stub}
    Here <- MCHere
    Signal <- MCSignal
    Clock = 6
    Points <- MCPoints
    Threshold = 5
    Word = 16
    CacheSize = 4
    QueueSize = 1
    kMaxSlots = 8
    RxDepth = 1
    Senders = {}
    NodeId = 1
    SeqMod = 2
    MaxSends = 0
SPECIFICATION FairSpec
CHECK_DEADLOCK FALSE
PROPERTIES
    StopReturns
    FramesProcessed
    RelaysSettle
