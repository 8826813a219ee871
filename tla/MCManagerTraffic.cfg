\* Copies, an echo, two threads in sendMessage; a destroyed manager does nothing more.
CONSTANTS
    near = near
    far = far
    echo = echo
    other = other
    late = late
    stub = stub
    sender1 = sender1
    sender2 = sender2
    Frames = {near, far, echo}
    Header <- MCHeader
    Truncated = {}
    Here <- MCHere
    Signal <- MCSignal
    Clock = 6
    Points <- MCPoints
    Threshold = 5
    Word = 16
    CacheSize = 5
    QueueSize = 1
    kMaxSlots = 8
    RxDepth = 2
    Senders = {sender1, sender2}
    NodeId = 1
    SeqMod = 3
    MaxSends = 2
SPECIFICATION Spec
CHECK_DEADLOCK FALSE
INVARIANTS
    HandledOnce
    OvertakenNotHeld
    FramesAccounted
    NumbersUsedUp
PROPERTY QuietAfterStop
