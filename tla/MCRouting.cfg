\* Any order of copies, while the clock is set and advances.
CONSTANTS
    Points <- MCPoints
    Threshold = 5
    Headers <- MCHeaders
    Ids <- MCIds
    Capacity = 4
    Word = 16
    Places <- MCPlaces
    Signals <- MCSignals
    MaxDeliveries = 2
SPECIFICATION HistorySpec
INVARIANTS
    FreshNeverLost
    FarFirst
    WithinMultipliedBounds
PROPERTY NoResurrection
