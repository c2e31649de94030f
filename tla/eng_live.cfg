SPECIFICATION Spec
CONSTANTS
    k1 = k1
    k2 = k2
    Prices = {1, 2, 3}
    Ticks = {1, 2}
    MaxWire = 2
    MaxMoves = 2
    MaxMissed = 1
    MergeMarkets <- TwoMarkets
    MergeMin = 1
    MaxSets = 2
    MaxNonce = 3
    Tasks = {"reconcile", "heartbeat", "quote"}
    Mortal = {"reconcile"}
    Quoters = {"quote"}
    Beater = "heartbeat"
INVARIANTS
    EngineTypeOK
    FollowsWire
    SeenIsCurrent
    NoncesOnce
    RevertsExcused
    OldOrdersKnown
PROPERTIES
    TouchHeals
    MergesEnd
    NothingLeftBehind
CHECK_DEADLOCK FALSE
