SPECIFICATION Spec
CONSTANTS
    k1 = k1
    k2 = k2
    \* RegimeGate
    CoolOff = 2
    BaseTick = 3
    HeldTick = 2
    StaleHalt = 1
    Hours <- HoursToResolution
    HaltBefore = 1
    ReduceOnly = 2
    MaxAwait = 1
    \* OrderResults
    Markets <- TwoMarkets
    Batches <- BuyOrExitBuy
    SoftStreak = 3
    MinSample = 3
    RateNum = 1
    RateDen = 2
    MaxAttempts = 6
    \* MakerQuotes
    PlanTick = 2
    RepriceTicks = 2
    ResizeNum = 1
    ResizeDen = 2
    GridSize = 7
    Vols = {0, 4}
    Nudges = {0}
    Scales = {4}
    DeltaMin = 2
    MinEdge = 1
    LayerCount = 2
    LayerStep = 1
    BaseSize = 1
    QMax = 2
    SoftNum = 3
    SoftDen = 5
    ExchangeMin = 1
    RewardFloor = 2
    RewardBand = 5
    MaxStart = 2
    Starts <- HoldNoneOrTwo
    MaxFills = 0
    MaxRounds = 1
    \* OneWay
    OwGrid = 5
    FvInitial = 26
    FvStart = 1
    FvEnd = 3
    BuyLayers = 2
    SellLayers = 2
    Pyramid <- EvenPyramid
    OwBase = 1
    OwQMax = 6
    OwMin = 1
    OwInvLow = 33
    OwInvMid = 66
    OwRepriceTicks = 1
    OwResizeNum = 1
    OwResizeDen = 2
    Gaps = {1}
    WallOffsets = {0, 1}
    OwScales = {2}
    OwStarts = {0, 4}
    OwMaxHeld = 4
    LastDay = 0
    OwRounds = 1
    \* Snapshots
    SnapPrices = {1, 2}
    Retention = 2
    LastBucket = 2
    MaxVolume = 2
    MaxCycles = 1
    \* Adaptive
    Buckets <- FiveBuckets
    RecentBuckets = 4
    MinBuckets = 2
    VolLow = 5
    VolMid = 12
    VolHigh = 16
    PanicBase = 40
    GapBase = 2
PROPERTIES
    OffersOverBid
CHECK_DEADLOCK FALSE
