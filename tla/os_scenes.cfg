SPECIFICATION ScenesSpec
CONSTANTS
    yes = yes
    no = no
    bid = bid
    exit = exit
    p1 = p1
    p2 = p2
    o1 = o1
    o2 = o2
    None = None
    Tokens <- TwoTokens
    Slots <- BidExit
    TokenOf <- TokenOfSlot
    Prices <- TwoPrices
    Ids <- TwoIds
    Grace = 2
    MaxStale = 1
    SoftLimit = 2
    FaultKinds = {"halt"}
    MaxFaults = 2
SYMMETRY Symmetry
INVARIANTS
    TypeOK
    OneOrderPerSlot
    LiveIsKnown
    QuietHalt
