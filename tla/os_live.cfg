SPECIFICATION FairSpec
CONSTANTS
    yes = yes
    no = no
    bid = bid
    exit = exit
    p1 = p1
    p2 = p2
    o1 = o1
    o2 = o2
    None = None
    Tokens <- OneToken
    Slots <- Bid
    TokenOf <- TokenOfSlot
    Prices <- OnePrice
    Ids <- OneId
    Grace = 1
    MaxStale = 0
    SoftLimit = 2
    FaultKinds = {"read", "cancel", "post", "beat", "book", "halt"}
    MaxFaults = 3
PROPERTIES
    ViewConverges
    HaltPulls
