SPECIFICATION FairSpec
CONSTANTS
    yes = yes
    b1 = b1
    s1 = s1
    None = None
    Tokens <- OneToken
    Trades <- BuySell
    TokenOf <- AllOnYes
    Signed <- TwoShares
    Held <- TwoHeld
    RecentFill = 1
    MaxInflightAge = 0
    AuditEvery = 1
    MaxCrashes = 1
PROPERTIES
    GuardsClear
    PositionsConverge
