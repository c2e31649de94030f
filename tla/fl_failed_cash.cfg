SPECIFICATION Spec
CONSTANTS
    yes = yes
    b1 = b1
    s1 = s1
    None = None
    Tokens <- OneToken
    Trades <- BuySell
    TokenOf <- AllOnYes
    Signed <- TwoShares
    Held <- TwoHeld
    RecentFill = 1
    MaxInflightAge = 1
    AuditEvery = 2
    MaxCrashes = 0
INVARIANT
    CashFollowsFills
