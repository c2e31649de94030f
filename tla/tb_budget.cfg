SPECIFICATION FairSpec
CONSTANTS
    q1 = q1
    q2 = q2
    q3 = q3
    Callers <- ThreeCallers
    Wants <- Demands
    Rate = 2
    Capacity = 5
    Saturated = 3
    MaxWindow = 4
INVARIANTS
    TypeOK
    WithinBudget
    SleepsJustEnough
PROPERTY
    AcquireEnds
