SPECIFICATION FairSpec
CONSTANTS
    Node = {0, 1, 2, 3, 4}
    K = 3
    Metrics <- MCMetrics
    MaxFloat = 1000
    Radii <- MCRadii
    HighRoot = 0
    Unreached = 100
    MaxChildren = 2
    MaxCount = 0
    FailAfter = 0
    GiveUpAfter = 0
INVARIANTS AlwaysATree OneFailureTolerated RingsNested RingInv
PROPERTIES RingsBuilt
CHECK_DEADLOCK FALSE
