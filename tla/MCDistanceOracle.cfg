SPECIFICATION Spec
CONSTANTS
    Node = {0, 1, 2, 3}
    K = 3
    Metrics <- MCMetrics
    MaxFloat = 1000
INVARIANTS
    LoopInv
    NeverGetsHere
    StretchBound
CHECK_DEADLOCK FALSE
