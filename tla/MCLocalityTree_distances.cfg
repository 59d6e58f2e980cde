SPECIFICATION TreeSpec
CONSTANTS
    Node = {0, 1, 2, 3, 4}
    K = 3
    Metrics <- MCMetrics
    MaxFloat = 1000
    Root = 0
    MaxLinks = 2
    OptTypes = {1}
INVARIANT NoBadDistances
CHECK_DEADLOCK FALSE
