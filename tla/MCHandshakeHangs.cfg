SPECIFICATION FairSpec
CONSTANTS
    Kinds = {"c"}
    Psks = {"right", "wrong"}
    ServerPsk = "right"
    MaxStreams = 1
    MaxBucket = 1
    MaxLosses = 0
    Losable <- Everything
PROPERTY
    ConnectReturns
CHECK_DEADLOCK FALSE
