SPECIFICATION Spec
CONSTANTS
    W = 3
    MaxSeq = 6
    MaxEpoch = 1
INVARIANTS
    BitmapExact
    NoFalseReplay
PROPERTY
    ImplementsAtMostOnce
CHECK_DEADLOCK FALSE
