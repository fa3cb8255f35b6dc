SPECIFICATION FairSpec
CONSTANTS
    Kinds = {"python", "c"}
    Psks = {"right", "wrong"}
    ServerPsk = "right"
    MaxStreams = 2
    MaxBucket = 2
    MaxLosses = 2
    Losable <- Survivable
INVARIANTS
    TypeOK
    MutualAuthentication
    NoProtocolError
    AckMeansTaken
    SessionAcksSigned
PROPERTY
    HandshakeCompletes
CHECK_DEADLOCK FALSE
