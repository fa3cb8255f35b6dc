SPECIFICATION Spec
CONSTANTS
    MaxPayload = 3
    Types <- PacketTypes
    Frames <- SomeFrames
    Followers <- OneMore
    Bursts <- UpToSixteen
    Rubbish <- OneByte
    MaxDatagrams = 2
INVARIANTS
    DamageRefused
    StaysAligned
    CrcIsRemainder
CHECK_DEADLOCK FALSE
