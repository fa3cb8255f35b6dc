SPECIFICATION CFairSpec
CONSTANTS
    MaxFrags = 4
    Cap = 1
    CtrlLimit = 2
    MaxMsgs = 3
    MaxAttempts = 5
    Scripts <- TalkOrRekey
    InterruptedScripts <- Stress
    CScripts <- CTalkOrRekey
    CInterruptedScripts <- CStress
INVARIANTS
    CTypeOK
    StaysUp
    FragmentsInOrder
PROPERTIES
    ImplementsChannel
    EveryMessageArrives
CHECK_DEADLOCK FALSE
