SPECIFICATION CSpec
CONSTANTS
    W = 3
    MaxFrags = 2
    BufferCap = 2
    CtrlLimit = 1
    MaxMsgs = 3
    MaxAttempts = 2
    Scripts <- Talk
    TimelyScripts <- SendAroundRekey
    InterruptedScripts <- Stress
    CScripts <- CTalk
    CTimelyScripts <- QuietRekey
INVARIANTS
    CTypeOK
    PythonAckedNotLost
    CAckedNotLost
    DeliveredOnce
PROPERTY
    ImplementsChannel
CHECK_DEADLOCK FALSE
