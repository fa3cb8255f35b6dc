SPECIFICATION Spec
CONSTANTS
    W = 2
    MaxFrags = 2
    BufferCap = 2
    CtrlLimit = 1
    MaxMsgs = 3
    Scripts = {}
    TimelyScripts <- LongSendRekeySend
    InterruptedScripts = {}
INVARIANT
    AckedNotLost
CHECK_DEADLOCK FALSE
