SPECIFICATION Spec
CONSTANTS
    MaxFrags = 4
    Cap = 1
    CtrlLimit = 2
    MaxMsgs = 3
    Scripts <- BusyRekey
    InterruptedScripts = {}
INVARIANT
    StaysUp
CHECK_DEADLOCK FALSE
