SPECIFICATION FairSpec
CONSTANTS
    Contexts = {c1, c2}
    Messages = {m1, m2}
    Sketches <- MCSketches
    BackoffCap = 2
    KeepAlive = 2
    Timeout = 3
    InboxCap = 2
    None = None
INVARIANTS CallbacksAgree SessionUsable ContextsOwned MessagesKept WatchdogSpares
PROPERTIES LossNoticed ComesBack
