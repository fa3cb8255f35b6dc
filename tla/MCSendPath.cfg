SPECIFICATION FairSpec
CONSTANTS
    Tasks = {t1, t2}
    NoTask = NoTask
    MaxSeq = 3
    MaxFrags = 2
    MaxKey = 1
INVARIANTS
    NonceUnique
PROPERTIES
    FragmentsConsecutive
    EveryCallReturns
CHECK_DEADLOCK FALSE
