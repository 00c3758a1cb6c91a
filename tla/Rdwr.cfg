CONSTANTS
    Threads = {t1, t2, t3, t4}
    EventCond = FALSE
SPECIFICATION FairSpec
INVARIANTS CountsExact NoneForgotten DestroyedUnused
PROPERTIES LockSpec EveryWaiterServed
