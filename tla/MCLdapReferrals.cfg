SPECIFICATION FairSpec
CONSTANTS
    d = d
    s = s
    t = t
    Servers = {d, s, t}
    Default = d
    RefLists <- MCLists
    Versions = {2, 3}
    HopLimit = 2
    MaxMsgid = 10
    MaxRoots = 2
    MaxRefs = 2
    MaxFaults = 1
INVARIANTS CountExact TreeHeld ConnsHeld NoneForgotten OneFinal
PROPERTIES OperationsEnd
CHECK_DEADLOCK FALSE
