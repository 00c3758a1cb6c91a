SPECIFICATION FairSpec
CONSTANTS
    d = d
    s = s
    t = t
    Servers = {d, s, t}
    Default = d
    RefLists <- MCLists
    Versions = {3}
    HopLimit = 5
    MaxMsgid = 10
    MaxRoots = 1
    MaxRefs = 2
    MaxFaults = 0
PROPERTY ReferralsEnd
CHECK_DEADLOCK FALSE
