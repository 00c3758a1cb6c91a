CONSTANTS
    Clients = {c1}
    Workers = {w1, w2}
    Tasks = {k1, k2, k3}
    Ctxs = {a1, a2, a3}
    MaxPending = 0
    Limits = {1, 2}
    CreateMayFail = FALSE
    EventCond = FALSE
    None = None
SPECIFICATION FairSpec
PROPERTIES QueueSpec EveryTaskEnds DestroyEnds
