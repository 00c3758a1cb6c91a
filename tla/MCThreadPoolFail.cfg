CONSTANTS
    Clients = {c1, c2}
    Workers = {w1, w2, w3}
    Tasks = {k1, k2, k3}
    Ctxs = {a1, a2, a3}
    MaxPending = 2
    Limits = {0, 1, 2}
    CreateMayFail = TRUE
    EventCond = FALSE
    None = None
SYMMETRY Symmetry
SPECIFICATION Spec
INVARIANTS CountsExact NoIdleBacklog FreedUnused
