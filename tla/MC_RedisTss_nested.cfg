\* One thread opens a kThreadSpecific scope inside another.
CONSTANTS
    t1 = t1
    t2 = t2
    t3 = t3
    c1 = c1
    c2 = c2
    c3 = c3
    c4 = c4
    NULL = NULL
    Threads = {t1, t2, t3}
    Clients = {c1, c2, c3, c4}
    PoolSize = 2
    NestedScopes = TRUE
    SlotAtTeardown = FALSE
SYMMETRY Symmetry
SPECIFICATION Spec
INVARIANT OwnershipExclusive
