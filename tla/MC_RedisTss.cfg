\* Three threads, four clients, a pool of two: the pool fills and put deletes.
CONSTANTS
    t1 = t1
    t2 = t2
    t3 = t3
    c1 = c1
    c2 = c2
    c3 = c3
    c4 = c4
    NULL = NULL
    Threads = {t1, t2, t3}
    Clients = {c1, c2, c3, c4}
    PoolSize = 2
    NestedScopes = FALSE
    SlotAtTeardown = FALSE
SYMMETRY Symmetry
SPECIFICATION Spec
INVARIANTS TypeOK OwnershipExclusive
