SPECIFICATION SharingSpec
CONSTANTS
    p1 = p1
    p2 = p2
    p3 = p3
    l1 = l1
    l2 = l2
    t1 = t1
    t2 = t2
    d1 = d1
    d2 = d2
    w1 = w1
    w2 = w2
    Pipe = {p1, p2, p3}
    NoPipe = NoPipe
    CallBudget = 2
    Lookup = {l1, l2}
    Tenant = {t1, t2}
    Doc = {d1, d2}
    TTL = 2
    LastTime = 2
    Worker = {w1, w2}
    Artifact = {1, 2}
    Nobody = Nobody
    Promotions = 1
    Restarts = 1
INVARIANTS SharingTypeOK ChargedOnce AloneIsExact EvidenceIsOnesOwn DocumentsAreConsidered ReadOnce
SYMMETRY Interchangeable
CHECK_DEADLOCK FALSE
