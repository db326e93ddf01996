\* The operations that lock, under fairness, without symmetry.
CONSTANTS
    Requests = {r1, r2, r3}
    s1 = s1
    p1 = p1
    i1 = i1
    c1 = c1
    SeedSuppliers = {s1}
    SeedProducts <- MCProducts
    SeedImages <- MCImages
    Categories = {c1}
    Quantities = {0, 1, 2}
    Asked <- LockingOps
    MaxConns = 2
    None = None
SPECIFICATION FairSpec
\* The system has stopped when every request has its answer.
CHECK_DEADLOCK FALSE
PROPERTY EveryRequestEnds
