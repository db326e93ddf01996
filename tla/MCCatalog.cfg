\* Three requests around one supplier with one product, on two connections.
CONSTANTS
    Requests = {r1, r2, r3}
    s1 = s1
    p1 = p1
    i1 = i1
    c1 = c1
    SeedSuppliers = {s1}
    SeedProducts <- MCProducts
    SeedImages <- MCImages
    Categories = {c1}
    Quantities = {0, 1, 2}
    Asked <- AllOps
    MaxConns = 2
    None = None
SPECIFICATION Spec
SYMMETRY Symmetry
\* The system has stopped when every request has its answer.
CHECK_DEADLOCK FALSE
INVARIANTS
    TypeOK
    ReferentialIntegrity
    StockDecisionHolds
    StockAccounted
    TriesMakeOneImage
    NoDeadlock
    OnlyWaitersStop
PROPERTIES
    ImplementsShop
    StockMovesByDecreases
