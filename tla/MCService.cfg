\* Two requests on two connections, with one key or two.
CONSTANTS
    Requests = {r1, r2}
    Keys = {k1, k2}
    Fingerprints <- MCOps
    Lease = 1
    TTL = 1
    s1 = s1
    p1 = p1
    c1 = c1
    SeedSuppliers = {s1}
    SeedProducts <- MCProducts
    SeedImages <- MCImages
    Categories = {c1}
    Quantities = {0, 1, 2}
    MaxConns = 2
    None = None
SPECIFICATION ServiceSpec
SYMMETRY Symmetry
INVARIANT ChargedPerKey
PROPERTY ImplementsApi
INVARIANT StatusSettlesTheKey
PROPERTY ImplementsLayer
