\* Two readers, one of whom asks for a product by an id that is no UUID.
CONSTANTS
    Requests = {r1, r2}
    Keys = {k1}
    Fingerprints <- FewOps
    Lease = 1
    TTL = 1
    s1 = s1
    p1 = p1
    bad = bad
    SeedSuppliers = {s1}
    SeedProducts <- MCProducts
    SeedImages <- MCImages
    None = None
SPECIFICATION ApiSpec
INVARIANT DeclaredStatuses
