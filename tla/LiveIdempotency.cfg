\* A request and its retry that compete for one key, under fairness.  The lease
\* can be half over when the retry comes, and the key can outlive it.
CONSTANTS
    Requests = {r1, r2}
    Keys = {k1}
    Fingerprints = {h1}
    Lease = 2
    TTL = 3
    None = None
SPECIFICATION FairSpec
PROPERTY EveryRequestAnswered
