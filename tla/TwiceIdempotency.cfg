\* A request and its retry.  TTL is longer than the trace that refutes the
\* property needs, so that it is a lease that runs out, and not the key.
CONSTANTS
    Requests = {r1, r2}
    Keys = {k1}
    Fingerprints = {h1}
    Lease = 1
    TTL = 4
    None = None
SPECIFICATION Spec
INVARIANT NeverExecutedTwice
