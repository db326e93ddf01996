\* Two requests on one key, with one payload or two; Redis
\* may crash at any time and any number of times.
CONSTANTS
    Requests = {r1, r2}
    Keys = {k1}
    Fingerprints = {h1, h2}
    Lease = 2
    TTL = 3
    None = None
SPECIFICATION DurableSpec
SYMMETRY Symmetry
INVARIANTS
    DurableTypeOK
    SyncedAnswersSurvive
    OneStartUnlessLapsed
PROPERTY ImplementsRegister
