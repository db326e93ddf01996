\* Three requests on one key with two payloads: an owner that is still running,
\* a second owner (with the same payload or another) and a reader.  The lease
\* can be half over, and the key can outlive it.
CONSTANTS
    Requests = {r1, r2, r3}
    Keys = {k1}
    Fingerprints = {h1, h2}
    Lease = 2
    TTL = 3
    None = None
SPECIFICATION Spec
SYMMETRY Symmetry
INVARIANTS
    TypeOK
    OnePromisePerKey
    PromiseBacked
    AnswerKept
    AnswerIsGenuine
PROPERTIES
    ImplementsRegister
    LeaseHonoured
