\* Three requests around a client and a supplier in use, on two connections.
CONSTANTS
    Requests = {r1, r2, r3}
    client = client
    supplier = supplier
    here = here
    there = there
    SeedAddresses <- MCSeed
    Addresses = {here, there}
    InUse = {supplier}
    Asked <- AllOps
    MaxConns = 2
    None = None
SPECIFICATION Spec
SYMMETRY Symmetry
\* The system has stopped when every request has its answer.
CHECK_DEADLOCK FALSE
INVARIANTS
    TypeOK
    NoOrphans
    StatusIsTrue
    NoDeadlock
    OnlyWaitersStop
PROPERTY ImplementsDirectory
