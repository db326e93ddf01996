\* A process, its signal and two requests, under fairness.
CONSTANTS
    Requests = {r1, r2}
    None = None
SPECIFICATION FairSpec
\* The process exits.
CHECK_DEADLOCK FALSE
INVARIANTS
    TypeOK
    CleanExit
    ReportKept
PROPERTIES
    NoTransactionCut
    SignalEnds
