\* A process, its signal and one request.
CONSTANTS
    Requests = {r1}
    None = None
SPECIFICATION Spec
\* The process exits.
CHECK_DEADLOCK FALSE
INVARIANT CommitsAreStored
