\* Four clients at the start, three more to come, pages of one or two.  The
\* greatest offset is reached by a walk that creations keep going.
CONSTANTS
    n1 = n1
    n2 = n2
    s1 = s1
    Ids <- MCIds
    Seed <- MCSeed
    NameOf <- MCNameOf
    Asked <- MCAsked
    MaxInt32 = 5
    Text = Text
    None = None
SPECIFICATION Spec
INVARIANTS
    MissedAreDeletions
    RepeatsAreCreations
CHECK_DEADLOCK FALSE
