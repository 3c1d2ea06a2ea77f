CONSTANTS
    Base = Base
    Dialects = {d1, d2, d3, d4}
SPECIFICATION FairSpec
INVARIANTS
    LeastClosed
    AgreesWithAncestors
PROPERTIES
    Terminates
CHECK_DEADLOCK FALSE
