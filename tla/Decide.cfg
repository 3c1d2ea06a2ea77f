CONSTANTS
    Base = Base
    Dialects = {d1, d2, d3}
    MaxChanged = 2
SPECIFICATION DecideSpec
INVARIANTS
    DecidesSelected
    ReadersAreSelected
    ReadsAreFingerprinted
    SelectedForCause
CHECK_DEADLOCK FALSE
