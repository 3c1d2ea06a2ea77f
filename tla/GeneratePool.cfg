CONSTANTS
    Lists <- SomeLists
    MaxCpus = 3
    MaxGiB = 13
    MaxEnv = 2
SPECIFICATION FairSpec
INVARIANTS
    HeldOnce
    FitsMemory
    OutcomeIsHonest
PROPERTIES
    Ends
CHECK_DEADLOCK FALSE
