CONSTANTS
    Base = Base
    hive = hive
    spark = spark
    Dialects = {hive, spark}
    Parent <- HiveAndSpark
    PARENTS <- TheTable
    Targets = {spark}
    Edited <- TwoFiles
    Environments <- AllKinds
    None = None
    CutShort = CutShort
    MaxVersion <- Bounds
SPECIFICATION Spec
INVARIANTS
    TypeOK
    FreshWhenSkipped
    GrammarJsonIsGenerated
CHECK_DEADLOCK FALSE
