CONSTANTS
    Base = Base
    hive = hive
    spark = spark
    Dialects = {hive, spark}
    Parent <- HiveAndSpark
    PARENTS <- TheTable
    Targets = {spark}
    Edited <- BaseEntry
    Environments <- NothingElse
    None = None
    CutShort = CutShort
    MaxVersion <- OneEdit
SPECIFICATION Spec
INVARIANTS
    FreshWhenSkipped
CHECK_DEADLOCK FALSE
