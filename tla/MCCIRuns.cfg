CONSTANTS
    Base = Base
    hive = hive
    spark = spark
    p1 = p1
    p2 = p2
    Dialects = {hive, spark}
    Parent <- HiveAndSpark
    Files <- SomeFiles
    Contents = {"old", "new"}
    FirstTree <- AllOld
    GoodInputs <- ConflictingPairs
    PRs = {p1, p2}
    Group <- OneGroup
    MayBeLost = {}
    MaxChanged = 1
    MaxPushes = 2
SPECIFICATION FairSpec
INVARIANTS
    TypeOK
    MainStaysGood
    MarkersSound
PROPERTIES
    EveryRunEnds
CHECK_DEADLOCK FALSE
