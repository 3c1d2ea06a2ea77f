CONSTANTS
    Base = Base
    hive = hive
    spark = spark
    p1 = p1
    p2 = p2
    Dialects = {hive, spark}
    Parent <- HiveAndSpark
    Files <- ScannerFiles
    Contents = {"old", "new"}
    FirstTree <- AllOld
    GoodInputs <- ConflictingPairs
    PRs = {p1, p2}
    Group <- OneGroup
    MayBeLost = {}
    MaxChanged = 1
    MaxPushes = 2
SPECIFICATION Spec
INVARIANTS
    MarkersSound
CHECK_DEADLOCK FALSE
