CONSTANTS
    a = a
    b = b
    long = long
    Word = Word
    NoTag = NoTag
    v1 = v1
    v2 = v2
    Tags = {a, b, long}
    LongTags = {long}
    Versions = {v1}
    Tables <- Databricks
    Texts <- MCTexts
    MaxLeaked = 2
SPECIFICATION Spec
INVARIANTS
    DollarStringsHandled
