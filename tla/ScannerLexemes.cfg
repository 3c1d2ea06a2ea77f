SPECIFICATION Spec
CONSTANTS
    DollarChars = {36, 32, 97, 353, 256}
    MaxDollarText = 6
    CallChars = {40, 41, 39, 105, 110, 59, 32}
    MaxCallText = 6
    MaxScanned = 3
INVARIANTS
    StringIsExact
    CallAnswered
    ScanIsLinear
PROPERTIES
    AnswersAsLexed
