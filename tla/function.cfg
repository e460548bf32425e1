SPECIFICATION FunctionSpec
CONSTANTS
    nullopt = nullopt
    Chars <- MCChars
    Literals <- MCLiterals
    Limits = {3}
    MaxText = 7
    DefaultMaxLevels = 3
    Requests = {1, nullopt}
INVARIANTS
    ReturnsDocument
CHECK_DEADLOCK FALSE
