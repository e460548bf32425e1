SPECIFICATION ReuseTokenSpec
CONSTANTS
    nullopt = nullopt
    Chars <- MCChars
    Literals <- MCLiterals
    Limits = {2}
    MaxText = 40
    Tokens <- ReuseTokens
    MaxTokens <- ReuseMaxTokens
INVARIANTS
    WithinMaxLevels
    PositionSkipsResults
    UndefinedNeedsADelivery
    RootIsLastDelivered
PROPERTIES
    OpenContainersGrow
CHECK_DEADLOCK FALSE
