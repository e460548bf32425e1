SPECIFICATION TokenSpec
CONSTANTS
    nullopt = nullopt
    Chars <- MCChars
    Literals <- MCLiterals
    Limits = {3}
    MaxText = 40
    Tokens <- MCTokens
    MaxTokens <- MCMaxTokens
INVARIANTS
    AcceptedExactly
    BufferIsFresh
PROPERTIES
    OpenContainersGrow
CHECK_DEADLOCK FALSE
