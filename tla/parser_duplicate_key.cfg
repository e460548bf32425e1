SPECIFICATION TokenSpec
CONSTANTS
    nullopt = nullopt
    Chars <- MCChars
    Literals <- MCLiterals
    Limits = {3}
    MaxText = 40
    Tokens <- MCTokens
    MaxTokens <- MCMaxTokens
INVARIANTS
    DuplicateKeysReported
CHECK_DEADLOCK FALSE
