SPECIFICATION DocumentSpec
CONSTANTS
    nullopt = nullopt
    Literals <- MCLiterals
    Code <- MCCode
    Roots <- ManyRoots
    Values <- ManyValues
    Height <- Depth
    Sizes = {13}
INVARIANTS
    BlocksMakeTheDocument
CHECK_DEADLOCK FALSE
