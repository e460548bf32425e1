SPECIFICATION FunctionSpec
CONSTANTS
    nullopt = nullopt
    Literals <- MCLiterals
    Code <- MCCode
    Roots <- ManyRoots
    Values <- ManyValues
    Height <- Depth
    Sizes = {}
    BufferSizes = {1, 2, 5, 13, 60}
INVARIANTS
    ReturnsBlocks
PROPERTIES
    EveryCallEnds
CHECK_DEADLOCK FALSE
