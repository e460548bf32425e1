SPECIFICATION DocumentSpec
CONSTANTS
    nullopt = nullopt
    Literals <- MCLiterals
    Code <- MCCode
    Roots <- ManyRoots
    Values <- ManyValues
    Height <- Depth
    Sizes = {0, 1, 2, 5, 60}
INVARIANTS
    TypeOK
    OnlyTheEndCanBeLost
    WritesTheDocument
PROPERTIES
    ImplementsProtocol
    EveryDocumentIsWritten
CHECK_DEADLOCK FALSE
