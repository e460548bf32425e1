SPECIFICATION Spec
CONSTANTS
    nullopt = nullopt
    Chars <- StructureChars
    Literals <- MCLiterals
    Limits = {0, 2, nullopt}
    MaxText = 7
INVARIANTS
    TypeOK
    StateFitsStack
    WithinMaxLevels
    UndefinedOnlyOnStrayBracket
    PositionMatchesText
    AcceptedExactly
PROPERTIES
    PutBackIsConsumed
    ImplementsProtocol
CHECK_DEADLOCK FALSE
