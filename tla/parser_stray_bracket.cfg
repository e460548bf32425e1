SPECIFICATION Spec
CONSTANTS
    nullopt = nullopt
    Chars <- StructureChars
    Literals <- MCLiterals
    Limits = {0, 2, nullopt}
    MaxText = 7
INVARIANTS
    NoTopLevelNodeReported
CHECK_DEADLOCK FALSE
