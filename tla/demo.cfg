SPECIFICATION RunSpec
CONSTANTS
    nullopt = nullopt
    Chars <- MCChars
    Literals <- MCLiterals
    Code <- MCCode
    Values <- MCValues
    Height <- Depth
    Limits = {2}
    DefaultMaxLevels = 2
    MaxText = 200
    BufferSize = 3
    MaxErrors = 1
    Trees <- MCTrees
    Pads <- MCPads
    Cuts = 2
INVARIANTS
    ErrorsRepeatCharacters
    ParsedIsWritable
    HasLayout
    ReadsTheDocument
    OutputReadsBack
    EveryDocumentIsRead
PROPERTIES
    ImplementsCopy
    EveryRunEnds
CHECK_DEADLOCK FALSE
