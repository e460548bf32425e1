SPECIFICATION LiveSpec
CONSTANTS
    nullopt = nullopt
    Literals <- MCLiterals
    Addresses <- MCAddresses
    KeyCount = 3
    Heaps <- MCHeaps
    Root = 1
    MaxChanges = 3
INVARIANTS
    OwnedOnce
    StackIsAPath
    UndefinedOnlyIfTampered
    WritesWhatIsDue
CHECK_DEADLOCK FALSE
