SPECIFICATION Spec
CONSTANTS
    NULL = NULL
    Values <- MCValues
    Dots <- MCDots
    Data <- MCData
    Garbage <- MCGarbage
    Parsed <- MCParsed
    Jobs <- MCJobs
    UninitIndexes <- MCUninitIndexes
    MaxOut = 5
    MaxStack = 5
    MaxDepth = 2
    MaxAny = 3
    MaxNested = 5
INVARIANTS
    TypeOK
    Aligned
    IndexesSaved
PROPERTIES
    DataIsKept
