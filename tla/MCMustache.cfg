SPECIFICATION Spec
CONSTANTS
    NULL = NULL
    Values <- MCValues
    Dots <- MCDots
    Data <- MCData
    Garbage <- MCGarbage
    Parsed <- MCParsed
    Jobs <- RegularJobs
    UninitIndexes <- MCUninitIndexes
    MaxOut = 20
    MaxStack = 20
    MaxDepth = 2
INVARIANTS
    RendersAsDocumented
PROPERTIES
    Terminates
