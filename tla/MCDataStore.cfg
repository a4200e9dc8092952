SPECIFICATION Spec
CONSTANTS
    NULL = NULL
    j = j
    k = k
    Keys <- MCKeys
    NodeIds <- MCNodeIds
    BlockIds <- MCBlockIds
    BUF_SIZE = 1
    MaxHeight = 2
    MaxNodes = 4
    MaxCells = 2
SYMMETRY KeySymmetry
INVARIANTS
    TypeOK
    NothingFreedIsUsed
    CountsAreReferences
    NothingLeaks
    BuffersHold
