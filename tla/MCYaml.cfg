SPECIFICATION Spec
CONSTANTS
    NULL = NULL
    Words <- MCWords
    Scalars <- MCScalars
    MaxEvents = 14
INVARIANTS
    TypeOK
    StackIsPath
    IsTree
    IsRead
PROPERTIES
    PointersStay
