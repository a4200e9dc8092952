SPECIFICATION Spec
CONSTANTS
    NUL = NUL
    Chars <- MCChars
    DelimBegin <- MCBegin
    DelimEnd <- MCEnd
    Inputs <- MCInputs
    MaxPieces = 5
    STRVAL_INITIAL_BUFSIZE = 2
INVARIANTS
    BufferHolds
    StaysInside
    EoiIsLast
    TextIsMaximal
    NothingLost
    LinesAreCounted
    NoDelimiterInText
