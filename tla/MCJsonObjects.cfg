SPECIFICATION Spec
CONSTANTS
    NUL = NUL
    JUNK = JUNK
    NULL = NULL
    Digits <- MCDigits
    Letters <- MCLetters
    WordStarts <- MCWordStarts
    UninitTypes = {"NONE"}
    Texts <- MCTexts
    MaxAny = 3
    MaxValue = 3
    MaxNested = 1
INVARIANT
    ObjectsAreRead
