SPECIFICATION Spec
CONSTANTS
    NUL = NUL
    JUNK = JUNK
    NULL = NULL
    Digits <- MCDigits
    Letters <- MCLetters
    WordStarts <- MCWordStarts
    UninitTypes = {"NONE", "STRING"}
    Texts <- MCTexts
    MaxAny = 3
    MaxValue = 3
    MaxNested = 5
INVARIANTS
    TypeOK
    KeptOrDestroyed
    SupportedIsRead
    IsRead
PROPERTIES
    Ends
