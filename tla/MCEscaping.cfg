SPECIFICATION Spec
CONSTANTS
    NUL = NUL
    Chars <- MCChars
    Strs <- MCStrs
    MaxLength = 4
INVARIANTS
    Fits
    IndexIsEnd
    ReadsBack
