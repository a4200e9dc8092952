SPECIFICATION Spec
CONSTANTS
    Argvs <- MCArgvs
    DELIM_BEGIN = "{{"
    DELIM_END = "}}"
    IN_BUF_SIZE_DEFAULT = 4
    IN_BUF_SIZE_MAX = 32
    DEFAULT_BUF_SIZE = 4
    MaxChars = 18
    MaxOptions = 3
    NONE = NONE
INVARIANTS
    StaysInBuffer
    FreesWhatItHolds
    NothingLeaks
