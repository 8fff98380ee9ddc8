SPECIFICATION Spec
CONSTANTS
    Char <- PathChars
    Str <- Texts
    MaxSz <- Sizes
    MAXLEN = 5
    BLOCK = 2
    NUL = "NUL"
    Junk = "Junk"
    Null = Null
    SEP = "/"
    NAME <- FileName
    Path <- Paths
    Exe <- Programs
    Files <- FileSets
INVARIANTS
    BufTypeOK
    OnlyWritten
    NothingLeaks
    FirstPlaceWins
PROPERTIES
    TerminatesText
    ImplementsText
CHECK_DEADLOCK TRUE
