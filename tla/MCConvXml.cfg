SPECIFICATION FairSpec
CONSTANTS
    Texts <- Documents
    Weight <- Lengths
    Room = {3, 33, 34, 36, 37, 39, 40, 42, 43, 52, 53, 80, 81, 160, 161}
    BodySize = {0, 2, 44}
    Tocode <- Targets
    HEADBUF = 128
    FILEHEAD = 112
INVARIANTS
    TypeOK
    ParseExact
    ConvertsBehindHead
    OnlyDeclared
    HeadNamesTarget
    ResultIsLength
    FormatThenParse
PROPERTIES
    EventuallyReturns
CHECK_DEADLOCK TRUE
