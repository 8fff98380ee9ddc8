SPECIFICATION Spec
CONSTANTS
    Upper <- UpperCase
    Lower <- LowerCase
    Code <- Codes
    Space <- Spaces
    WORD = 32
    NUL = "NUL"
    Null = Null
    WEST = 12600
    MS = 3
    NS = 2
    ULONG = 1024
    MaxText = 5
    MaxNumber = 4
    MaxFile = 4
    MaxWord = 8
    MaxOptions = 5
    CVD_ENCODING_LEN_MAX = 9
    EMERGLOG_MSGLEN = 3
    LastYear = 2102
INVARIANTS
    PartsComplete
    ReplacesAll
    SearchesAgree
    ComparesInOrder
    NumbersAgree
    BuffersHold
    CommandRuns
    WireExact
    ClockAgrees
    StampsRoundTrip
CHECK_DEADLOCK FALSE
