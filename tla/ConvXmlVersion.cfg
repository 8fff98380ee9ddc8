SPECIFICATION Spec
CONSTANTS
    Texts <- Documents
    Weight <- Lengths
    Room = {80}
    BodySize = {0, 2, 44}
    Tocode <- Targets
    HEADBUF = 128
    FILEHEAD = 112
INVARIANTS
    MembersSet
CHECK_DEADLOCK TRUE
