SPECIFICATION Spec
CONSTANTS
    NoFile = NoFile
    Nil = Nil
    Caller = {c1}
    Inode = {i1}
    Files <- ShortLines
    InOffset = {0}
    HeadLen = {0}
    LineSizeMax = {3}
    Faults = {}
    Convertible <- Anything
INVARIANTS
    InsufficientMeansLongLine
CHECK_DEADLOCK TRUE
