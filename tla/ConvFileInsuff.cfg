SPECIFICATION Spec
CONSTANTS
    NoFile = NoFile
    Nil = Nil
    Caller = {c1}
    Inode = {i1}
    Files <- LongLine
    InOffset = {0}
    HeadLen = {0}
    LineSizeMax = {5}
    Faults = {}
    Convertible <- Anything
INVARIANTS
    CompleteOnSuccess
CHECK_DEADLOCK TRUE
