SPECIFICATION Spec
CONSTANTS
    NoFile = NoFile
    Nil = Nil
    Caller = {c1}
    Inode = {i1}
    Files <- GbkLine
    InOffset = {0}
    HeadLen = {0}
    LineSizeMax = {9}
    Faults = {}
    Convertible <- Gbk
INVARIANTS
    ChunksConvertible
CHECK_DEADLOCK TRUE
