SPECIFICATION Spec
CONSTANTS
    NoFile = NoFile
    Nil = Nil
    Caller = {c1}
    Inode = {i1}
    Files <- ShortLines
    InOffset = {0}
    HeadLen = {0}
    LineSizeMax = {9}
    Faults = {"create"}
    Convertible <- Anything
PROPERTIES
    NoErrorMeansConverted
CHECK_DEADLOCK TRUE
