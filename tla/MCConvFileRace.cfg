SPECIFICATION Spec
CONSTANTS
    NoFile = NoFile
    Nil = Nil
    Caller = {c1, c2}
    Inode = {i1, i2}
    Files <- RaceFiles
    InOffset = {0}
    HeadLen = {0, 1}
    LineSizeMax = {3}
    Faults = {"write", "iconv"}
    Convertible <- Utf8
SYMMETRY Symmetry
INVARIANTS
    Released
    Faithful
CHECK_DEADLOCK TRUE
