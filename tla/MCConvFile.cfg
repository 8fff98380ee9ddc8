SPECIFICATION FairSpec
CONSTANTS
    NoFile = NoFile
    Nil = Nil
    Caller = {c1}
    Inode = {i1}
    Files <- AllFiles
    InOffset = {0, 2}
    HeadLen = {0, 2}
    LineSizeMax <- SomeLineSizes
    Faults <- AnyFault
    Convertible <- Utf8
INVARIANTS
    TypeOK
    CompleteWhenRoomy
    ChunksConvertible
PROPERTIES
    Terminates
CHECK_DEADLOCK TRUE
