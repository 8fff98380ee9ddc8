SPECIFICATION Spec
CONSTANTS
    t1 = t1
    t2 = t2
    t3 = t3
    a = a
    b = b
    NoThread = NoThread
    Thread = {t1, t2, t3}
    Handle = {h1, h2, h3}
    Unit = {a, b}
    Mode = {plain, translit}
    Input <- TwoTexts
    Room = {1, 2}
SYMMETRY Symmetry
INVARIANTS
    TypeOK
    RefcExact
    NoUseAfterFree
    DestroyedOnce
    Isolation
    ConvCorrect
PROPERTIES
    CdLifecycle
CHECK_DEADLOCK TRUE
