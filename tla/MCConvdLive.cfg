SPECIFICATION FairSpec
CONSTANTS
    t1 = t1
    t2 = t2
    t3 = t3
    a = a
    b = b
    NoThread = NoThread
    Thread = {t1, t2}
    Handle = {h1, h2}
    Unit = {a, b}
    Mode = {plain, translit}
    Input <- TwoTexts
    Room = {1, 2}
PROPERTIES
    ImplementsAbs
    LockReleased
    EventuallyFreed
CHECK_DEADLOCK TRUE
