SPECIFICATION Spec
CONSTANTS
    a = a
    b = b
    c = c
    d = d
    e = e
    r = r
    q = q
    Packets = {a, c, d, r, q}
    Input <- InputOne
    Drop <- DropInject
    Pre <- PreInject
    Post <- PostInject
    Dir <- DirOf
    Delayed = {r}
    WRIVCNT = 1
    SNDBUF = 1
INVARIANTS
    TypeOK
    NoLostWakeup
    OneHolder
    HalfCloseLast
PROPERTIES
    OrphanedByTimerOnly
CHECK_DEADLOCK FALSE
