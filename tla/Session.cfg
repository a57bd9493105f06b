SPECIFICATION AlignedFairSpec
CONSTANTS
    a = a
    b = b
    c = c
    d = d
    e = e
    r = r
    q = q
    Packets = {a, b, c, d, e, r}
    Input <- InputBoth
    Drop <- DropInject
    Pre <- Nothing
    Post <- PostInject
    Dir <- DirOf
    Delayed = {}
    WRIVCNT = 4
    SNDBUF = 1
INVARIANTS
    NoOrphan
PROPERTIES
    ImplementsRelay
    Delivered
    EndsInTheEnd
CHECK_DEADLOCK FALSE
