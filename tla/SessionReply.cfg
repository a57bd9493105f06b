SPECIFICATION Spec
CONSTANTS
    a = a
    b = b
    c = c
    d = d
    e = e
    r = r
    q = q
    Packets = {a, c, d, e, r}
    Input <- InputBacklog
    Drop <- DropInject
    Pre <- Nothing
    Post <- PostInject
    Dir <- DirOf
    Delayed = {}
    WRIVCNT = 4
    SNDBUF = 1
INVARIANTS
    SentOnce
CHECK_DEADLOCK FALSE
