SPECIFICATION Spec
CONSTANTS
    i = i
    j = j
    k = k
    seen = seen
    add = add
    swap = swap
    bad = bad
    hello = hello
    shout = shout
    Packets = {seen, add, swap, bad, hello, shout}
    Items = {i, j, k}
    Kind <- MCKind
    ItemOf <- MCItemOf
    Words <- MCWords
    Named <- MCNamed
    Unreadable = {"junk"}
INVARIANTS
    RefsMatch
PROPERTIES
    ImplementsFiltering
CHECK_DEADLOCK FALSE
