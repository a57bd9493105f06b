SPECIFICATION AlignedSpec
CONSTANTS
    Packets = {p1, p2, p3, p4}
    WRIVCNT = 2
    Size <- MCSize
    Batches <- MCBatches
INVARIANTS
    SentInOrder
PROPERTIES
    ImplementsStream
CHECK_DEADLOCK FALSE
