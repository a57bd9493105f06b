SPECIFICATION Spec
CONSTANTS
    Packets = {p1, p2, p3, p4, p5}
    WRIVCNT = 3
    Size <- MCSize
    Batches <- MCBatches
SYMMETRY MCSymmetry
INVARIANTS
    TypeOK
    WindowInBounds
    NoDanglingIov
    FramesStayWhole
CHECK_DEADLOCK FALSE
