SPECIFICATION Spec
CONSTANTS
    Frames <- MCFrames
    HDR = 4
    BUF = 11
INVARIANTS
    FramesRecovered
    NothingHeldBack
    WritesInBounds
CHECK_DEADLOCK FALSE
