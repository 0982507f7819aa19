SPECIFICATION FairSpec
CONSTANTS
    Producers = {p1, p2}
    RingSize = 2
    Wrap = 3
    None = None
INVARIANTS Conserved AttemptInv
PROPERTIES InterruptEnds RoomIsSent
CHECK_DEADLOCK FALSE
