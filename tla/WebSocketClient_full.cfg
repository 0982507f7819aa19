SPECIFICATION FairSpec
CONSTANTS
    Producers = {p1, p2}
    RingSize = 2
    Wrap = 3
    None = None

PROPERTY RingIsSent
CHECK_DEADLOCK FALSE
