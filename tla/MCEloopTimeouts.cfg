SPECIFICATION Spec
CONSTANTS
    USEC = 2
    IntMax = 3
    Handlers = {h1}
    EloopData = {e1, e2}
    UserData = {u1}
    AllCtx = allctx
    Delays <- SmallDelays
    AllocMayFail = FALSE
    MaxRegs = 4
    MaxSec = 2
INVARIANT OrderInv
PROPERTIES FiresEarliestDue CallsAsDocumented
SYMMETRY Symmetry
CHECK_DEADLOCK FALSE
