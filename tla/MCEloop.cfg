SPECIFICATION FairSpec
CONSTANTS
    USEC = 2
    IntMax = 3
    Handlers = {h1}
    EloopData = {e1}
    UserData = {u1}
    AllCtx = allctx
    Delays <- MixedDelays
    AllocMayFail = FALSE
    MaxRegs = 2
    MaxSec = 1
    Sigs = {term}
    TermSigs = {term}
    ReallocMoves = {FALSE}
    MaxEntries = 1
    MaxRaise = 1
    Socks = {0}
    Types = {"read"}
    Duplicates = FALSE
    CallsInHandlers = FALSE
    SockAllocMayFail = FALSE
    MaxTable = 1
    MaxRuns = 1
INVARIANT LoopInv
PROPERTIES  TimeoutServed 
CHECK_DEADLOCK FALSE
