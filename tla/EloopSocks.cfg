SPECIFICATION FairSpec
CONSTANTS
    Socks = {0, 1}
    Types = {"read", "write"}
    Duplicates = FALSE
    CallsInHandlers = TRUE
    SockAllocMayFail = TRUE
    MaxTable = 2
INVARIANT TablesInv
PROPERTIES DispatchIsExact EventServed
