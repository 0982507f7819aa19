SPECIFICATION FairSpec
CONSTANTS
    Sigs = {hup, term}
    TermSigs = {term}
    ReallocMoves = {FALSE}
    MaxEntries = 3
    MaxRaise = 4
INVARIANTS SignalInv OwedTerminateIsTimed
 
CHECK_DEADLOCK FALSE
