CONSTANTS
    MaxConns = 3
    MaxBytes = 2
    MaxQueue = 1
    IoSize = 1
    MaxRecv = 1
SPECIFICATION Spec
INVARIANTS MgrInv EchoesAll EventsOrdered
CHECK_DEADLOCK FALSE
PROPERTY Resolves
