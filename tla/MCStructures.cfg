SPECIFICATION MCSpec
CONSTANTS
    Heads = {h1, h2}
    Items = {a, b, c}
    NULL = NULL
    None = None
    POISON = POISON
    k1 = k1
    k2 = k2
    k3 = k3
    k4 = k4
    Values = {v, w}
    STARTING_CAPACITY = 4
    MaxCapacity = 8
    Clears = FALSE
    OBJECT_INVALID_IX = OBJECT_INVALID_IX
    Keys = {x, y}
    MaxValues = 4
    MaxPath = 2
    MaxHeld = 2
VIEW View
SYMMETRY Symmetry
INVARIANTS LinksAgree 
PROPERTIES SafeLoopVisitsAll StructuresImplemented 
CHECK_DEADLOCK FALSE
