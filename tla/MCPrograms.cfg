SPECIFICATION MCSpec
CONSTANTS
    NULL = NULL
    Threads = {t1, t2}
    FileSize = 3
    Sizes = {1, 3}
    MaxLines = 5
    MaxKills = 1
    Names = {globe}
    Types = {system, other}
    Options = {agent}
    Values = {v, w}
    Anonymous = {cfg1}
    NewValue = v
    MaxSections = 3
    Clients = {c1, c2, c3}
    MaxFrames = 2
    MaxMsg = 2
    Empty = Empty
    Capacity = 3
    MaxRecord = 2
    Writers = {"server"}
    Writes = {1, 2}
    Reads = {1, 2}
    MaxData = 3
    Duplex = FALSE
INVARIANT StreamSound
   
CHECK_DEADLOCK FALSE
