SPECIFICATION MCSpec
CONSTANTS
    NULL = NULL
    Documents <- MCDocuments
    Blocks <- MCBlocks
    Lines <- MCLines
    Texts <- MCTexts
    MAX_NESTING = 2
    MaxWords = 4
    MaxPort = 10
    Types = {"response", "both"}
    Initials = {"H", "C", "G"}
    FieldNames = {"con", "nection", "tent-length", "transfer-", "encoding"}
    FieldValues = {"1", "chun", "ked", "keep-", "alive", ","}
    Dec = 2
    Hex = 3
    Most = 1
    NoBody = {1}
    ULLONG_MAX = 7
    MaxHeader = 13
INVARIANTS RequestsAreRead SplitInvariant ToldInOrder 
           MessagesSurviveCuts 
CHECK_DEADLOCK FALSE
