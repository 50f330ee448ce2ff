\* A user who types less than asked for leaves the program in its read.
SPECIFICATION MCFairSpec
CONSTANTS
    Length = 1
    BufSize = 2
    Meddling = 0
    MaxInput = 2
    OutCap = 1
PROPERTY SigintChecked
CHECK_DEADLOCK FALSE
