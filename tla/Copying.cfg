\* A file that two reads take, the second of them short.  More input than a
\* read takes, and more in a read than the output takes.
SPECIFICATION MCFairSpec
CONSTANTS
    Length = 5
    BufSize = 3
    Meddling = 2
    MaxInput = 4
    OutCap = 2
INVARIANTS
    Copied
    NewFileOnly
    CopiedInOrder
PROPERTIES
    SigintEnds
    InputCopied
CHECK_DEADLOCK FALSE
