\* Two painters, so that one may die, and more numbers than the pipe takes.
SPECIFICATION MCFairSpec
CONSTANTS
    Painters = 2
    Limit = 4
    Capacity = 2
INVARIANTS
    NumbersAccounted
    PeersGone
PROPERTIES
    GeneratorEnds
    PaintersLeave
    NumbersPainted
CHECK_DEADLOCK FALSE
