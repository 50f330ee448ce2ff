\* A worker more than main creates, so that two may spin, and rounds enough
\* to spin on a lock taken before and for one thread's first plain store to
\* undo all but the last rounds of the other.  Sizes that are a multiple of
\* the number of threads, and sizes that are not.  The turns of condvar.c.
SPECIFICATION MCFairSpec
CONSTANTS
    w1 = w1
    w2 = w2
    w3 = w3
    Workers <- MCWorkers
    Rounds = 3
    MaxSize = 6
    MaxThreads = 3
    Turns = 10
INVARIANTS
    MutualExclusion
    CounterExact
    NeverBothZero
    CountsBounded
    EachOnce
    Alternating
    NoLostWakeup
PROPERTIES
    WorkersEnd
    PlayersEnd
