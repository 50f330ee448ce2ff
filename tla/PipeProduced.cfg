\* Forks that fail and painters that are killed are enough for an EPIPE.
SPECIFICATION MCSpec
CONSTANTS
    Painters = 2
    Limit = 4
    Capacity = 2
INVARIANT ProducedTrue
CHECK_DEADLOCK FALSE
