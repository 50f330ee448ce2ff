\* A buffer smaller than the receive queue, room for a write when writable.
SPECIFICATION FairSpec
CONSTANTS
    c1 = c1
    c2 = c2
    Listener = Listener
    Conns <- MCConns
    MaxSent = 2
    RcvCap = 2
    SndCap = 2
    SndLow = 1
    BufSize = 1
    Responsive <- MCResponsive
INVARIANTS
    EventsStillTrue
PROPERTIES
    ImplementsEchoService
    Echoed
CHECK_DEADLOCK FALSE
