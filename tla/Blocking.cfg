\* A read gives more than a send buffer takes, so that a write is partial, or
\* blocks half-way.  A client of the threaded server that does not read.
SPECIFICATION MCFairSpec
CONSTANTS
    c1 = c1
    c2 = c2
    Listener = Listener
    Conns <- MCConns
    MaxSent = 2
    RcvCap = 2
    SndCap = 1
    SndLow = 0
    BufSize = 2
    Responsive <- MCResponsive
INVARIANTS
    OwnSocket
    TypesOK
    EchoPromised
PROPERTIES
    ImplementsEchoService
    ThreadServes
    AllEchoed
CHECK_DEADLOCK FALSE
