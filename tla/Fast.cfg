\* A buffer of two bytes over a send buffer of one: partial writes, and a send
\* buffer that fills up.  c1 keeps reading, c2 need not.
SPECIFICATION FairSpec
CONSTANTS
    c1 = c1
    c2 = c2
    Listener = Listener
    Conns <- MCConns
    MaxSent = 2
    RcvCap = 2
    SndCap = 1
    SndLow = 0
    BufSize = 2
    Responsive <- MCResponsive
INVARIANTS
    StreamIntact
    ReadIntoEmptyBuffer
    NoUseAfterFree
    NoLostEdge
    CleanClose
PROPERTIES
    ImplementsEchoService
    Echoed
    NoDescriptorLeak
CHECK_DEADLOCK FALSE
