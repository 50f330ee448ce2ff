\* A client resets between epoll_wait and the read or write of its event.
SPECIFICATION EpollSpec
CONSTANTS
    c1 = c1
    c2 = c2
    Listener = Listener
    Conns <- MCConns
    MaxSent = 2
    RcvCap = 2
    SndCap = 1
    SndLow = 0
    BufSize = 2
    Responsive <- MCResponsive
INVARIANTS
    AssertionsHold
CHECK_DEADLOCK FALSE
