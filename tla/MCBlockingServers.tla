------------------------- MODULE MCBlockingServers -------------------------
(* The servers whose reads and writes block, ThreadingServer, EpollServer  *)
(* and TcpServer, each from its initial states, over the same two clients. *)
(* The last two share the variables of their one thread.                   *)
EXTENDS ThreadingServer

CONSTANTS c1, c2, Listener

MCConns == {c1, c2}
MCResponsive == {c1}

ASSUME ListenerAssumption == Listener \notin Conns

VARIABLES program,                        \* the server that runs
          at, aborted, events, cur, unsent  \* of the last two

Simple == INSTANCE EpollServer WITH pc <- at, rest <- unsent
Sequential == INSTANCE TcpServer WITH pc <- at, rest <- unsent

loopVars == <<at, aborted, events, cur, unsent>>
mcVars == <<program, vars, loopVars>>

MCInit ==
    /\ Init
    /\ \/ program = "threading_server" /\ Simple!Init /\ cur = c1
       \/ program = "epoll_server" /\ Simple!Init /\ clientSocket = c1
       \/ program = "tcp_server" /\ Sequential!Init /\ clientSocket = c1
              /\ events = Simple!Nothing

Threads(A) ==
    program = "threading_server" /\ A /\ UNCHANGED <<program, loopVars>>
ByEpoll(A) ==
    program = "epoll_server" /\ A /\ UNCHANGED <<program, serverVars>>
InTurn(A) ==
    program = "tcp_server" /\ A /\ UNCHANGED <<program, serverVars>>

Loop ==
    \/ ByEpoll(Simple!Server)
    \/ InTurn(Sequential!Server /\ UNCHANGED events)

MCNext ==
    \/ Threads(Next)
    \/ Loop
    \/ \E c \in Conns :
          ByEpoll(Simple!Client(c)) \/ InTurn(Simple!Client(c))

MCSpec == MCInit /\ [][MCNext]_mcVars

\* epoll_server.c alone.
EpollSpec == (MCInit /\ program = "epoll_server") /\ [][MCNext]_mcVars

\* The FairSpecs of the three.  The two with one thread need clients that all
\* keep reading, and tcp_server.c needs them to go in the end, for it serves
\* one to the end before it looks at the next.
MCFairSpec ==
    /\ MCSpec
    /\ WF_mcVars(Threads(Main)) /\ WF_mcVars(Loop)
    /\ \A c \in Conns :
          /\ WF_mcVars(Threads(Thread(c)))
          /\ WF_mcVars(ByEpoll(Simple!ClientReceive(c)))
          /\ WF_mcVars(InTurn(Simple!ClientReceive(c)))
          /\ WF_mcVars(InTurn(Simple!ClientFinish(c)))
    /\ \A c \in Responsive : WF_mcVars(Threads(ClientReceive(c)))

-----------------------------------------------------------------------------
(* Properties, which OwnSocket, ThreadServes and ImplementsEchoService are *)
(* among.                                                                  *)

\* The servers with one thread hold bytes only while they write them back, and
\* what epoll_wait reported is of the clients.
TypesOK ==
    /\ program = "epoll_server" => Simple!TypeOK
    /\ program = "tcp_server" => Sequential!TypeOK

\* The assertions of epoll_server.c.
AssertionsHold == Simple!AssertionsHold

\* The servers with one thread send all clients, which keep reading, all their
\* bytes back.
AllEchoed == program # "threading_server" => Service!Echoed(Conns)
=============================================================================
