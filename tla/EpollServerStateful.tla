------------------------ MODULE EpollServerStateful ------------------------
(***************************************************************************)
(* sem-10-network-2/epoll_server_stateful.c: a single thread echoes to     *)
(* many clients over blocking sockets and a level-triggered epoll.         *)
(*                                                                         *)
(* It may afford blocking calls because it makes one for each event, which *)
(* epoll_wait promised not to block.  A handler makes one system call, so  *)
(* it is one step; clients act between epoll_wait and any event of it.     *)
(***************************************************************************)
EXTENDS TcpSockets

CONSTANTS BufSize,   \* sizeof(client_state_t.buf), 4096
          Listener   \* the listening socket, among the items of the epoll

\* A send buffer that epoll calls writable has a third of its size free, at
\* least 5 KB on Linux: write takes all of buf at once.
ASSUME StatefulAssumption ==
    /\ BufSize \in Nat \ {0}
    /\ BufSize <= SndCap - SndLow
    /\ Listener \notin Conns

VARIABLES up,      \* the process runs
          events,  \* what epoll_wait reported, for the items not handled yet
          held     \* client_state_t: the bytes from buf_begin to buf_end

serverVars == <<up, events, held>>
vars == <<tcpVars, serverVars>>

Items == Conns \cup {Listener}

TypeOK ==
    /\ TcpTypeOK
    /\ up \in BOOLEAN
    /\ DOMAIN events \subseteq Items
    /\ \A i \in DOMAIN events : events[i] \subseteq {"in", "out", "hup"}
    /\ held \in [Conns -> Seq(Nat)]
    /\ \A c \in Conns : Len(held[c]) <= BufSize

Nothing == [i \in {} |-> {}]

Init ==
    /\ TcpInit
    /\ up = TRUE
    /\ events = Nothing
    /\ held = [c \in Conns |-> <<>>]

ClientConnect(c) == up /\ Connect(c) /\ UNCHANGED serverVars
ClientSend(c) == Send(c) /\ UNCHANGED serverVars
ClientFinish(c) == Finish(c) /\ UNCHANGED serverVars
ClientReset(c) == Reset(c) /\ UNCHANGED serverVars
ClientReceive(c) == Receive(c) /\ UNCHANGED serverVars

-----------------------------------------------------------------------------
(* epoll_wait and the end of an event                                      *)

Reported(i) ==
    IF i = Listener
    THEN {"in" : c \in Backlog}
    ELSE {b \in {"in", "out", "hup"} :
            \/ b = "in" /\ Readable(i)
            \/ b = "out" /\ Writable(i)
            \/ b = "hup" /\ rst[i]}

EpollWait ==
    /\ up /\ events = Nothing
    /\ LET ready == {i \in Open \cup {Listener} : Reported(i) # {}} IN
       /\ ready # {}
       /\ events' = [i \in ready |-> Reported(i)]
    /\ UNCHANGED <<tcpVars, up, held>>

Without(i) == [j \in DOMAIN events \ {i} |-> events[j]]

Handle(i) ==
    /\ up /\ i \in DOMAIN events
    /\ events' = Without(i)

Exit ==
    /\ SockExit
    /\ up' = FALSE
    /\ UNCHANGED held

-----------------------------------------------------------------------------
(* handle_conn_event                                                       *)

\* Faulty variant: one event accepts all there is, without O_NONBLOCK.
AcceptMore(c) ==
    /\ up /\ Listener \in DOMAIN events
    /\ c \in Backlog
    /\ conn' = [conn EXCEPT ![c] = "open"]
    /\ UNCHANGED <<sent, fin, rst, rcvq, sndq, got, serverVars>>

Accept(c) ==
    /\ Handle(Listener)
    /\ c \in Backlog
    /\ conn' = [conn EXCEPT ![c] = "open"]
    /\ held' = [held EXCEPT ![c] = <<>>]
    /\ UNCHANGED <<sent, fin, rst, rcvq, sndq, got, up>>

\* accept fails for want of descriptors, and err ends the server.
AcceptError ==
    Handle(Listener) /\ Exit

-----------------------------------------------------------------------------
(* handle_client_event                                                     *)

\* shutdown, close (which takes the socket out of the epoll) and free.
CloseConnection(c) ==
    /\ SockClose(c)
    /\ held' = [held EXCEPT ![c] = <<>>]
    /\ UNCHANGED up

Hangup(c) ==
    Handle(c) /\ "hup" \in events[c] /\ CloseConnection(c)

MayWrite(c) ==
    c \in Open /\ c \in DOMAIN events /\ "hup" \notin events[c]
        /\ "out" \in events[c] /\ held[c] # <<>>

MayRead(c) ==
    c \in Open /\ c \in DOMAIN events /\ "hup" \notin events[c]
        /\ "in" \in events[c] /\ held[c] = <<>>

\* Faulty variant: buf_begin and buf_end are not reset after the write.
WriteKeep(c) ==
    /\ Handle(c) /\ MayWrite(c) /\ ~rst[c]
    /\ Len(sndq[c]) + Len(held[c]) <= SndCap
    /\ SockWrite(c, held[c])
    /\ UNCHANGED <<up, held>>

\* Faulty variant: the buffer is cleared, the write is forgotten.
WriteDrop(c) ==
    /\ Handle(c) /\ MayWrite(c) /\ ~rst[c]
    /\ held' = [held EXCEPT ![c] = <<>>]
    /\ UNCHANGED <<tcpVars, up>>

\* A blocking write returns when all was taken.
Write(c) ==
    /\ Handle(c) /\ MayWrite(c) /\ ~rst[c]
    /\ Len(sndq[c]) + Len(held[c]) <= SndCap
    /\ SockWrite(c, held[c])
    /\ held' = [held EXCEPT ![c] = <<>>]
    /\ UNCHANGED up

\* The connection was reset since epoll_wait: EPIPE if the client had
\* finished, ECONNRESET, which ends the server, if it had not.
WriteError(c) ==
    /\ Handle(c) /\ MayWrite(c) /\ rst[c]
    /\ IF fin[c] THEN CloseConnection(c) ELSE Exit

\* read does not fail: what epoll_wait reported, bytes or the end of stream,
\* stays there if the connection is reset.
Read(c, n) ==
    /\ Handle(c) /\ MayRead(c)
    /\ n \in 1 .. BufSize /\ n <= Len(rcvq[c])
    /\ SockRead(c, n)
    /\ held' = [held EXCEPT ![c] = SubSeq(rcvq[c], 1, n)]
    /\ UNCHANGED up

ReadEnd(c) ==
    /\ Handle(c) /\ MayRead(c)
    /\ rcvq[c] = <<>> /\ fin[c]
    /\ CloseConnection(c)

\* Writable with nothing to write, or readable with a full buffer.
Ignore(c) ==
    /\ Handle(c) /\ "hup" \notin events[c]
    /\ ~MayWrite(c) /\ ~MayRead(c)
    /\ UNCHANGED <<tcpVars, up, held>>

-----------------------------------------------------------------------------
Client(c) ==
    ClientConnect(c) \/ ClientSend(c) \/ ClientFinish(c) \/ ClientReset(c)
        \/ ClientReceive(c)

Handler(c) ==
    \/ Accept(c) \/ Hangup(c) \/ Write(c) \/ WriteError(c)
    \/ ReadEnd(c) \/ Ignore(c)
    \/ \E n \in 1 .. BufSize : Read(c, n)

Server == EpollWait \/ AcceptError \/ \E c \in Conns : Handler(c)

Next == Server \/ \E c \in Conns : Client(c)

Spec == Init /\ [][Next]_vars

\* The kernel schedules the server's thread, and a responsive client reads
\* the echo at hand.
FairSpec ==
    /\ Spec
    /\ WF_vars(Server)
    /\ \A c \in Responsive : WF_vars(ClientReceive(c))

-----------------------------------------------------------------------------
(* Properties                                                              *)

\* What epoll_wait reported of an item still holds when its event is handled,
\* however many events came before it and whatever clients did meanwhile: the
\* accept, read or write of the handler does not block, and its client_state_t
\* was not freed.
EventsStillTrue ==
    /\ TypeOK
    /\ up => \A i \in DOMAIN events :
                i \in Open \cup {Listener} /\ events[i] \subseteq Reported(i)

=============================================================================
