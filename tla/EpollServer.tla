---------------------------- MODULE EpollServer ----------------------------
(***************************************************************************)
(* sem-10-network-2/epoll_server.c: a single thread echoes to many clients *)
(* over blocking sockets, told by a level-triggered epoll what to read.    *)
(*                                                                         *)
(* The bytes of one read are written back before anything else is done: a  *)
(* full send buffer blocks the server.  An assertion that fails ends it.   *)
(***************************************************************************)
EXTENDS TcpSockets

CONSTANTS BufSize,   \* sizeof(buffer) in handle_client_event, 4096
          Listener   \* the listening socket, among the items of the epoll

VARIABLES pc,        \* loop, write, exit
          aborted,   \* the server ended by an assertion
          events,    \* what epoll_wait reported of the items not handled yet
          cur,       \* the client write is called for
          rest       \* the bytes write has yet to take

serverVars == <<pc, aborted, events, cur, rest>>
vars == <<tcpVars, serverVars>>

Items == Conns \cup {Listener}

TypeOK ==
    /\ TcpTypeOK
    /\ pc \in {"loop", "write", "exit"}
    /\ aborted \in BOOLEAN
    /\ DOMAIN events \subseteq Items
    /\ \A i \in DOMAIN events : events[i] \subseteq {"in", "hup"}
    /\ cur \in Conns
    /\ rest \in Seq(Nat) /\ Len(rest) <= BufSize
    /\ rest # <<>> <=> pc = "write"

Nothing == [i \in {} |-> {}]

Init ==
    /\ TcpInit
    /\ pc = "loop"
    /\ aborted = FALSE
    /\ events = Nothing
    /\ cur \in Conns
    /\ rest = <<>>

ClientConnect(c) == pc # "exit" /\ Connect(c) /\ UNCHANGED serverVars
ClientSend(c) == Send(c) /\ UNCHANGED serverVars
ClientFinish(c) == Finish(c) /\ UNCHANGED serverVars
ClientReset(c) == Reset(c) /\ UNCHANGED serverVars
ClientReceive(c) == Receive(c) /\ UNCHANGED serverVars

-----------------------------------------------------------------------------
Reported(i) ==
    IF i = Listener
    THEN {"in" : c \in Backlog}
    ELSE {b \in {"in", "hup"} :
            \/ b = "in" /\ Readable(i)
            \/ b = "hup" /\ rst[i]}

EpollWait ==
    /\ pc = "loop" /\ events = Nothing
    /\ LET ready == {i \in Open \cup {Listener} : Reported(i) # {}} IN
       /\ ready # {}
       /\ events' = [i \in ready |-> Reported(i)]
    /\ UNCHANGED <<tcpVars, pc, aborted, cur, rest>>

\* The loop of run takes the reported items one by one.
Handle(i) ==
    /\ pc = "loop" /\ i \in DOMAIN events
    /\ events' = [j \in DOMAIN events \ {i} |-> events[j]]

Exit(byAssertion) ==
    /\ SockExit
    /\ pc' = "exit"
    /\ aborted' = byAssertion
    /\ rest' = <<>>
    /\ UNCHANGED cur

\* handle_conn_event
Accept(c) ==
    /\ Handle(Listener)
    /\ c \in Backlog
    /\ conn' = [conn EXCEPT ![c] = "open"]
    /\ UNCHANGED <<sent, fin, rst, rcvq, sndq, got, pc, aborted, cur, rest>>

\* accept fails for want of descriptors, and err ends the server.
AcceptError ==
    Handle(Listener) /\ Exit(FALSE)

-----------------------------------------------------------------------------
(* handle_client_event                                                     *)

CloseConnection(c) ==
    /\ SockClose(c)
    /\ UNCHANGED <<pc, aborted, cur, rest>>

Hangup(c) ==
    Handle(c) /\ "hup" \in events[c] /\ CloseConnection(c)

Reading(c) == Handle(c) /\ c \in Open /\ "hup" \notin events[c]

\* Faulty variant: read waits for a full buffer.
ReadFull(c, n) ==
    /\ Reading(c)
    /\ n = BufSize /\ n <= Len(rcvq[c])
    /\ SockRead(c, n)
    /\ pc' = "write" /\ cur' = c /\ rest' = SubSeq(rcvq[c], 1, n)
    /\ UNCHANGED aborted

\* read does not fail, as assert(rbytes > 0) says: what epoll_wait reported,
\* bytes or the end of stream, stays there if the connection is reset.
Read(c, n) ==
    /\ Reading(c)
    /\ n \in 1 .. BufSize /\ n <= Len(rcvq[c])
    /\ SockRead(c, n)
    /\ pc' = "write" /\ cur' = c /\ rest' = SubSeq(rcvq[c], 1, n)
    /\ UNCHANGED aborted

\* The terminating NUL of a full buffer goes past its end: to padding or the
\* zero byte of the canary, as Read has it, or to the process' ruin.
ReadOverrun(c) ==
    /\ Reading(c)
    /\ BufSize <= Len(rcvq[c])
    /\ Exit(FALSE)

ReadEnd(c) ==
    /\ Reading(c)
    /\ rcvq[c] = <<>> /\ fin[c]
    /\ CloseConnection(c)

\* What the bytes taken by the blocking write have in common.
Taken(c, n) ==
    /\ pc = "write" /\ c = cur /\ ~rst[c]
    /\ n \in 1 .. Len(rest) /\ Len(sndq[c]) + n <= SndCap
    /\ SockWrite(c, SubSeq(rest, 1, n))
    /\ UNCHANGED <<aborted, events, cur>>

\* Faulty variant: the rest of the buffer is written once more.
WriteAgainAll(c, n) ==
    /\ Taken(c, n)
    /\ rest' = IF n = Len(rest) THEN <<>> ELSE rest
    /\ pc' = IF n = Len(rest) THEN "loop" ELSE "write"

\* Faulty variant: the loop goes on while the write is under way.
WriteAndLoop(c, n) ==
    /\ Taken(c, n)
    /\ rest' = SubSeq(rest, n + 1, Len(rest))
    /\ pc' = "loop"

\* The blocking write moves bytes as the client makes room for them, and
\* returns when the last is taken.
Write(c, n) ==
    /\ Taken(c, n)
    /\ rest' = SubSeq(rest, n + 1, Len(rest))
    /\ pc' = IF n = Len(rest) THEN "loop" ELSE "write"

\* The connection is reset: assert(wbytes == rbytes) after a short write or
\* ECONNRESET, SIGPIPE if nothing was written and the client had finished.
WriteError(c) ==
    /\ pc = "write" /\ c = cur /\ rst[c]
    /\ \E byAssertion \in {TRUE, ~fin[c]} : Exit(byAssertion)
    /\ UNCHANGED events

-----------------------------------------------------------------------------
Client(c) ==
    ClientConnect(c) \/ ClientSend(c) \/ ClientFinish(c) \/ ClientReset(c)
        \/ ClientReceive(c)

Handler(c) ==
    \/ Accept(c) \/ Hangup(c) \/ ReadOverrun(c) \/ ReadEnd(c)
    \/ WriteError(c)
    \/ \E n \in 1 .. BufSize : Read(c, n) \/ Write(c, n)

Server == EpollWait \/ AcceptError \/ \E c \in Conns : Handler(c)

Next == Server \/ \E c \in Conns : Client(c)

Spec == Init /\ [][Next]_vars

\* The kernel schedules the server's thread, and a responsive client reads
\* the echo at hand.
FairSpec ==
    /\ Spec
    /\ WF_vars(Server)
    /\ \A c \in Responsive : WF_vars(ClientReceive(c))

-----------------------------------------------------------------------------
(* Properties                                                              *)

\* The assertions of handle_client_event, of which the last can fail: a write
\* takes all it is given.
AssertionsHold == ~aborted

=============================================================================
